---------------------------- MODULE UpstreamCall ----------------------------
(***************************************************************************)
(* One executeTool call of the interpreter with the guarded fetch of       *)
(* apps/worker or apps/runtime-host: resolve the host, connect to the      *)
(* address that was checked, send, read the body up to its limit.          *)
(*                                                                         *)
(* The abort timer is armed before the host is resolved, but the request   *)
(* only begins to listen for the abort when it is sent: a timer that fires *)
(* during the lookup is not heard by the request that follows it.          *)
(*                                                                         *)
(* A text that was rendered from an answer holds values of the upstream    *)
(* and the title of the tool.  Where a phrase of an error is in it, it     *)
(* reads as that error to whoever looks for the phrase.                    *)
(***************************************************************************)
EXTENDS ToolSpecs

CONSTANTS
    Timeout,   \* timeoutMs, in ticks of the clock
    NoResult

ASSUME TimeoutAssumption == Timeout \in Nat \ {0}

VARIABLES
    exec,      \* where the call is
    timer,     \* of the AbortController
    elapsed,   \* ticks since the call, as far as Timeout
    result,    \* which text executeTool returned
    heard,     \* what the upstream really did: see Answer
    wrote      \* a request with a method other than GET was sent

callVars == <<exec, timer, elapsed, result, heard, wrote>>

Rendered == {"rendered", "reads transient", "reads fatal"}

Results == Rendered \cup {"status 4xx", "status 5xx", "not JSON", "too large",
                       "timed out", "failed", "invalid", "unbuildable"}

ASSUME NoResultAssumption == NoResult \notin Results

CallTypeOK ==
    /\ exec \in {"idle", "resolving", "awaiting", "reading", "returned"}
    /\ timer \in {"off", "armed", "fired"}
    /\ elapsed \in 0..Timeout
    /\ result \in Results \cup {NoResult}
    /\ heard \in {"nothing", "error", "answer"}
    /\ wrote \in BOOLEAN
    /\ exec \in {"resolving", "awaiting", "reading"} => timer # "off"
    /\ exec = "returned" <=> result # NoResult

CallInit ==
    /\ exec = "idle"
    /\ timer = "off"
    /\ elapsed = 0
    /\ result = NoResult
    /\ heard = "nothing"
    /\ wrote = FALSE

-----------------------------------------------------------------------------

\* executeTool returns, and clears its timer.
Return(text) ==
    /\ exec' = "returned"
    /\ result' = text
    /\ timer' = "off"

\* The catch block looks at the signal, whatever the error was.
Caught == Return(IF timer = "fired" THEN "timed out" ELSE "failed")

\* Mutant: no timer is armed.
StartCallUntimed(tool, args) ==
    /\ elapsed' = 0
    /\ heard' = "nothing"
    /\ UNCHANGED wrote
    /\ IF ~ArgsAccepted(tool, args)   THEN Return("invalid")
       ELSE IF tool.url = "badport" THEN Return("unbuildable")
       ELSE exec' = "resolving" /\ UNCHANGED timer /\ result' = NoResult

StartCall(tool, args) ==
    /\ elapsed' = 0
    /\ heard' = "nothing"
    /\ UNCHANGED wrote
    /\ IF ~ArgsAccepted(tool, args)   THEN Return("invalid")
       ELSE IF tool.url = "badport" THEN Return("unbuildable")
       ELSE exec' = "resolving" /\ timer' = "armed" /\ result' = NoResult

\* The request goes to the first of the addresses, and is listening for the
\* abort from here on.
Send(tool) ==
    /\ exec' = "awaiting"
    /\ wrote' = (wrote \/ tool.method # "GET")
    /\ UNCHANGED <<timer, result>>

\* defaultResolveHost: a lookup that fails finds nothing, and one address
\* that is not public refuses them all.
Refused(found) == found = {} \/ "private" \in found

Resolve(tool) ==
    /\ exec = "resolving"
    /\ \E found \in SUBSET {"public", "private"} :
          IF tool.url = "unlisted" \/ Refused(found)
          THEN Caught /\ UNCHANGED wrote
          ELSE Send(tool)
    /\ UNCHANGED <<elapsed, heard>>

\* The status line.  Only the body of a 2xx is read.
Answer ==
    /\ exec = "awaiting"
    /\ \/ Return("status 5xx") /\ heard' = "error"
       \/ Return("status 4xx") /\ heard' = "answer"
       \/ exec' = "reading" /\ UNCHANGED <<timer, result, heard>>
    /\ UNCHANGED <<elapsed, wrote>>

\* A status that forbids a body, as 204 does, or that is none: the Response
\* cannot be built.  What throws is the callback of the request, which nobody
\* catches, and the process ends with all its calls.
AnswerThrows ==
    /\ exec = "awaiting"
    /\ exec' = "idle" /\ timer' = "off" /\ elapsed' = 0
    /\ result' = NoResult /\ heard' = "nothing"
    /\ UNCHANGED wrote

ReadBody ==
    /\ exec = "reading"
    /\ heard' = "answer"
    /\ \E text \in Rendered \cup {"not JSON", "too large"} : Return(text)
    /\ UNCHANGED <<elapsed, wrote>>

ConnectionFails ==
    /\ exec \in {"awaiting", "reading"}
    /\ Caught
    /\ UNCHANGED <<elapsed, heard, wrote>>

\* The abort destroys a request that listens for it.
TimerFires ==
    /\ timer = "armed" /\ elapsed = Timeout
    /\ IF exec = "resolving" THEN timer' = "fired" /\ UNCHANGED <<exec, result>>
                             ELSE Return("timed out")
    /\ UNCHANGED <<elapsed, heard, wrote>>

Tick ==
    /\ exec \in {"resolving", "awaiting", "reading"}
    /\ elapsed < Timeout
    /\ elapsed' = elapsed + 1
    /\ UNCHANGED <<exec, timer, result, heard, wrote>>

\* A request that nothing but its upstream can end.
Unguarded == exec \in {"awaiting", "reading"} /\ timer = "fired"

CallStep(tool) ==
    Resolve(tool) \/ Answer \/ ReadBody \/ ConnectionFails \/ TimerFires \/ Tick
=============================================================================
