----------------------------- MODULE ToolCalls -----------------------------
(***************************************************************************)
(* The calls to the tools of one deployed server inside apps/runtime-host: *)
(* runToolCall with the circuit breaker, the response cache and the        *)
(* concurrency limiter it goes through.  All three keep their state by     *)
(* slug, so the servers of one process do not share any of it.             *)
(*                                                                         *)
(* JavaScript runs one callback at a time.  An action is the code between  *)
(* two points where a call really waits: for a slot, or for its upstream.  *)
(* The resumption of a call that was given a slot runs before any other    *)
(* event is taken, and is part of the step that gives it.                  *)
(***************************************************************************)
EXTENDS Integers, FiniteSets, Sequences

CONSTANTS
    Call,              \* callers; each makes one call after the other
    Key,               \* cache keys
    NoKey,
    KeyOf,             \* the cache key of each caller's calls, if cacheable
    MaxConcurrent,     \* slots per slug
    FailureThreshold   \* consecutive failures that open the breaker

ASSUME CallAssumption  == IsFiniteSet(Call)
ASSUME KeyAssumption   == NoKey \notin Key /\ KeyOf \in [Call -> Key \cup {NoKey}]
ASSUME LimitAssumption == MaxConcurrent \in Nat \ {0} /\ FailureThreshold \in Nat \ {0}

VARIABLES
    pc,        \* where each call is; "deaf": at its upstream, past its timeout
    active,    \* ConcurrencyLimiter: slots taken
    waiters,   \* ConcurrencyLimiter: calls to be given a slot, in order
    failures,  \* CircuitBreakerRegistry: consecutiveFailures, as far as the
               \* threshold, beyond which it is only compared
    breaker,   \* openUntil: null, in the future, or past
    cached     \* TtlCache: the keys with a live entry; only tools that are
               \* readOnly and have a cacheTtlSeconds have a key

vars == <<pc, active, waiters, failures, breaker, cached>>

TypeOK ==
    /\ pc       \in [Call -> {"idle", "waiting", "running", "deaf"}]
    /\ active   \in Nat
    /\ waiters  \in Seq(Call)
    /\ failures \in 0..FailureThreshold
    /\ breaker  \in {"closed", "open", "elapsed"}
    /\ cached   \in SUBSET Key

Init ==
    /\ pc       = [c \in Call |-> "idle"]
    /\ active   = 0
    /\ waiters  = <<>>
    /\ failures = 0
    /\ breaker  = "closed"
    /\ cached   = {}

AtUpstream == {"running", "deaf"}

-----------------------------------------------------------------------------
(* The circuit breaker *)

Close == breaker' = "closed" /\ failures' = 0

\* Mutant: openUntil is cleared after the cooldown, but not the count.
ResetIfElapsedKeepingCount ==
    IF breaker = "elapsed" THEN breaker' = "closed" /\ UNCHANGED failures
                           ELSE UNCHANGED <<breaker, failures>>

\* isOpen, which closes a breaker whose cooldown is over.
ResetIfElapsed ==
    IF breaker = "elapsed" THEN Close ELSE UNCHANGED <<breaker, failures>>

\* A failure at or above the threshold (re)starts the cooldown.
RecordFailure ==
    /\ failures' = IF failures < FailureThreshold THEN failures + 1 ELSE failures
    /\ breaker'  = IF failures + 1 >= FailureThreshold THEN "open" ELSE "closed"

RecordSuccess == Close

CooldownElapses ==
    /\ breaker = "open"
    /\ breaker' = "elapsed"
    /\ UNCHANGED <<pc, active, waiters, failures, cached>>

-----------------------------------------------------------------------------
(* The concurrency limiter *)

\* Mutant: the comparison lets one more in.
AcquireOneTooMany(c) ==
    IF active <= MaxConcurrent
    THEN /\ active' = active + 1
         /\ pc' = [pc EXCEPT ![c] = "running"]
         /\ UNCHANGED waiters
    ELSE /\ waiters' = Append(waiters, c)
         /\ pc' = [pc EXCEPT ![c] = "waiting"]
         /\ UNCHANGED active

Acquire(c) ==
    IF active < MaxConcurrent
    THEN /\ active' = active + 1
         /\ pc' = [pc EXCEPT ![c] = "running"]
         /\ UNCHANGED waiters
    ELSE /\ waiters' = Append(waiters, c)
         /\ pc' = [pc EXCEPT ![c] = "waiting"]
         /\ UNCHANGED active

\* Math.max(0, current - 1)
Freed == IF active > 0 THEN active - 1 ELSE 0

\* Mutant: a released slot is not passed on.
ReleaseWakingNobody(c) ==
    /\ pc' = [pc EXCEPT ![c] = "idle"]
    /\ active' = Freed
    /\ UNCHANGED waiters

\* Mutant: a slot that is passed on is not given back first.
ReleaseCountingTwice(c) ==
    IF waiters = <<>>
    THEN /\ pc' = [pc EXCEPT ![c] = "idle"]
         /\ active' = Freed
         /\ UNCHANGED waiters
    ELSE /\ pc' = [pc EXCEPT ![c] = "idle", ![Head(waiters)] = "running"]
         /\ active' = active + 1
         /\ waiters' = Tail(waiters)

\* The slot of call c is freed, and the first waiter, if any, takes it.
Release(c) ==
    IF waiters = <<>>
    THEN /\ pc' = [pc EXCEPT ![c] = "idle"]
         /\ active' = Freed
         /\ UNCHANGED waiters
    ELSE /\ pc' = [pc EXCEPT ![c] = "idle", ![Head(waiters)] = "running"]
         /\ active' = Freed + 1
         /\ waiters' = Tail(waiters)

-----------------------------------------------------------------------------
(* runToolCall *)

(* A call that finds the breaker open is answered at once and changes nothing. *)

\* The cache has the answer.
Hit(c) ==
    /\ pc[c] = "idle"
    /\ breaker # "open"
    /\ KeyOf[c] \in cached
    /\ ResetIfElapsed
    /\ UNCHANGED <<pc, active, waiters, cached>>

\* The call asks for a slot, and goes to its upstream when it has one.
Ask(c) ==
    /\ pc[c] = "idle"
    /\ breaker # "open"
    /\ KeyOf[c] \notin cached
    /\ ResetIfElapsed
    /\ Acquire(c)
    /\ UNCHANGED cached

\* Mutant: the answers of tools that may not be cached are cached.
SucceedCachingAll(c) ==
    /\ pc[c] \in AtUpstream
    /\ RecordSuccess
    /\ cached' = cached \cup {KeyOf[c]}
    /\ Release(c)

\* executeTool never throws: a failure is an answer with an error in it.
Succeed(c) ==
    /\ pc[c] \in AtUpstream
    /\ RecordSuccess
    /\ cached' = IF KeyOf[c] = NoKey THEN cached ELSE cached \cup {KeyOf[c]}
    /\ Release(c)

FailCall(c) ==
    /\ pc[c] \in AtUpstream
    /\ RecordFailure
    /\ Release(c)
    /\ UNCHANGED cached

EntryExpires(k) ==
    /\ k \in cached
    /\ cached' = cached \ {k}
    /\ UNCHANGED <<pc, active, waiters, failures, breaker>>

Finish(c) == Succeed(c) \/ FailCall(c)

\* The timer aborts the request while its host is looked up, before anything
\* listens: the request is sent all the same and nothing ends it any more but
\* its upstream.
AbortUnheard(c) ==
    /\ pc[c] = "running"
    /\ pc' = [pc EXCEPT ![c] = "deaf"]
    /\ UNCHANGED <<active, waiters, failures, breaker, cached>>

\* An answer with a status that may not have a body, as 204, or that is out of
\* range: toWebResponse throws inside the event callback.  The process dies,
\* with all of its calls, and the one that replaces it begins anew.
AnswerKillsHost(c) ==
    /\ pc[c] \in AtUpstream
    /\ pc'       = [d \in Call |-> "idle"]
    /\ active'   = 0
    /\ waiters'  = <<>>
    /\ failures' = 0
    /\ breaker'  = "closed"
    /\ cached'   = {}

Next ==
    \/ \E c \in Call : Hit(c) \/ Ask(c) \/ Finish(c) \/ AbortUnheard(c) \/ AnswerKillsHost(c)
    \/ \E k \in Key : EntryExpires(k)
    \/ CooldownElapses

Spec == Init /\ [][Next]_vars

\* executeTool aborts the request when its timeout is over, so that every
\* call that runs comes to an end, unless the abort is not heard.
FairSpec == Spec /\ \A c \in Call : WF_vars(pc[c] = "running" /\ Finish(c))

-----------------------------------------------------------------------------
(* Properties *)

Running == {c \in Call : pc[c] \in AtUpstream}
Deaf    == {c \in Call : pc[c] = "deaf"}

\* The counter of the limiter is the number of calls at the upstream, however
\* releases and hand-overs interleave: no slot leaks and none is given twice.
SlotsCounted == active = Cardinality(Running)

\* Never more than maxConcurrent calls are at the upstream of one server.
BoundedConcurrency == Cardinality(Running) <= MaxConcurrent

\* The queue holds each waiting call exactly once, and a call only waits while
\* every slot is taken.
WaitersMatch ==
    /\ \A c \in Call : pc[c] = "waiting" <=> \E i \in DOMAIN waiters : waiters[i] = c
    /\ \A i, j \in DOMAIN waiters : waiters[i] = waiters[j] => i = j
    /\ waiters # <<>> => active = MaxConcurrent

\* The count and openUntil agree, so that a breaker that closed after its
\* cooldown takes a full run of failures to open again.
BreakerConsistent == breaker = "closed" <=> failures < FailureThreshold

\* Every call that waits for a slot gets one, or is gone with the process, as
\* long as calls whose abort was not heard do not hold all the slots.
SlotsRemain == <>[](Cardinality(Deaf) < MaxConcurrent)

EveryCallServed ==
    SlotsRemain => \A c \in Call : pc[c] = "waiting" ~> pc[c] # "waiting"
=============================================================================
