----------------------------- MODULE ServerPool -----------------------------
(***************************************************************************)
(* How apps/runtime-host finds the spec of one slug: McpServerPool.resolve *)
(* with its TTL cache in front of the registry, which reads the server's   *)
(* status from the database and then the spec file that the worker's       *)
(* deployer writes.                                                        *)
(*                                                                         *)
(* Requests are concurrent: each read is evaluated at one moment and its   *)
(* result used at a later one.  Time passes in ticks; a resolution takes   *)
(* at most ReadTicks of them.                                              *)
(***************************************************************************)
EXTENDS Integers

CONSTANTS
    Request,    \* connections, each used for one request after the other
    Version,    \* specs that are deployed under the slug
    None,       \* no spec
    Ttl,        \* resolvedTtlMs
    ReadTicks,  \* bound: how long one resolution may take
    Horizon     \* bound: ages are not told apart beyond this

ASSUME VersionAssumption == None \notin Version
ASSUME TimeAssumption ==
    /\ Ttl \in Nat \ {0} /\ ReadTicks \in Nat
    /\ Horizon \in Nat /\ Horizon >= Ttl + ReadTicks

VARIABLES
    row,      \* servers.status = 'active'
    file,     \* what a reader of the spec file gets
    writing,  \* the spec a deployer is writing
    entry,    \* the cached spec of the slug
    age,      \* how long ago it was stored
    pc,       \* where each request is
    got,      \* the spec it has read, and is answered with
    took,     \* how long its resolution has taken so far
    \* history
    offFor,   \* how long ago the row was last active
    lostFor   \* how long ago the file last held each version

registry == <<row, file, writing>>
cache    == <<entry, age>>
requests == <<pc, got, took>>
history  == <<offFor, lostFor>>
vars     == <<registry, cache, requests, history>>

TypeOK ==
    /\ row \in BOOLEAN
    /\ file \in Version \cup {None} /\ writing \in Version \cup {None}
    /\ entry \in Version \cup {None} /\ age \in 0..Horizon
    /\ pc \in [Request -> {"idle", "status", "file", "store", "answered"}]
    /\ got \in [Request -> Version \cup {None}]
    /\ took \in [Request -> 0..ReadTicks]
    /\ offFor \in 0..Horizon
    /\ lostFor \in [Version -> 0..Horizon]

\* Before the first deployment: the row is building, there is no file.
Init ==
    /\ row = FALSE /\ file = None /\ writing = None
    /\ entry = None /\ age = 0
    /\ pc   = [r \in Request |-> "idle"]
    /\ got  = [r \in Request |-> None]
    /\ took = [r \in Request |-> 0]
    /\ offFor = Horizon
    /\ lostFor = [v \in Version |-> Horizon]

-----------------------------------------------------------------------------
(* The worker and the dashboard *)

Activate ==
    /\ row' = TRUE /\ offFor' = 0
    /\ UNCHANGED <<file, writing, cache, requests, lostFor>>

\* Disabled or deleted.
Deactivate ==
    /\ row
    /\ row' = FALSE
    /\ UNCHANGED <<file, writing, cache, requests, history>>

\* writeFile empties the file and then fills it; half a spec does not parse.
WriteBegins(v) ==
    /\ writing = None
    /\ file' = None /\ writing' = v
    /\ UNCHANGED <<row, cache, requests, history>>

WriteEnds ==
    /\ writing # None
    /\ file' = writing /\ writing' = None
    /\ lostFor' = [lostFor EXCEPT ![writing] = 0]
    /\ UNCHANGED <<row, cache, requests, offFor>>

Remove ==
    /\ writing = None /\ file # None
    /\ file' = None
    /\ UNCHANGED <<row, writing, cache, requests, history>>

-----------------------------------------------------------------------------
(* resolve *)

\* Mutant: an entry is never looked up again.
CachedForever == entry # None

Fresh == entry # None /\ age < Ttl

\* Mutant: every use of an entry renews it.
ResolveRenewing(r) ==
    /\ pc[r] = "idle"
    /\ IF Fresh
       THEN /\ pc' = [pc EXCEPT ![r] = "answered"] /\ got' = [got EXCEPT ![r] = entry]
            /\ age' = 0
       ELSE pc' = [pc EXCEPT ![r] = "status"] /\ UNCHANGED <<got, age>>
    /\ took' = [took EXCEPT ![r] = 0]
    /\ UNCHANGED <<registry, entry, history>>

Resolve(r) ==
    /\ pc[r] = "idle"
    /\ IF Fresh
       THEN pc' = [pc EXCEPT ![r] = "answered"] /\ got' = [got EXCEPT ![r] = entry]
       ELSE pc' = [pc EXCEPT ![r] = "status"] /\ UNCHANGED got
    /\ took' = [took EXCEPT ![r] = 0]
    /\ UNCHANGED <<registry, cache, history>>

\* DbStatusGatedSpecRegistry.get: anything but an active row is no spec ...
ReadStatus(r) ==
    /\ pc[r] = "status"
    /\ pc' = [pc EXCEPT ![r] = IF row THEN "file" ELSE "store"]
    /\ UNCHANGED <<registry, cache, got, took, history>>

\* Mutant: what a half-written file holds is taken for a spec.
ReadFileUnchecked(r) ==
    /\ pc[r] = "file"
    /\ pc' = [pc EXCEPT ![r] = "store"]
    /\ got' = [got EXCEPT ![r] = IF writing # None THEN <<"half of", writing>> ELSE file]
    /\ UNCHANGED <<registry, cache, took, history>>

\* ... and an active row's spec is what the file holds, if it can be parsed.
ReadFile(r) ==
    /\ pc[r] = "file"
    /\ pc' = [pc EXCEPT ![r] = "store"]
    /\ got' = [got EXCEPT ![r] = file]
    /\ UNCHANGED <<registry, cache, took, history>>

\* The entry is stamped with the time at which the registry has answered; a
\* missing spec drops it.
Store(v) == entry' = v /\ age' = 0

Answer(r) ==
    /\ pc[r] = "store"
    /\ Store(got[r])
    /\ pc' = [pc EXCEPT ![r] = "answered"]
    /\ UNCHANGED <<registry, got, took, history>>

Leave(r) ==
    /\ pc[r] = "answered"
    /\ pc' = [pc EXCEPT ![r] = "idle"]
    /\ got' = [got EXCEPT ![r] = None]
    /\ took' = [took EXCEPT ![r] = 0]
    /\ UNCHANGED <<registry, cache, history>>

-----------------------------------------------------------------------------

Resolving(r) == pc[r] \in {"status", "file", "store"}
Older(n)     == IF n < Horizon THEN n + 1 ELSE n

Tick ==
    /\ \A r \in Request : Resolving(r) => took[r] < ReadTicks
    /\ took' = [r \in Request |-> IF Resolving(r) THEN took[r] + 1 ELSE took[r]]
    /\ age' = IF entry = None THEN 0 ELSE Older(age)
    /\ offFor' = IF row THEN 0 ELSE Older(offFor)
    /\ lostFor' = [v \in Version |-> IF file = v THEN 0 ELSE Older(lostFor[v])]
    /\ UNCHANGED <<registry, entry, pc, got>>

Next ==
    \/ Activate \/ Deactivate \/ WriteEnds \/ Remove
    \/ \E v \in Version : WriteBegins(v)
    \/ \E r \in Request :
           Resolve(r) \/ ReadStatus(r) \/ ReadFile(r) \/ Answer(r) \/ Leave(r)
    \/ Tick

Spec == Init /\ [][Next]_vars

-----------------------------------------------------------------------------
(* Properties *)

\* Request r is answered, with spec v.
Serves(r, v) == pc[r] # "answered" /\ pc'[r] = "answered" /\ got'[r] = v

\* The cached spec is no older than the TTL allows, counted from when the
\* resolution that stored it began; so a server that was disabled or deleted is
\* served for at most Ttl + ReadTicks after that, in whatever order concurrent
\* resolutions end.
StatusShows ==
    [][\A r \in Request, v \in Version : Serves(r, v) => offFor < Ttl + ReadTicks]_vars

\* A spec that was replaced or removed is not served for longer either: the TTL of
\* mcp-server-pool.ts evicts it.  The older comment of local-file-deployer.ts:17-20
\* still says that a new spec of a slug is only picked up when the cache entry is
\* evicted, "(currently: never, short of a restart)".
SpecShows ==
    [][\A r \in Request, v \in Version : Serves(r, v) => lostFor[v] < Ttl + ReadTicks]_vars
=============================================================================
