-------------------------- MODULE ServerPoolProofs --------------------------
(***************************************************************************)
(* Proofs about ServerPool for any requests, specs, TTL and read time: how *)
(* long a server that went off, or a spec that was replaced, is served.    *)
(*                                                                         *)
(* The inductive invariant follows a spec from the registry to the cache:  *)
(* what a resolution has read was true at most as long ago as it has       *)
(* taken, hence what it stores at most ReadTicks before the stamp.         *)
(***************************************************************************)
EXTENDS ServerPool, TLAPS

\* Nothing is carried over from one request to the next.
GotOnlyFromFile ==
    \A r \in Request : pc[r] \in {"idle", "status", "file"} => got[r] = None

\* What a resolution has read of the registry held since it began.
ReadsAreRecent ==
    \A r \in Request :
        /\ pc[r] = "file" => offFor <= took[r]
        /\ pc[r] = "store" /\ got[r] # None =>
               offFor <= took[r] /\ lostFor[got[r]] <= took[r]

\* What the cache holds, held at most ReadTicks before its stamp.
EntryIsRecent ==
    entry # None => /\ offFor <= age + ReadTicks
                    /\ lostFor[entry] <= age + ReadTicks

\* The history of what the registry holds now.
HistoryMatches ==
    /\ row => offFor = 0
    /\ \A v \in Version : file = v => lostFor[v] = 0

IInv ==
    /\ TypeOK
    /\ GotOnlyFromFile
    /\ ReadsAreRecent
    /\ EntryIsRecent
    /\ HistoryMatches

\* Initially nothing is read or cached.
LEMMA InitIInv == Init => IInv
<1> SUFFICES ASSUME Init PROVE IInv
  OBVIOUS
<1>1. row \in BOOLEAN
  BY Zenon DEF Init
<1>2. TypeOK
  BY <1>1, VersionAssumption, TimeAssumption DEF Init, TypeOK
<1>3. GotOnlyFromFile /\ ReadsAreRecent /\ EntryIsRecent /\ HistoryMatches
  BY VersionAssumption
  DEF Init, GotOnlyFromFile, ReadsAreRecent, EntryIsRecent, HistoryMatches
<1> QED BY <1>2, <1>3 DEF IInv

\* Steps of the worker and the dashboard.
LEMMA RegistryStep ==
  ASSUME IInv,
         \/ Activate \/ Deactivate \/ WriteEnds \/ Remove
         \/ \E v \in Version : WriteBegins(v)
  PROVE  IInv'
<1> USE VersionAssumption, TimeAssumption
    DEF IInv, TypeOK, registry, cache, requests, history
<1>1. CASE Activate
  <2>1. row' \in BOOLEAN
    BY <1>1, Zenon DEF Activate
  <2>2. offFor' = 0 /\ UNCHANGED <<file, writing, cache, requests, lostFor>>
    BY <1>1 DEF Activate
  <2>3. TypeOK'
    BY <2>1, <2>2
  <2>4. GotOnlyFromFile' /\ ReadsAreRecent' /\ EntryIsRecent' /\ HistoryMatches'
    BY <2>2 DEF GotOnlyFromFile, ReadsAreRecent, EntryIsRecent, HistoryMatches
  <2> QED BY <2>3, <2>4
<1>2. CASE Deactivate
  BY <1>2 DEF Deactivate, GotOnlyFromFile, ReadsAreRecent, EntryIsRecent, HistoryMatches
<1>3. CASE WriteEnds
  <2>1. TypeOK' /\ GotOnlyFromFile' /\ HistoryMatches'
    BY <1>3 DEF WriteEnds, GotOnlyFromFile, HistoryMatches
  <2>2. \A v \in Version : lostFor'[v] <= lostFor[v]
    BY <1>3 DEF WriteEnds
  <2>3. ReadsAreRecent'
    BY <1>3, <2>2 DEF WriteEnds, ReadsAreRecent
  <2>4. EntryIsRecent'
    BY <1>3, <2>2 DEF WriteEnds, EntryIsRecent
  <2> QED BY <2>1, <2>3, <2>4
<1>4. CASE Remove
  BY <1>4 DEF Remove, GotOnlyFromFile, ReadsAreRecent, EntryIsRecent, HistoryMatches
<1>5. CASE \E v \in Version : WriteBegins(v)
  BY <1>5 DEF WriteBegins, GotOnlyFromFile, ReadsAreRecent, EntryIsRecent, HistoryMatches
<1> QED BY <1>1, <1>2, <1>3, <1>4, <1>5

\* Steps of a request.
LEMMA RequestStep ==
  ASSUME IInv, NEW r \in Request,
         Resolve(r) \/ ReadStatus(r) \/ ReadFile(r) \/ Answer(r) \/ Leave(r)
  PROVE  IInv'
<1> USE VersionAssumption, TimeAssumption
    DEF IInv, TypeOK, registry, cache, requests, history
<1>1. CASE Resolve(r)
  BY <1>1 DEF Resolve, GotOnlyFromFile, ReadsAreRecent, EntryIsRecent, HistoryMatches
<1>2. CASE ReadStatus(r)
  BY <1>2 DEF ReadStatus, GotOnlyFromFile, ReadsAreRecent, EntryIsRecent, HistoryMatches
<1>3. CASE ReadFile(r)
  BY <1>3 DEF ReadFile, GotOnlyFromFile, ReadsAreRecent, EntryIsRecent, HistoryMatches
<1>4. CASE Answer(r)
  <2>1. EntryIsRecent'
    BY <1>4 DEF Answer, Store, ReadsAreRecent, EntryIsRecent
  <2> QED BY <1>4, <2>1 DEF Answer, Store, GotOnlyFromFile, ReadsAreRecent, HistoryMatches
<1>5. CASE Leave(r)
  BY <1>5 DEF Leave, GotOnlyFromFile, ReadsAreRecent, EntryIsRecent, HistoryMatches
<1> QED BY <1>1, <1>2, <1>3, <1>4, <1>5

\* Ages grow by at most one, and stop at the horizon.
LEMMA OlderBounds ==
  ASSUME NEW n \in 0..Horizon
  PROVE  Older(n) \in 0..Horizon /\ Older(n) <= n + 1 /\ (Older(n) = n + 1 \/ n = Horizon)
BY TimeAssumption DEF Older

\* The passing of time.
LEMMA TickStep ==
  ASSUME IInv, Tick
  PROVE  IInv'
<1> USE VersionAssumption, TimeAssumption DEF IInv, TypeOK
<1>1. /\ offFor' \in 0..Horizon /\ offFor' <= offFor + 1
      /\ row => offFor' = 0
  BY OlderBounds DEF Tick
<1>2. /\ lostFor' \in [Version -> 0..Horizon]
      /\ \A v \in Version : lostFor'[v] <= lostFor[v] + 1
      /\ \A v \in Version : file = v => lostFor'[v] = 0
  <2>1. lostFor' = [v \in Version |-> IF file = v THEN 0 ELSE Older(lostFor[v])]
    BY DEF Tick
  <2>2. ASSUME NEW v \in Version
        PROVE  /\ lostFor'[v] \in 0..Horizon /\ lostFor'[v] <= lostFor[v] + 1
               /\ file = v => lostFor'[v] = 0
    <3>1. lostFor[v] \in 0..Horizon
      OBVIOUS
    <3>2. Older(lostFor[v]) \in 0..Horizon /\ Older(lostFor[v]) <= lostFor[v] + 1
      BY <3>1, OlderBounds
    <3> QED BY <2>1, <3>1, <3>2
  <2>3. lostFor' = [v \in Version |-> lostFor'[v]]
    BY <2>1
  <2> QED BY <2>2, <2>3
<1>3. /\ age' \in 0..Horizon
      /\ entry # None => age' = age + 1 \/ age' = Horizon
  <2>1. age' = IF entry = None THEN 0 ELSE Older(age)
    BY DEF Tick
  <2>2. Older(age) \in 0..Horizon /\ (Older(age) = age + 1 \/ age = Horizon)
    BY OlderBounds
  <2>3. age = Horizon => Older(age) = Horizon
    BY DEF Older
  <2> QED BY <2>1, <2>2, <2>3
<1>4. /\ took' \in [Request -> 0..ReadTicks]
      /\ \A r \in Request : Resolving(r) => took'[r] = took[r] + 1
  BY DEF Tick, Resolving
<1>5. UNCHANGED <<row, file, writing, entry, pc, got>>
  BY DEF Tick, registry
<1>6. TypeOK'
  BY <1>1, <1>2, <1>3, <1>4, <1>5
<1>7. GotOnlyFromFile' /\ HistoryMatches'
  BY <1>1, <1>2, <1>5 DEF GotOnlyFromFile, HistoryMatches
<1>8. ReadsAreRecent'
  BY <1>1, <1>2, <1>4, <1>5 DEF ReadsAreRecent, Resolving
<1>9. EntryIsRecent'
  <2> SUFFICES ASSUME entry # None
               PROVE  offFor' <= age' + ReadTicks /\ lostFor'[entry] <= age' + ReadTicks
    BY <1>5 DEF EntryIsRecent
  <2>1. entry \in Version /\ offFor <= age + ReadTicks /\ lostFor[entry] <= age + ReadTicks
    BY DEF EntryIsRecent
  <2>2. /\ offFor' \in 0..Horizon /\ offFor' <= offFor + 1
        /\ lostFor'[entry] \in 0..Horizon /\ lostFor'[entry] <= lostFor[entry] + 1
        /\ lostFor[entry] \in 0..Horizon
    BY <1>1, <1>2, <2>1
  <2>3. CASE age' = age + 1
    BY <2>1, <2>2, <2>3
  <2>4. CASE age' = Horizon
    BY <2>2, <2>4
  <2> QED BY <1>3, <2>3, <2>4
<1> QED BY <1>6, <1>7, <1>8, <1>9

\* Every step keeps the invariant.
LEMMA NextIInv == IInv /\ [Next]_vars => IInv'
<1> SUFFICES ASSUME IInv, [Next]_vars PROVE IInv'
  OBVIOUS
<1>1. CASE UNCHANGED vars
  BY <1>1 DEF vars, registry, cache, requests, history, IInv, TypeOK, GotOnlyFromFile,
              ReadsAreRecent, EntryIsRecent, HistoryMatches
<1> QED BY <1>1, RegistryStep, RequestStep, TickStep DEF Next

\* The invariant holds throughout.
LEMMA SpecIInv == Spec => []IInv
BY InitIInv, NextIInv, PTL DEF Spec

\* Only resolving and answering serve anything.
LEMMA ServingStep ==
  ASSUME IInv, [Next]_vars, NEW r \in Request, NEW v \in Version, Serves(r, v)
  PROVE  \/ Fresh /\ entry = v
         \/ pc[r] = "store" /\ got[r] = v
<1> USE DEF IInv, TypeOK, Serves
<1>1. ASSUME NEW q \in Request, Resolve(q) PROVE Fresh /\ entry = v
  BY <1>1 DEF Resolve
<1>2. ASSUME NEW q \in Request, Answer(q) PROVE pc[r] = "store" /\ got[r] = v
  BY <1>2 DEF Answer
<1>3. ASSUME NEW q \in Request, ReadStatus(q) \/ ReadFile(q) \/ Leave(q) PROVE FALSE
  BY <1>3 DEF ReadStatus, ReadFile, Leave
<1>4. ASSUME Activate \/ Deactivate \/ WriteEnds \/ Remove \/ Tick PROVE FALSE
  BY <1>4 DEF Activate, Deactivate, WriteEnds, Remove, Tick, requests
<1>5. ASSUME NEW u \in Version, WriteBegins(u) PROVE FALSE
  BY <1>5 DEF WriteBegins, requests
<1>6. ASSUME UNCHANGED vars PROVE FALSE
  BY <1>6 DEF vars, requests
<1> QED BY <1>1, <1>2, <1>3, <1>4, <1>5, <1>6 DEF Next

\* The variables keep their types.
THEOREM TypeCorrect == Spec => []TypeOK
<1>1. IInv => TypeOK
  BY DEF IInv
<1> QED BY <1>1, SpecIInv, PTL

\* A server that was disabled or deleted is served for less than the TTL and
\* the time of one resolution after that, whatever resolutions overlap.
THEOREM StatusStaleness == Spec => StatusShows
<1>1. IInv /\ [Next]_vars =>
        [\A r \in Request, v \in Version : Serves(r, v) => offFor < Ttl + ReadTicks]_vars
  <2> SUFFICES ASSUME IInv, [Next]_vars, NEW r \in Request, NEW v \in Version, Serves(r, v)
               PROVE  offFor < Ttl + ReadTicks
    OBVIOUS
  <2> QED BY ServingStep, VersionAssumption, TimeAssumption
          DEF IInv, TypeOK, Fresh, ReadsAreRecent, EntryIsRecent
<1> QED BY <1>1, SpecIInv, PTL DEF Spec, StatusShows

\* A spec that was replaced or removed is not served for longer than that.
THEOREM SpecStaleness == Spec => SpecShows
<1>1. IInv /\ [Next]_vars =>
        [\A r \in Request, v \in Version : Serves(r, v) => lostFor[v] < Ttl + ReadTicks]_vars
  <2> SUFFICES ASSUME IInv, [Next]_vars, NEW r \in Request, NEW v \in Version, Serves(r, v)
               PROVE  lostFor[v] < Ttl + ReadTicks
    OBVIOUS
  <2> QED BY ServingStep, VersionAssumption, TimeAssumption
          DEF IInv, TypeOK, Fresh, ReadsAreRecent, EntryIsRecent
<1> QED BY <1>1, SpecIInv, PTL DEF Spec, SpecShows
=============================================================================
