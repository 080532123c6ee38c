-------------------------- MODULE ToolCallsProofs --------------------------
(***************************************************************************)
(* Proofs about ToolCalls for any number of callers, slots and failures:   *)
(* type correctness, that the limiter counts what runs, bounds it and      *)
(* queues nobody while a slot is free, and that the breaker's count and    *)
(* its openUntil agree.                                                    *)
(*                                                                         *)
(* The limiter's invariants need one another: that the counter is the      *)
(* number of running calls needs the head of the queue to be a call that   *)
(* is not running, and that the queue is empty while a slot is free needs  *)
(* the hand-over to keep the counter at its limit.                         *)
(***************************************************************************)
EXTENDS ToolCalls, FiniteSetTheorems, TLAPS

IInv ==
    /\ TypeOK
    /\ SlotsCounted
    /\ BoundedConcurrency
    /\ WaitersMatch
    /\ BreakerConsistent

\* The calls that run are finitely many, so that counting them means something.
LEMMA RunningFinite ==
  ASSUME NEW S \in SUBSET Call
  PROVE  IsFiniteSet(S) /\ Cardinality(S) \in Nat
BY CallAssumption, FS_Subset, FS_CardinalityType

\* One more call runs.
LEMMA OneMore ==
  ASSUME NEW S \in SUBSET Call, NEW c \in Call, c \notin S
  PROVE  Cardinality(S \cup {c}) = Cardinality(S) + 1
<1>1. IsFiniteSet(S)
  BY RunningFinite
<1> QED BY <1>1, FS_AddElement

\* One call less runs.
LEMMA OneLess ==
  ASSUME NEW S \in SUBSET Call, NEW c \in S
  PROVE  Cardinality(S) - 1 \in Nat /\ Cardinality(S \ {c}) = Cardinality(S) - 1
<1>1. IsFiniteSet(S) /\ S \ {c} \in SUBSET Call /\ Cardinality(S) \in Nat
  BY RunningFinite
<1>2. Cardinality(S \ {c}) = Cardinality(S) - 1
  BY <1>1, FS_RemoveElement
<1>3. Cardinality(S \ {c}) \in Nat
  BY <1>1, RunningFinite
<1> QED BY <1>1, <1>2, <1>3

\* Initially nothing runs and nobody waits.
LEMMA InitIInv == Init => IInv
<1> SUFFICES ASSUME Init PROVE IInv
  OBVIOUS
<1>1. Running = {}
  BY DEF Init, Running, AtUpstream
<1>2. Cardinality(Running) = 0
  BY <1>1, FS_EmptySet
<1>3. TypeOK /\ BreakerConsistent
  BY LimitAssumption DEF Init, TypeOK, BreakerConsistent
<1>4. WaitersMatch
  BY DEF Init, WaitersMatch
<1> QED BY <1>2, <1>3, <1>4, LimitAssumption
        DEF Init, IInv, SlotsCounted, BoundedConcurrency

\* The breaker: every operation on it keeps its two columns in agreement.
LEMMA BreakerStep ==
  ASSUME failures \in 0..FailureThreshold, breaker \in {"closed", "open", "elapsed"},
         BreakerConsistent,
         \/ ResetIfElapsed
         \/ RecordSuccess
         \/ RecordFailure
  PROVE  /\ failures' \in 0..FailureThreshold
         /\ breaker' \in {"closed", "open", "elapsed"}
         /\ BreakerConsistent'
BY LimitAssumption DEF ResetIfElapsed, RecordSuccess, RecordFailure, Close, BreakerConsistent

\* What the limiter keeps, apart from the types of its variables.
Limiter == SlotsCounted /\ BoundedConcurrency /\ WaitersMatch

LimiterTypes ==
    /\ pc      \in [Call -> {"idle", "waiting", "running", "deaf"}]
    /\ active  \in Nat
    /\ waiters \in Seq(Call)

\* The limiter: an idle call takes a free slot or joins the queue.
LEMMA AcquireStep ==
  ASSUME LimiterTypes, Limiter, NEW c \in Call, pc[c] = "idle", Acquire(c)
  PROVE  LimiterTypes' /\ Limiter'
<1> USE LimitAssumption
<1>1. CASE active < MaxConcurrent
  <2>1. Running' = Running \cup {c} /\ c \notin Running
    BY <1>1 DEF Acquire, LimiterTypes, Running, AtUpstream
  <2>2. Cardinality(Running') = Cardinality(Running) + 1
    BY <2>1, OneMore DEF Running
  <2>3. waiters = <<>>
    BY <1>1 DEF Limiter, WaitersMatch, LimiterTypes
  <2>4. LimiterTypes'
    BY <1>1 DEF Acquire, LimiterTypes
  <2>5. WaitersMatch'
    BY <1>1, <2>3 DEF Acquire, Limiter, LimiterTypes, WaitersMatch
  <2>6. SlotsCounted' /\ BoundedConcurrency'
    BY <1>1, <2>2 DEF Acquire, Limiter, LimiterTypes, SlotsCounted, BoundedConcurrency
  <2> QED BY <2>4, <2>5, <2>6 DEF Limiter
<1>2. CASE ~(active < MaxConcurrent)
  <2>1. Running' = Running
    BY <1>2 DEF Acquire, LimiterTypes, Running, AtUpstream
  <2>3. waiters' = Append(waiters, c) /\ pc' = [pc EXCEPT ![c] = "waiting"] /\ active' = active
    BY <1>2 DEF Acquire
  <2>2. LimiterTypes'
    BY <2>3 DEF LimiterTypes
  <2>4. Len(waiters') = Len(waiters) + 1
        /\ DOMAIN waiters' = DOMAIN waiters \cup {Len(waiters) + 1}
        /\ waiters'[Len(waiters) + 1] = c
        /\ \A i \in DOMAIN waiters : waiters'[i] = waiters[i] /\ i # Len(waiters) + 1
    BY <2>3 DEF LimiterTypes
  <2>5. \A i \in DOMAIN waiters : waiters[i] # c
    BY DEF Limiter, WaitersMatch
  <2>6. \A d \in Call : pc'[d] = "waiting" <=> \E i \in DOMAIN waiters' : waiters'[i] = d
    BY <2>3, <2>4 DEF Limiter, LimiterTypes, WaitersMatch
  <2>7. \A i, j \in DOMAIN waiters' : waiters'[i] = waiters'[j] => i = j
    BY <2>4, <2>5 DEF Limiter, WaitersMatch
  <2>8. active' = MaxConcurrent
    BY <1>2 DEF Acquire, Limiter, LimiterTypes, SlotsCounted, BoundedConcurrency
  <2>9. SlotsCounted' /\ BoundedConcurrency'
    BY <1>2, <2>1 DEF Acquire, Limiter, SlotsCounted, BoundedConcurrency
  <2> QED BY <2>2, <2>6, <2>7, <2>8, <2>9 DEF Limiter, WaitersMatch
<1> QED BY <1>1, <1>2

\* The limiter: a running call ends, and its slot is freed or passed on.
LEMMA ReleaseStep ==
  ASSUME LimiterTypes, Limiter, NEW c \in Call, pc[c] \in AtUpstream, Release(c)
  PROVE  LimiterTypes' /\ Limiter'
<1> USE LimitAssumption
<1>1. c \in Running /\ Running \in SUBSET Call /\ active = Cardinality(Running)
  BY DEF Running, AtUpstream, Limiter, SlotsCounted
<1>2. Cardinality(Running \ {c}) = active - 1 /\ active - 1 \in Nat
  BY <1>1, OneLess
<1>3. Freed = active - 1
  BY <1>2 DEF Freed, LimiterTypes
<1>4. CASE waiters = <<>>
  <2>1. Running' = Running \ {c}
    BY <1>4 DEF Release, LimiterTypes, Running, AtUpstream
  <2>2. LimiterTypes'
    BY <1>2, <1>3, <1>4 DEF Release, LimiterTypes
  <2>3. SlotsCounted' /\ BoundedConcurrency'
    BY <1>1, <1>2, <1>3, <1>4, <2>1
    DEF Release, Limiter, LimiterTypes, SlotsCounted, BoundedConcurrency
  <2>4. WaitersMatch'
    BY <1>4 DEF Release, Limiter, LimiterTypes, WaitersMatch
  <2> QED BY <2>2, <2>3, <2>4 DEF Limiter
<1>5. CASE waiters # <<>>
  <2>1. PICK h \in Call : h = Head(waiters) /\ h = waiters[1] /\ 1 \in DOMAIN waiters
    BY <1>5 DEF LimiterTypes
  <2>2. pc[h] = "waiting" /\ h # c
    BY <2>1 DEF Limiter, WaitersMatch, AtUpstream
  <2>3. /\ pc' = [pc EXCEPT ![c] = "idle", ![h] = "running"]
        /\ active' = active
        /\ waiters' = Tail(waiters)
    BY <1>2, <1>3, <1>5, <2>1 DEF Release, LimiterTypes
  <2>4. Running' = (Running \ {c}) \cup {h} /\ h \notin Running \ {c}
    BY <2>2, <2>3 DEF LimiterTypes, Running, AtUpstream
  <2>5. Cardinality(Running') = active
    <3>1. Cardinality((Running \ {c}) \cup {h}) = Cardinality(Running \ {c}) + 1
      BY <1>1, <2>4, OneMore
    <3>2. active \in Nat
      BY DEF LimiterTypes
    <3> QED BY <1>2, <2>4, <3>1, <3>2
  <2>6. LimiterTypes'
    BY <1>5, <2>3 DEF LimiterTypes
  <2>7. SlotsCounted' /\ BoundedConcurrency'
    BY <1>1, <2>3, <2>5 DEF Limiter, SlotsCounted, BoundedConcurrency
  <2>8. /\ \A i \in DOMAIN waiters' : i + 1 \in DOMAIN waiters /\ waiters'[i] = waiters[i + 1]
        /\ \A i \in DOMAIN waiters \ {1} :
               i - 1 \in DOMAIN waiters' /\ waiters'[i - 1] = waiters[i]
        /\ DOMAIN waiters' \subseteq Nat
    BY <1>5, <2>3 DEF LimiterTypes
  <2>9. ASSUME NEW i \in DOMAIN waiters'
        PROVE  waiters'[i] # h
    <3>1. i \in Nat /\ i + 1 \in DOMAIN waiters /\ waiters'[i] = waiters[i + 1]
      BY <2>8
    <3>2. i + 1 # 1
      BY <2>3, <3>1, <1>5 DEF LimiterTypes
    <3> QED BY <2>1, <3>1, <3>2 DEF Limiter, WaitersMatch
  <2>10. ASSUME NEW d \in Call
         PROVE  pc'[d] = "waiting" <=> \E i \in DOMAIN waiters' : waiters'[i] = d
    <3>1. CASE d \in {c, h}
      <4>1. pc'[d] # "waiting"
        BY <2>2, <2>3, <3>1 DEF LimiterTypes
      <4>2. \A i \in DOMAIN waiters : waiters[i] # c
        BY DEF Limiter, WaitersMatch, AtUpstream
      <4> QED BY <2>8, <2>9, <3>1, <4>1, <4>2
    <3>2. CASE d \notin {c, h}
      <4>1. pc'[d] = pc[d]
        BY <2>3, <3>2 DEF LimiterTypes
      <4>2. (\E i \in DOMAIN waiters : waiters[i] = d)
              <=> \E i \in DOMAIN waiters' : waiters'[i] = d
        BY <2>1, <2>8, <3>2
      <4> QED BY <4>1, <4>2 DEF Limiter, WaitersMatch
    <3> QED BY <3>1, <3>2
  <2>11. \A i, j \in DOMAIN waiters' : waiters'[i] = waiters'[j] => i = j
    BY <2>8 DEF Limiter, WaitersMatch
  <2>12. active' = MaxConcurrent
    BY <1>5, <2>3 DEF Limiter, WaitersMatch
  <2> QED BY <2>6, <2>7, <2>10, <2>11, <2>12 DEF Limiter, WaitersMatch
<1> QED BY <1>4, <1>5

\* Every step keeps the invariant.
LEMMA NextIInv == IInv /\ [Next]_vars => IInv'
<1> SUFFICES ASSUME IInv, [Next]_vars PROVE IInv'
  OBVIOUS
<1>1. LimiterTypes /\ Limiter /\ cached \in SUBSET Key
      /\ failures \in 0..FailureThreshold /\ breaker \in {"closed", "open", "elapsed"}
      /\ BreakerConsistent
  BY DEF IInv, TypeOK, LimiterTypes, Limiter
<1>2. SUFFICES /\ LimiterTypes' /\ Limiter' /\ cached' \in SUBSET Key
               /\ failures' \in 0..FailureThreshold
               /\ breaker' \in {"closed", "open", "elapsed"}
               /\ BreakerConsistent'
  BY DEF IInv, TypeOK, LimiterTypes, Limiter
<1>3. ASSUME UNCHANGED <<pc, active, waiters>>
      PROVE  LimiterTypes' /\ Limiter'
  <2>1. Running' = Running
    BY <1>3 DEF Running
  <2> QED BY <1>1, <1>3, <2>1 DEF LimiterTypes, Limiter, SlotsCounted,
                                 BoundedConcurrency, WaitersMatch
<1>4. ASSUME NEW c \in Call, Hit(c) PROVE <1>2!1
  BY <1>1, <1>3, <1>4, BreakerStep DEF Hit
<1>5. ASSUME NEW c \in Call, Ask(c) PROVE <1>2!1
  BY <1>1, <1>5, BreakerStep, AcquireStep DEF Ask
<1>6. ASSUME NEW c \in Call, Succeed(c) PROVE <1>2!1
  <2>1. cached' \in SUBSET Key
    BY <1>1, <1>6, KeyAssumption DEF Succeed
  <2> QED BY <1>1, <1>6, <2>1, BreakerStep, ReleaseStep DEF Succeed
<1>7. ASSUME NEW c \in Call, FailCall(c) PROVE <1>2!1
  BY <1>1, <1>7, BreakerStep, ReleaseStep DEF FailCall
<1>8. ASSUME NEW k \in Key, EntryExpires(k) PROVE <1>2!1
  BY <1>1, <1>3, <1>8 DEF EntryExpires, BreakerConsistent
<1>9. CASE CooldownElapses
  BY <1>1, <1>3, <1>9 DEF CooldownElapses, BreakerConsistent
<1>10. CASE UNCHANGED vars
  BY <1>1, <1>3, <1>10 DEF vars, BreakerConsistent
<1>11. ASSUME NEW c \in Call, AbortUnheard(c) PROVE <1>2!1
  <2>1. Running' = Running
    BY <1>1, <1>11 DEF AbortUnheard, LimiterTypes, Running, AtUpstream
  <2>2. LimiterTypes'
    BY <1>1, <1>11 DEF AbortUnheard, LimiterTypes
  <2>3. \A d \in Call : pc'[d] = "waiting" <=> pc[d] = "waiting"
    BY <1>1, <1>11 DEF AbortUnheard, LimiterTypes
  <2>4. Limiter'
    BY <1>1, <1>11, <2>1, <2>3
       DEF AbortUnheard, Limiter, SlotsCounted, BoundedConcurrency, WaitersMatch
  <2> QED BY <1>1, <1>11, <2>2, <2>4 DEF AbortUnheard, BreakerConsistent
<1>12. ASSUME NEW c \in Call, AnswerKillsHost(c) PROVE <1>2!1
  <2>1. Running' = {}
    BY <1>12 DEF AnswerKillsHost, Running, AtUpstream
  <2>2. Cardinality(Running') = 0
    BY <2>1, FS_EmptySet
  <2>3. WaitersMatch'
    BY <1>12 DEF AnswerKillsHost, WaitersMatch
  <2> QED BY <1>12, <2>2, <2>3, LimitAssumption
          DEF AnswerKillsHost, LimiterTypes, Limiter, SlotsCounted, BoundedConcurrency,
              BreakerConsistent
<1> QED BY <1>4, <1>5, <1>6, <1>7, <1>8, <1>9, <1>10, <1>11, <1>12 DEF Next, Finish

\* The invariant holds throughout.
LEMMA SpecIInv == Spec => []IInv
BY InitIInv, NextIInv, PTL DEF Spec

\* The variables keep their types, whatever calls come, wait, fail and end.
THEOREM TypeCorrect == Spec => []TypeOK
<1>1. IInv => TypeOK
  BY DEF IInv
<1> QED BY <1>1, SpecIInv, PTL

\* The counter of the limiter is the number of calls at the upstream.
THEOREM NoSlotLeaks == Spec => []SlotsCounted
<1>1. IInv => SlotsCounted
  BY DEF IInv
<1> QED BY <1>1, SpecIInv, PTL

\* No server ever has more than maxConcurrent calls at its upstream.
THEOREM Bounded == Spec => []BoundedConcurrency
<1>1. IInv => BoundedConcurrency
  BY DEF IInv
<1> QED BY <1>1, SpecIInv, PTL

\* A call waits in the queue, once, and only while every slot is taken.
THEOREM NobodyWaitsForAFreeSlot == Spec => []WaitersMatch
<1>1. IInv => WaitersMatch
  BY DEF IInv
<1> QED BY <1>1, SpecIInv, PTL

\* The breaker is closed exactly while its count is below the threshold.
THEOREM BreakerCounts == Spec => []BreakerConsistent
<1>1. IInv => BreakerConsistent
  BY DEF IInv
<1> QED BY <1>1, SpecIInv, PTL
=============================================================================
