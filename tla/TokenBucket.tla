---------------------------- MODULE TokenBucket ----------------------------
(***************************************************************************)
(* createTokenBucketLimiter of apps/creator-mcp: a bucket per key that     *)
(* refills continuously.  A limit is [capacity, interval]: the burst, and  *)
(* the time in which an empty bucket fills up.  The code keeps fractions   *)
(* of a token; here the content is counted in parts of a token, interval   *)
(* of them to one, so that a unit of time adds capacity parts exactly.     *)
(***************************************************************************)
EXTENDS Naturals

IsLimit(l) == l.capacity \in Nat \ {0} /\ l.interval \in Nat \ {0}

Full(l) == l.capacity * l.interval

\* A key that is not in the map yet has a full bucket, whenever it comes.
NewBucket(l) == [tokens |-> Full(l), at |-> 0]

\* Mutant: the refill is not capped at the capacity.
RefilledUncapped(l, b, now) == b.tokens + (now - b.at) * l.capacity

Refilled(l, b, now) ==
    LET more == b.tokens + (now - b.at) * l.capacity
    IN  IF more > Full(l) THEN Full(l) ELSE more

HasToken(l, b, now) == Refilled(l, b, now) >= l.interval

\* tryConsume stores the refilled content, less one token if there is one.
Consume(l, b, now) ==
    [tokens |-> IF HasToken(l, b, now) THEN Refilled(l, b, now) - l.interval
                                       ELSE Refilled(l, b, now),
     at |-> now]
=============================================================================
