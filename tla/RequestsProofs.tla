--------------------------- MODULE RequestsProofs ---------------------------
(***************************************************************************)
(* Proofs about Requests, for any number of slots, addresses, tokens and   *)
(* requests, any limits and any length of time.                            *)
(***************************************************************************)
EXTENDS Requests, FiniteSetTheorems, TLAPS

-----------------------------------------------------------------------------
(* Buckets *)

Bucket == [tokens : Nat, at : Nat]

\* A refill adds at most what the time since the last one is worth, and never
\* fills a bucket beyond its capacity.
LEMMA RefillBounds ==
    ASSUME NEW l, IsLimit(l), NEW b \in Bucket, NEW t \in Nat, b.at <= t,
           b.tokens <= Full(l)
    PROVE  /\ Full(l) \in Nat
           /\ Refilled(l, b, t) \in 0..Full(l)
           /\ Refilled(l, b, t) <= b.tokens + (t - b.at) * l.capacity
           /\ (t - b.at) * l.capacity \in Nat
<1>1. l.capacity \in Nat /\ l.interval \in Nat /\ b.tokens \in Nat /\ b.at \in Nat
  BY DEF IsLimit, Bucket
<1>2. t - b.at \in Nat
  BY <1>1
<1>3. (t - b.at) * l.capacity \in Nat /\ Full(l) \in Nat
  BY <1>1, <1>2 DEF Full
<1> QED BY <1>1, <1>3 DEF Refilled

\* Asking a bucket leaves one, as of now, which holds a token less if it had one.
LEMMA ConsumeBounds ==
    ASSUME NEW l, IsLimit(l), NEW b \in Bucket, NEW t \in Nat, b.at <= t,
           b.tokens <= Full(l)
    PROVE  LET c == Consume(l, b, t)
           IN  /\ c \in Bucket
               /\ c.at = t
               /\ c.tokens <= Full(l)
               /\ HasToken(l, b, t) =>
                      /\ c.tokens + l.interval <= Full(l)
                      /\ c.tokens + l.interval <= b.tokens + (t - b.at) * l.capacity
               /\ c.tokens <= b.tokens + (t - b.at) * l.capacity
<1>1. /\ Refilled(l, b, t) \in Nat /\ Refilled(l, b, t) <= Full(l) /\ Full(l) \in Nat
      /\ Refilled(l, b, t) <= b.tokens + (t - b.at) * l.capacity
      /\ (t - b.at) * l.capacity \in Nat /\ l.interval \in Nat /\ b.tokens \in Nat
  BY RefillBounds DEF IsLimit, Bucket
<1> DEFINE more == (t - b.at) * l.capacity
<1>2. more \in Nat
  BY <1>1
<1> HIDE DEF more
<1>3. CASE HasToken(l, b, t)
  <2>1. Refilled(l, b, t) - l.interval \in Nat
    BY <1>1, <1>3 DEF HasToken
  <2> QED BY <1>1, <1>2, <1>3, <2>1 DEF Consume, Bucket, more
<1>4. CASE ~HasToken(l, b, t)
  BY <1>1, <1>2, <1>4 DEF Consume, Bucket, more
<1> QED BY <1>3, <1>4

-----------------------------------------------------------------------------
(* The inductive invariant *)

BucketsArePast == \A k \in Kind, c \in Key : bucket[k][c].at <= now

\* What bucket b still holds is what the admissions T since any of them have
\* left of the budget.
Within(l, b, T) ==
    \A i \in DOMAIN T :
        /\ T[i] <= b.at
        /\ (Len(T) - i + 1) * l.interval + b.tokens
               <= l.capacity * (l.interval + b.at - T[i])

BudgetLeft ==
    \A k \in Kind, c \in Key : Within(Limit[k], bucket[k][c], admitted[k][c])

\* What a request still knows of where it came from, and who it is for.
FromClient(q) ==
    /\ q.isNew <=> q.header = NoToken
    /\ q.header # NoToken => q.token = q.header

HasAccount(q, table) ==
    /\ q.user \in DOMAIN table
    /\ table[q.user] = q.token

KnowsUser(q, table) ==
    /\ q.at # "idle" => q.ip \in Ip /\ q.token \in Token
    /\ q.at \in {"find", "insert", "limit", "findOwner", "insertOwner"} => FromClient(q)
    /\ q.at \in {"limit", "findOwner", "insertOwner", "act"} => HasAccount(q, table)
    /\ q.at \in {"findOwner", "insertOwner"} => q.arg # NoToken
    /\ q.at = "act" => IF q.arg # NoToken THEN q.token = q.arg /\ ~q.isNew
                                          ELSE FromClient(q)

RequestsKnowUsers == \A r \in Slot : KnowsUser(req[r], users)

\* The account of a create job is that of the token its client knows.
RightAccount ==
    \A i \in DOMAIN jobs : LET j == jobs[i] IN j.type = "create" =>
        /\ j.user \in DOMAIN users
        /\ users[j.user] = Given(j)
        /\ j.notice \in {NoToken, users[j.user]}

\* One token never gets two users.
OneUserPerToken == \A u, v \in DOMAIN users : users[u] = users[v] => u = v

IInv ==
    /\ TypeOK
    /\ BucketsArePast
    /\ BudgetLeft
    /\ WithinBudget
    /\ OneUserPerToken
    /\ RequestsKnowUsers
    /\ RightAccount

\* A row for each token at most: the ids fit.
LEMMA UsersFit ==
    ASSUME NEW s \in Seq(Token), \A u, v \in DOMAIN s : s[u] = s[v] => u = v
    PROVE  DOMAIN s \subseteq Users /\ Len(s) \in Nat
<1>1. s \in Injection(1..Len(s), Token)
  BY DEF Injection, IsInjective
<1>2. IsFiniteSet(Token)
  BY TokenAssumption
<1>3. Cardinality(1..Len(s)) <= Cardinality(Token)
  BY <1>1, <1>2, FS_Injection
<1>4. Cardinality(1..Len(s)) = Len(s)
  <2>1. Len(s) \in Nat /\ 1 \in Int /\ Len(s) \in Int
    OBVIOUS
  <2>2. Cardinality(1..Len(s)) = IF 1 > Len(s) THEN 0 ELSE Len(s) - 1 + 1
    BY <2>1, FS_Interval
  <2> QED BY <2>1, <2>2
<1> QED BY <1>2, <1>3, <1>4, FS_CardinalityType DEF Users

RequestRecords == [at : At, ip : Ip \cup {NoToken}, header : Token \cup {NoToken},
                   tool : Tools, arg : Token \cup {NoToken},
                   user : Users \cup {0}, token : Token \cup {NoToken},
                   isNew : BOOLEAN]

LEMMA NoRequestIdle ==
    NoRequest \in RequestRecords /\ \A table : KnowsUser(NoRequest, table)
BY DEF NoRequest, RequestRecords, At, Tools, KnowsUser

LEMMA InitIInv == Init => IInv
<1> SUFFICES ASSUME Init PROVE IInv
  OBVIOUS
<1>1. TypeOK
  <2>1. \A k \in Kind : NewBucket(Limit[k]) \in [tokens : Nat, at : 0..Horizon]
                        /\ NewBucket(Limit[k]).tokens <= Full(Limit[k])
    BY LimitAssumption, BoundAssumption DEF NewBucket, Full, IsLimit
  <2>2. bucket \in [Kind -> [Key -> [tokens : Nat, at : 0..Horizon]]]
        /\ \A k \in Kind : \A c \in Key : bucket[k][c].tokens <= Full(Limit[k])
    BY <2>1 DEF Init
  <2>3. req \in [Slot -> RequestRecords]
    BY NoRequestIdle DEF Init
  <2>4. known \in SUBSET Token /\ now \in 0..Horizon /\ count \in 0..MaxRequests
    BY BoundAssumption DEF Init, Token
  <2>5. admitted \in [Kind -> [Key -> Seq(0..Horizon)]] /\ users \in Seq(Token)
    BY DEF Init
  <2>6. jobs = <<>>
    BY DEF Init
  <2> HIDE DEF Init
  <2> QED BY <2>2, <2>3, <2>4, <2>5, <2>6 DEF TypeOK, RequestRecords
<1>2. BucketsArePast
  BY DEF Init, BucketsArePast, NewBucket
<1>3. BudgetLeft /\ WithinBudget
  BY DEF Init, BudgetLeft, Within, WithinBudget
<1>4. OneUserPerToken /\ RightAccount
  BY DEF Init, OneUserPerToken, RightAccount
<1>5. RequestsKnowUsers
  BY NoRequestIdle DEF Init, RequestsKnowUsers
<1> QED BY <1>1, <1>2, <1>3, <1>4, <1>5 DEF IInv

-----------------------------------------------------------------------------
(* Limits *)

Buckets == /\ bucket \in [Kind -> [Key -> [tokens : Nat, at : 0..Horizon]]]
           /\ \A k \in Kind : \A c \in Key : bucket[k][c].tokens <= Full(Limit[k])
           /\ admitted \in [Kind -> [Key -> Seq(0..Horizon)]]
           /\ BucketsArePast
           /\ BudgetLeft
           /\ WithinBudget

LEMMA OneMore == ASSUME NEW n \in Nat, NEW m \in Nat
                 PROVE  (n + 1) * m = n * m + m
OBVIOUS

\* Time adds to a budget what it adds to its bucket.
LEMMA Accrual ==
    ASSUME NEW n \in Nat, NEW interval \in Nat, NEW capacity \in Nat,
           NEW tokens \in Nat, NEW left \in Nat, NEW spent \in Nat,
           NEW from \in Nat, NEW at \in Nat, NEW t \in Nat, at <= t,
           n * interval + tokens <= capacity * (interval + at - from),
           left + spent <= tokens + (t - at) * capacity
    PROVE  n * interval + spent + left <= capacity * (interval + t - from)
<1> DEFINE d == interval + at - from
           e == t - at
<1>1. d \in Int /\ e \in Nat /\ interval + t - from = d + e
  OBVIOUS
<1>2. n * interval + tokens <= capacity * d /\ left + spent <= tokens + e * capacity
  OBVIOUS
<1> HIDE DEF d, e
<1>3. capacity * (d + e) = capacity * d + e * capacity
  BY <1>1
<1>4. n * interval \in Int /\ capacity * d \in Int /\ e * capacity \in Int
  BY <1>1
<1> DEFINE x == n * interval
           y == capacity * d
           z == e * capacity
<1>5. x \in Int /\ y \in Int /\ z \in Int /\ x + tokens <= y /\ left + spent <= tokens + z
  BY <1>2, <1>4
<1> HIDE DEF x, y, z
<1>6. x + spent + left <= y + z
  BY <1>5
<1> QED BY <1>1, <1>3, <1>6 DEF x, y, z

LEMMA WithinType ==
    ASSUME NEW T \in Seq(Nat), NEW i \in DOMAIN T
    PROVE  Len(T) - i + 1 \in Nat /\ T[i] \in Nat
OBVIOUS

\* It does so after a refusal ...
LEMMA RefusalStep ==
    ASSUME NEW l, IsLimit(l), NEW b \in Bucket, NEW t \in Nat, b.at <= t,
           b.tokens <= Full(l), NEW T \in Seq(Nat), Within(l, b, T)
    PROVE  Within(l, Consume(l, b, t), T)
<1> DEFINE c == Consume(l, b, t)
<1>1. /\ c.at = t /\ c.tokens \in Nat
      /\ c.tokens <= b.tokens + (t - b.at) * l.capacity
  BY ConsumeBounds DEF Bucket
<1>2. l.interval \in Nat /\ l.capacity \in Nat /\ b.at \in Nat /\ b.tokens \in Nat
  BY DEF IsLimit, Bucket
<1>3. (t - b.at) * l.capacity \in Nat
  BY RefillBounds
<1>4. c.tokens + 0 <= b.tokens + (t - b.at) * l.capacity
  BY <1>1
<1> HIDE DEF c
<1>5. ASSUME NEW i \in DOMAIN T
      PROVE  /\ T[i] <= c.at
             /\ (Len(T) - i + 1) * l.interval + c.tokens
                    <= l.capacity * (l.interval + c.at - T[i])
  <2> DEFINE n == Len(T) - i + 1
  <2>1. n \in Nat /\ T[i] \in Nat
    BY WithinType
  <2>2. n * l.interval + b.tokens <= l.capacity * (l.interval + b.at - T[i])
        /\ T[i] <= b.at
    BY DEF Within
  <2> HIDE DEF n
  <2>3. n * l.interval + 0 + c.tokens <= l.capacity * (l.interval + t - T[i])
    BY <1>1, <1>2, <1>4, <2>1, <2>2, Accrual
  <2>4. T[i] <= t
    BY <1>2, <2>1, <2>2
  <2>5. n * l.interval \in Nat
    BY <1>2, <2>1
  <2>6. n * l.interval + 0 + c.tokens = n * l.interval + c.tokens
    BY <1>1, <2>5
  <2> QED BY <1>1, <2>3, <2>4, <2>6 DEF n
<1> QED BY <1>5 DEF Within, c

\* ... and after an admission, which costs a token.
LEMMA AdmissionStep ==
    ASSUME NEW l, IsLimit(l), NEW b \in Bucket, NEW t \in Nat, b.at <= t,
           b.tokens <= Full(l), NEW T \in Seq(Nat), Within(l, b, T), HasToken(l, b, t)
    PROVE  Within(l, Consume(l, b, t), Append(T, t))
<1> DEFINE c == Consume(l, b, t)
           U == Append(T, t)
<1>1. /\ c.at = t /\ c.tokens \in Nat /\ c.tokens + l.interval <= Full(l)
      /\ c.tokens + l.interval <= b.tokens + (t - b.at) * l.capacity
  BY ConsumeBounds DEF Bucket
<1>2. l.interval \in Nat /\ l.capacity \in Nat /\ b.at \in Nat /\ b.tokens \in Nat
  BY DEF IsLimit, Bucket
<1>3. /\ Len(U) = Len(T) + 1 /\ Len(T) \in Nat /\ U[Len(T) + 1] = t
      /\ \A i \in DOMAIN T : U[i] = T[i]
      /\ DOMAIN U = DOMAIN T \cup {Len(T) + 1}
  OBVIOUS
<1> HIDE DEF c, U
<1>4. ASSUME NEW i \in DOMAIN T
      PROVE  /\ U[i] <= c.at
             /\ (Len(U) - i + 1) * l.interval + c.tokens
                    <= l.capacity * (l.interval + c.at - U[i])
  <2> DEFINE n == Len(T) - i + 1
  <2>1. n \in Nat /\ T[i] \in Nat /\ U[i] = T[i]
    BY <1>3, WithinType
  <2>2. n * l.interval + b.tokens <= l.capacity * (l.interval + b.at - T[i])
        /\ T[i] <= b.at
    BY DEF Within
  <2>3. Len(U) - i + 1 = n + 1
    BY <1>3
  <2> HIDE DEF n
  <2>4. n * l.interval + l.interval + c.tokens <= l.capacity * (l.interval + t - T[i])
    BY <1>1, <1>2, <2>1, <2>2, Accrual
  <2>5. T[i] <= t
    BY <1>2, <2>1, <2>2
  <2>6. (n + 1) * l.interval = n * l.interval + l.interval
    BY <1>2, <2>1, OneMore
  <2> QED BY <1>1, <2>1, <2>3, <2>4, <2>5, <2>6
<1>5. /\ U[Len(T) + 1] <= c.at
      /\ (Len(U) - (Len(T) + 1) + 1) * l.interval + c.tokens
             <= l.capacity * (l.interval + c.at - U[Len(T) + 1])
  <2>1. Len(U) - (Len(T) + 1) + 1 = 1
    BY <1>3
  <2>2. l.interval + c.at - U[Len(T) + 1] = l.interval
    BY <1>1, <1>2, <1>3
  <2>3. 1 * l.interval + c.tokens = c.tokens + l.interval
    BY <1>1, <1>2
  <2> QED BY <1>1, <1>2, <1>3, <2>1, <2>2, <2>3 DEF Full
<1> QED BY <1>3, <1>4, <1>5 DEF Within, c, U

\* In an admissible list of times every stretch is.
WithinStretches(l, T) ==
    \A i, j \in DOMAIN T : i <= j =>
        (j - i + 1) * l.interval <= l.capacity * (l.interval + T[j] - T[i])

LEMMA StretchStep ==
    ASSUME NEW l, IsLimit(l), NEW b \in Bucket, NEW T \in Seq(Nat),
           WithinStretches(l, T), Within(l, b, Append(T, b.at))
    PROVE  WithinStretches(l, Append(T, b.at))
<1> DEFINE U == Append(T, b.at)
<1>1. /\ Len(U) = Len(T) + 1 /\ Len(T) \in Nat /\ U[Len(T) + 1] = b.at
      /\ \A i \in DOMAIN T : U[i] = T[i] /\ i \in 1..Len(T)
      /\ DOMAIN U = DOMAIN T \cup {Len(T) + 1}
      /\ U \in Seq(Nat)
  BY DEF Bucket
<1> HIDE DEF U
<1>2. SUFFICES ASSUME NEW i \in DOMAIN U, NEW j \in DOMAIN U, i <= j
               PROVE  (j - i + 1) * l.interval <= l.capacity * (l.interval + U[j] - U[i])
  BY DEF WithinStretches, U
<1>3. CASE j \in DOMAIN T
  <2>1. i \in DOMAIN T
    BY <1>1, <1>2, <1>3
  <2> QED BY <1>1, <1>2, <1>3, <2>1 DEF WithinStretches
<1>4. CASE j = Len(T) + 1
  <2> DEFINE x == (j - i + 1) * l.interval
             y == l.capacity * (l.interval + U[j] - U[i])
  <2>1. x + b.tokens <= y
    BY <1>1, <1>4 DEF Within, U
  <2>2. j - i + 1 \in Nat /\ U[j] \in Nat /\ U[i] \in Nat
    BY <1>1, <1>2, <1>4
  <2>3. l.interval \in Nat /\ l.capacity \in Nat /\ b.tokens \in Nat
    BY DEF IsLimit, Bucket
  <2>4. x \in Int
    BY <2>2, <2>3
  <2>5. l.interval + U[j] - U[i] \in Int
    BY <2>2, <2>3
  <2>6. y \in Int
    BY <2>3, <2>5
  <2> HIDE DEF x, y
  <2>7. x <= y
    BY <2>1, <2>3, <2>4, <2>6
  <2> QED BY <2>7 DEF x, y
<1> QED BY <1>1, <1>2, <1>3, <1>4

\* A limiter that is asked by a client under its own key keeps all budgets.
LEMMA TryConsumeInv ==
    ASSUME Buckets, now \in 0..Horizon, now' = now,
           NEW k \in Kind, NEW c \in Key, TryConsume(k, c, c)
    PROVE  Buckets'
<1> DEFINE l == Limit[k]
           b == bucket[k][c]
           T == admitted[k][c]
           b2 == Consume(l, b, now)
           T2 == IF Allowed(k, c) THEN Append(T, now) ELSE T
<1>1. IsLimit(l) /\ b \in Bucket /\ now \in Nat /\ b.at <= now /\ b.tokens <= Full(l)
      /\ T \in Seq(Nat) /\ T \in Seq(0..Horizon) /\ Within(l, b, T)
  BY LimitAssumption, BoundAssumption DEF Buckets, Bucket, BucketsArePast, BudgetLeft
<1>2. /\ bucket' = [bucket EXCEPT ![k][c] = b2]
      /\ admitted' = [admitted EXCEPT ![k][c] = T2]
  BY DEF TryConsume, Buckets
<1>3. b2 \in Bucket /\ b2.at = now /\ b2.tokens <= Full(l)
  BY <1>1, ConsumeBounds
<1>4. T2 \in Seq(0..Horizon) /\ T2 \in Seq(Nat)
  <2>1. ASSUME NEW S, NEW s \in Seq(S), NEW e \in S
        PROVE  Append(s, e) \in Seq(S)
    OBVIOUS
  <2>2. Append(T, now) \in Seq(0..Horizon) /\ Append(T, now) \in Seq(Nat)
    BY <1>1, <2>1
  <2> QED BY <1>1, <2>2
<1>5. Within(l, b2, T2)
  <2>1. CASE Allowed(k, c)
    BY <1>1, <2>1, AdmissionStep DEF Allowed
  <2>2. CASE ~Allowed(k, c)
    BY <1>1, <2>2, RefusalStep
  <2> QED BY <2>1, <2>2
<1>6. WithinStretches(l, T2)
  <2>1. WithinStretches(l, T)
    BY DEF Buckets, WithinBudget, WithinStretches
  <2>2. CASE Allowed(k, c)
    <3>1. T2 = Append(T, b2.at) /\ Within(l, b2, Append(T, b2.at))
      BY <1>3, <1>5, <2>2
    <3> HIDE DEF b2, T
    <3> QED BY <1>1, <1>3, <2>1, <3>1, StretchStep
  <2> QED BY <2>1, <2>2
<1> HIDE DEF l, b, T, b2, T2
<1>7. /\ bucket'[k][c] = b2 /\ admitted'[k][c] = T2
      /\ \A m \in Kind, d \in Key : ~(m = k /\ d = c) =>
             bucket'[m][d] = bucket[m][d] /\ admitted'[m][d] = admitted[m][d]
  BY <1>2 DEF Buckets
<1>8. /\ bucket' \in [Kind -> [Key -> [tokens : Nat, at : 0..Horizon]]]
      /\ admitted' \in [Kind -> [Key -> Seq(0..Horizon)]]
  <2>1. b2 \in [tokens : Nat, at : 0..Horizon]
    BY <1>3 DEF Bucket
  <2> QED BY <1>2, <1>4, <2>1 DEF Buckets
<1>9. \A m \in Kind : \A d \in Key : bucket'[m][d].tokens <= Full(Limit[m])
  BY <1>3, <1>7 DEF Buckets, l
<1>10. BucketsArePast'
  <2> SUFFICES ASSUME NEW m \in Kind, NEW d \in Key
               PROVE  bucket'[m][d].at <= now
    BY DEF BucketsArePast
  <2>1. CASE m = k /\ d = c
    BY <1>1, <1>3, <1>7, <2>1
  <2>2. CASE ~(m = k /\ d = c)
    BY <1>7, <2>2 DEF Buckets, BucketsArePast
  <2> QED BY <2>1, <2>2
<1>11. BudgetLeft'
  BY <1>5, <1>7 DEF Buckets, BudgetLeft, l
<1>12. WithinBudget'
  <2> SUFFICES ASSUME NEW m \in Kind, NEW d \in Key
               PROVE  WithinStretches(Limit[m], admitted'[m][d])
    BY DEF WithinBudget, WithinStretches
  <2>1. CASE m = k /\ d = c
    BY <1>6, <1>7, <2>1 DEF l
  <2>2. CASE ~(m = k /\ d = c)
    BY <1>7, <2>2 DEF Buckets, WithinBudget, WithinStretches
  <2> QED BY <2>1, <2>2
<1> QED BY <1>8, <1>9, <1>10, <1>11, <1>12 DEF Buckets

LEMMA IInvBuckets == IInv => Buckets /\ now \in 0..Horizon
BY DEF IInv, TypeOK, Buckets

-----------------------------------------------------------------------------
(* The users table *)

\* Rows are only added.
Grows == /\ users' \in Seq(Token)
         /\ DOMAIN users \subseteq DOMAIN users'
         /\ \A u \in DOMAIN users : users'[u] = users[u]

LEMMA SameUsersGrow == TypeOK /\ UNCHANGED users => Grows
BY DEF TypeOK, Grows

\* What is known of a request and of the jobs outlasts new rows.
LEMMA GrowthKeepsRequests ==
    ASSUME Grows, NEW q, KnowsUser(q, users)
    PROVE  KnowsUser(q, users')
BY DEF Grows, KnowsUser, HasAccount, FromClient

LEMMA GrowthKeepsJobs ==
    ASSUME Grows, RightAccount, UNCHANGED jobs
    PROVE  RightAccount'
BY DEF Grows, RightAccount

LookupResult(r, t, at, found) ==
    \/ req' = [req EXCEPT ![r].at = at]
    \/ req' = [req EXCEPT ![r] = NoRequest]
    \/ \E u \in DOMAIN users' : /\ users'[u] = t
                                /\ req' = [req EXCEPT ![r] = [found EXCEPT !.user = u]]

\* The SELECT and the INSERT of a token's user give that user, or the request
\* up, or leave it to the INSERT.
LEMMA LookupStep ==
    ASSUME TypeOK, OneUserPerToken, NEW r \in Slot, NEW t \in Token, NEW at, NEW found,
           Find(r, t, at, found) \/ Insert(r, t, found)
    PROVE  /\ Grows
           /\ OneUserPerToken'
           /\ LookupResult(r, t, at, found)
<1> USE DEF LookupResult
<1>0. users \in Seq(Token)
  BY DEF TypeOK
<1>1. CASE Find(r, t, at, found)
  <2>1. UNCHANGED users
    BY <1>1 DEF Find
  <2>2. CASE HasUser(t)
    <3>1. UserFor(t) \in DOMAIN users /\ users[UserFor(t)] = t
      BY <2>2 DEF HasUser, UserFor
    <3>2. req' = [req EXCEPT ![r] = [found EXCEPT !.user = UserFor(t)]]
      BY <1>1, <2>2 DEF Find
    <3> QED BY <2>1, <3>1, <3>2, SameUsersGrow DEF OneUserPerToken
  <2>3. CASE ~HasUser(t)
    BY <1>1, <2>1, <2>3, SameUsersGrow DEF Find, OneUserPerToken
  <2> QED BY <2>2, <2>3
<1>2. CASE Insert(r, t, found) /\ HasUser(t)
  BY <1>2, SameUsersGrow DEF Insert, OneUserPerToken
<1>3. CASE Insert(r, t, found) /\ ~HasUser(t)
  <2>1. users' = Append(users, t)
        /\ req' = [req EXCEPT ![r] = [found EXCEPT !.user = Len(users) + 1]]
    BY <1>3 DEF Insert
  <2>2. /\ DOMAIN users' = DOMAIN users \cup {Len(users) + 1}
        /\ \A u \in DOMAIN users : users'[u] = users[u] /\ u # Len(users) + 1
        /\ users'[Len(users) + 1] = t
        /\ users' \in Seq(Token)
    BY <1>0, <2>1
  <2>3. \A u \in DOMAIN users : users[u] # t
    BY <1>3 DEF HasUser
  <2>4. OneUserPerToken'
    BY <2>2, <2>3 DEF OneUserPerToken
  <2> QED BY <2>1, <2>2, <2>4 DEF Grows
<1> QED BY <1>1, <1>2, <1>3

-----------------------------------------------------------------------------
(* Steps *)

\* A request that is replaced by one that knows its user.
LEMMA RequestStep ==
    ASSUME req \in [Slot -> RequestRecords], RequestsKnowUsers, Grows, NEW r \in Slot, NEW q \in RequestRecords,
           KnowsUser(q, users'), req' = [req EXCEPT ![r] = q]
    PROVE  req' \in [Slot -> RequestRecords] /\ RequestsKnowUsers'
<1>1. req' \in [Slot -> RequestRecords]
  OBVIOUS
<1>2. ASSUME NEW v \in Slot
      PROVE  KnowsUser(req'[v], users')
  <2>1. CASE v = r
    BY <2>1
  <2>2. CASE v # r
    <3>1. req'[v] = req[v] /\ KnowsUser(req[v], users)
      BY <2>2 DEF RequestsKnowUsers
    <3> QED BY <3>1, GrowthKeepsRequests
  <2> QED BY <2>1, <2>2
<1> QED BY <1>1, <1>2 DEF RequestsKnowUsers

\* What a step of a request that adds no job has to show.
LEMMA KeepsInv ==
    ASSUME IInv, Grows, OneUserPerToken', Buckets',
           req' \in [Slot -> RequestRecords], RequestsKnowUsers',
           now' \in 0..Horizon, count' \in 0..MaxRequests,
           UNCHANGED <<jobs, known>>
    PROVE  IInv'
<1>1. TypeOK'
  BY DEF IInv, TypeOK, Grows, Buckets, RequestRecords
<1>2. RightAccount'
  BY GrowthKeepsJobs DEF IInv
<1> QED BY <1>1, <1>2 DEF IInv, Buckets

LEMMA TickInv == IInv /\ Tick => IInv'
<1> SUFFICES ASSUME IInv, Tick PROVE IInv'
  OBVIOUS
<1>1. now' = now + 1 /\ now \in 0..Horizon /\ now' \in 0..Horizon
  BY BoundAssumption DEF Tick, IInv, TypeOK
<1>2. UNCHANGED <<bucket, users, jobs, known, req, count, admitted>>
  BY DEF Tick
<1>3. Grows /\ OneUserPerToken'
  BY <1>2, SameUsersGrow DEF IInv, OneUserPerToken
<1>4. RequestsKnowUsers' /\ req' \in [Slot -> RequestRecords] /\ count' \in 0..MaxRequests
  BY <1>2, <1>3, GrowthKeepsRequests DEF IInv, RequestsKnowUsers, TypeOK, RequestRecords
<1>5. BucketsArePast'
  <2> SUFFICES ASSUME NEW k \in Kind, NEW c \in Key PROVE bucket[k][c].at <= now'
    BY <1>2 DEF BucketsArePast
  <2>1. bucket[k][c].at <= now /\ bucket[k][c].at \in Nat
    BY BoundAssumption DEF IInv, TypeOK, BucketsArePast
  <2> QED BY <1>1, <2>1
<1>6. Buckets'
  BY <1>2, <1>5, IInvBuckets DEF Buckets, BudgetLeft, WithinBudget
<1> QED BY <1>1, <1>2, <1>3, <1>4, <1>6, KeepsInv

\* The limiters stay as they are.
LEMMA SameBuckets ==
    ASSUME IInv, UNCHANGED <<now, bucket, admitted>>
    PROVE  Buckets' /\ now' \in 0..Horizon
BY IInvBuckets DEF Buckets, BucketsArePast, BudgetLeft, WithinBudget

LEMMA RequestsType == IInv => req \in [Slot -> RequestRecords] /\ RequestsKnowUsers
BY DEF IInv, TypeOK, RequestRecords

LEMMA ArriveInv == ASSUME IInv, NEW r \in Slot, Arrive(r)
                   PROVE  IInv'
<1>1. PICK ip \in Ip, tool \in Tools, header \in known \cup {NoToken} :
          \E arg \in {NoToken} \cup (IF Takes(tool) THEN known ELSE {}) :
              Receive(r, ip, header, tool, arg)
  BY DEF Arrive
<1>2. PICK arg \in Token \cup {NoToken} : Receive(r, ip, header, tool, arg)
  BY <1>1 DEF IInv, TypeOK
<1>3. header \in Token \cup {NoToken}
  BY DEF IInv, TypeOK
<1> DEFINE q == [NoRequest EXCEPT !.at = "find", !.ip = ip, !.header = header,
                                  !.tool = tool, !.arg = arg, !.token = header]
<1>4. UNCHANGED <<now, users, jobs, known>> /\ count' \in 0..MaxRequests
  <2>1. /\ UNCHANGED <<now, users, jobs, known>>
        /\ count < MaxRequests /\ count' = count + 1
    BY <1>2 DEF Receive
  <2>2. count \in 0..MaxRequests
    BY DEF IInv, TypeOK
  <2> QED BY <2>1, <2>2, BoundAssumption
<1>5. Grows /\ OneUserPerToken'
  BY <1>4, SameUsersGrow DEF IInv, OneUserPerToken
<1>6. CASE header # NoToken
  <2>1. req' = [req EXCEPT ![r] = q] /\ UNCHANGED <<bucket, admitted>>
    BY <1>2, <1>6 DEF Receive
  <2>2. q \in RequestRecords /\ KnowsUser(q, users')
    BY <1>3, <1>6 DEF NoRequest, RequestRecords, KnowsUser, FromClient, At
  <2>3. req' \in [Slot -> RequestRecords] /\ RequestsKnowUsers'
    BY <1>5, <2>1, <2>2, RequestStep, RequestsType
  <2> QED BY <1>4, <1>5, <2>1, <2>3, SameBuckets, KeepsInv
<1>7. CASE header = NoToken
  <2>1. TryConsume("issue", ip, ip)
    BY <1>2, <1>7 DEF Receive
  <2>2. Buckets'
    BY <1>4, <2>1, IInvBuckets, TryConsumeInv DEF Kind, Key
  <2>3. CASE Allowed("issue", ip)
    <3>1. PICK t \in Minted : req' = [req EXCEPT ![r] = [q EXCEPT !.token = t, !.isNew = TRUE]]
      BY <1>2, <1>7, <2>3 DEF Receive, Unused
    <3>2. [q EXCEPT !.token = t, !.isNew = TRUE] \in RequestRecords
      BY <1>3 DEF NoRequest, RequestRecords, At, Token
    <3>3. KnowsUser([q EXCEPT !.token = t, !.isNew = TRUE], users')
      BY <1>3, <1>7 DEF NoRequest, KnowsUser, FromClient, At, Token
    <3>4. req' \in [Slot -> RequestRecords] /\ RequestsKnowUsers'
      BY <1>5, <3>1, <3>2, <3>3, RequestStep, RequestsType
    <3> QED BY <1>4, <1>5, <2>2, <3>4, KeepsInv, IInvBuckets
  <2>4. CASE ~Allowed("issue", ip)
    <3>1. UNCHANGED req
      BY <1>2, <1>7, <2>4 DEF Receive
    <3>2. req' \in [Slot -> RequestRecords] /\ RequestsKnowUsers'
      BY <1>5, <3>1, GrowthKeepsRequests DEF IInv, TypeOK, RequestRecords, RequestsKnowUsers
    <3> QED BY <1>4, <1>5, <2>2, <3>2, KeepsInv, IInvBuckets
  <2> QED BY <2>3, <2>4
<1> QED BY <1>6, <1>7

\* A lookup that either gives the account to the request, or ends it, or goes on
\* to its INSERT.
LEMMA LookupInv ==
    ASSUME IInv, NEW r \in Slot, NEW t \in Token, NEW at \in At, NEW found \in RequestRecords,
           Find(r, t, at, found) \/ Insert(r, t, found), found.token = t,
           UNCHANGED <<now, bucket, jobs, known, count, admitted>>,
           \A table : KnowsUser(req[r], table) => KnowsUser([req[r] EXCEPT !.at = at], table),
           \A u, table : u \in DOMAIN table /\ table[u] = t /\ KnowsUser(req[r], table)
                            => KnowsUser([found EXCEPT !.user = u], table)
    PROVE  IInv'
<1>1. TypeOK /\ OneUserPerToken /\ req[r] \in RequestRecords /\ KnowsUser(req[r], users)
  BY RequestsType DEF IInv, RequestsKnowUsers
<1>2. Grows /\ OneUserPerToken'
  BY <1>1, LookupStep
<1>3. KnowsUser(req[r], users')
  BY <1>1, <1>2, GrowthKeepsRequests
<1>4. PICK q \in RequestRecords : KnowsUser(q, users') /\ req' = [req EXCEPT ![r] = q]
  <2>0. LookupResult(r, t, at, found)
    BY <1>1, LookupStep
  <2>1. CASE req' = [req EXCEPT ![r].at = at]
    <3>1. [req[r] EXCEPT !.at = at] \in RequestRecords
      BY <1>1 DEF RequestRecords
    <3>2. req' = [req EXCEPT ![r] = [req[r] EXCEPT !.at = at]]
      BY <2>1
    <3> QED BY <1>3, <3>1, <3>2
  <2>2. CASE req' = [req EXCEPT ![r] = NoRequest]
    BY <2>2, NoRequestIdle
  <2>3. CASE \E u \in DOMAIN users' : /\ users'[u] = t
                                      /\ req' = [req EXCEPT ![r] = [found EXCEPT !.user = u]]
    <3>1. PICK u \in DOMAIN users' : /\ users'[u] = t
                                     /\ req' = [req EXCEPT ![r] = [found EXCEPT !.user = u]]
      BY <2>3
    <3>2. u \in Users
      <4>1. users' \in Seq(Token) /\ \A v, w \in DOMAIN users' : users'[v] = users'[w] => v = w
        BY <1>2 DEF Grows, OneUserPerToken
      <4> QED BY <4>1, UsersFit
    <3>3. [found EXCEPT !.user = u] \in RequestRecords
      BY <3>2 DEF RequestRecords
    <3> QED BY <1>3, <3>1, <3>3
  <2> QED BY <2>0, <2>1, <2>2, <2>3 DEF LookupResult
<1>5. req' \in [Slot -> RequestRecords] /\ RequestsKnowUsers'
  BY <1>2, <1>4, RequestStep, RequestsType
<1>6. count' \in 0..MaxRequests
  BY DEF IInv, TypeOK
<1> QED BY <1>2, <1>5, <1>6, SameBuckets, KeepsInv

LEMMA AuthenticateInv == ASSUME IInv, NEW r \in Slot, Authenticate(r)
                         PROVE  IInv'
<1> DEFINE q == req[r]
           found == [q EXCEPT !.at = "limit"]
<1>1. q \in RequestRecords /\ KnowsUser(q, users)
  BY RequestsType DEF RequestsKnowUsers
<1>2. q.at \in {"find", "insert"}
      /\ UNCHANGED <<now, bucket, jobs, known, count, admitted>>
      /\ (Find(r, q.token, "insert", found) \/ Insert(r, q.token, found))
  BY DEF Authenticate
<1>3. q.token \in Token
  BY <1>1, <1>2 DEF KnowsUser
<1>4. found \in RequestRecords /\ found.token = q.token
  BY <1>1 DEF RequestRecords, At
<1>5. \A table : KnowsUser(q, table) => KnowsUser([q EXCEPT !.at = "insert"], table)
  BY <1>1, <1>2 DEF KnowsUser, FromClient, RequestRecords
<1>6. ASSUME NEW u, NEW table, u \in DOMAIN table, table[u] = q.token, KnowsUser(q, table)
      PROVE  KnowsUser([found EXCEPT !.user = u], table)
  BY <1>1, <1>2, <1>6 DEF KnowsUser, FromClient, HasAccount, RequestRecords
<1>7. "insert" \in At
  BY DEF At
<1> QED BY <1>2, <1>3, <1>4, <1>5, <1>6, <1>7, LookupInv

LEMMA ResolveOwnerIdentityInv == ASSUME IInv, NEW r \in Slot, ResolveOwnerIdentity(r)
                                 PROVE  IInv'
<1> DEFINE q == req[r]
           found == Owned(q)
<1>1. q \in RequestRecords /\ KnowsUser(q, users)
  BY RequestsType DEF RequestsKnowUsers
<1>2. q.at \in {"findOwner", "insertOwner"}
      /\ UNCHANGED <<now, bucket, jobs, known, count, admitted>>
      /\ (Find(r, q.arg, "insertOwner", found) \/ Insert(r, q.arg, found))
  BY DEF ResolveOwnerIdentity
<1>3. q.arg \in Token
  BY <1>1, <1>2 DEF KnowsUser, RequestRecords
<1>4. found \in RequestRecords /\ found.token = q.arg
  BY <1>1 DEF RequestRecords, At, Owned
<1>5. \A table : KnowsUser(q, table) => KnowsUser([q EXCEPT !.at = "insertOwner"], table)
  BY <1>1, <1>2 DEF KnowsUser, FromClient, HasAccount, RequestRecords
<1>6. ASSUME NEW u, NEW table, u \in DOMAIN table, table[u] = q.arg, KnowsUser(q, table)
      PROVE  KnowsUser([found EXCEPT !.user = u], table)
  BY <1>1, <1>2, <1>3, <1>6 DEF KnowsUser, FromClient, HasAccount, RequestRecords, Owned
<1>7. "insertOwner" \in At
  BY DEF At
<1> HIDE DEF found
<1> QED BY <1>2, <1>3, <1>4, <1>5, <1>6, <1>7, LookupInv

\* The bucket that a tool asks is the one of the client it is accounted to.
LEMMA CheckLimitInv == ASSUME IInv, NEW r \in Slot, CheckLimit(r)
                       PROVE  IInv'
<1> DEFINE q == req[r]
           k == Budget(q.tool)
           q2 == IF ~Allowed(k, LimitKey(q)) THEN NoRequest
                 ELSE [q EXCEPT !.at = IF q.arg # NoToken THEN "findOwner" ELSE "act"]
<1>1. q \in RequestRecords /\ KnowsUser(q, users) /\ q.at = "limit"
  BY RequestsType DEF RequestsKnowUsers, CheckLimit
<1>2. /\ TryConsume(k, LimitKey(q), IF k = "mutate" THEN Client(q) ELSE q.user)
      /\ req' = [req EXCEPT ![r] = q2]
      /\ UNCHANGED <<now, users, jobs, known, count>>
  BY DEF CheckLimit
<1>3. k \in Kind
  BY DEF Budget, Kind
<1>4. q.user \in Users
  <2>1. users \in Seq(Token) /\ \A v, w \in DOMAIN users : users[v] = users[w] => v = w
    BY DEF IInv, TypeOK, OneUserPerToken
  <2> QED BY <1>1, <2>1, UsersFit DEF KnowsUser, HasAccount
<1>5. LimitKey(q) \in Key /\ LimitKey(q) = IF k = "mutate" THEN Client(q) ELSE q.user
  BY <1>1, <1>4 DEF LimitKey, MutateKey, Client, KnowsUser, FromClient, Key
<1>6. Buckets' /\ now' \in 0..Horizon
  BY <1>2, <1>3, <1>5, IInvBuckets, TryConsumeInv
<1>7. q2 \in RequestRecords
  BY <1>1, NoRequestIdle DEF RequestRecords, At
<1>8. KnowsUser(q2, users')
  BY <1>1, <1>2, NoRequestIdle DEF KnowsUser, FromClient, HasAccount, RequestRecords
<1>9. Grows /\ OneUserPerToken' /\ count' \in 0..MaxRequests
  BY <1>2, SameUsersGrow DEF IInv, OneUserPerToken, TypeOK
<1> HIDE DEF q2
<1>10. req' \in [Slot -> RequestRecords] /\ RequestsKnowUsers'
  BY <1>2, <1>7, <1>8, <1>9, RequestStep, RequestsType
<1> QED BY <1>2, <1>6, <1>9, <1>10, KeepsInv

LEMMA AnswerInv == ASSUME IInv, NEW r \in Slot, Answer(r)
                   PROVE  IInv'
<1>1. /\ req' = [req EXCEPT ![r] = NoRequest]
      /\ UNCHANGED <<now, bucket, users, jobs, known, count, admitted>>
  BY DEF Answer
<1>2. Grows /\ OneUserPerToken' /\ count' \in 0..MaxRequests
  BY <1>1, SameUsersGrow DEF IInv, OneUserPerToken, TypeOK
<1>3. req' \in [Slot -> RequestRecords] /\ RequestsKnowUsers'
  BY <1>1, <1>2, NoRequestIdle, RequestStep, RequestsType
<1> QED BY <1>1, <1>2, <1>3, SameBuckets, KeepsInv

\* A new job leaves the old ones where they were.
JobRecords == [type : {"create", "change"}, user : Users, on : Nat,
               header : Token \cup {NoToken}, arg : Token \cup {NoToken},
               notice : Token \cup {NoToken}]

RightJob(j, table) ==
    /\ j.user \in DOMAIN table
    /\ table[j.user] = Given(j)
    /\ j.notice \in {NoToken, table[j.user]}

LEMMA JobStep ==
    ASSUME IInv, NEW r \in Slot, NEW j \in JobRecords,
           jobs' = Append(jobs, j), known' \in SUBSET Token,
           req' = [req EXCEPT ![r] = NoRequest],
           UNCHANGED <<now, bucket, users, count, admitted>>,
           j.type = "create" => RightJob(j, users)
    PROVE  IInv'
<1>1. OneUserPerToken' /\ Grows
  BY SameUsersGrow DEF IInv, OneUserPerToken
<1>2. req' \in [Slot -> RequestRecords] /\ RequestsKnowUsers'
  BY <1>1, NoRequestIdle, RequestStep, RequestsType
<1>3. jobs \in Seq(JobRecords)
  BY DEF IInv, TypeOK, JobRecords
<1>4. /\ jobs' \in Seq(JobRecords)
      /\ DOMAIN jobs' = DOMAIN jobs \cup {Len(jobs) + 1}
      /\ jobs'[Len(jobs) + 1] = j
      /\ \A i \in DOMAIN jobs : jobs'[i] = jobs[i] /\ jobs[i] \in JobRecords
  BY <1>3
<1>5. TypeOK'
  BY <1>2, <1>4 DEF IInv, TypeOK, RequestRecords, JobRecords
<1>6. RightAccount'
  BY <1>4 DEF IInv, RightAccount, RightJob
<1> QED BY <1>1, <1>2, <1>5, <1>6, SameBuckets DEF IInv, Buckets

LEMMA CreateServerInv == ASSUME IInv, NEW r \in Slot, CreateServer(r)
                         PROVE  IInv'
<1> DEFINE q == req[r]
           notice == IF q.isNew THEN q.token ELSE NoToken
           j == [type |-> "create", user |-> q.user, on |-> 0,
                 header |-> q.header, arg |-> q.arg, notice |-> notice]
<1>1. q \in RequestRecords /\ KnowsUser(q, users) /\ q.at = "act"
  BY RequestsType DEF RequestsKnowUsers, CreateServer
<1>2. /\ jobs' = Append(jobs, j) /\ known' = known \cup ({notice} \ {NoToken})
      /\ req' = [req EXCEPT ![r] = NoRequest]
      /\ UNCHANGED <<now, bucket, users, count, admitted>>
  BY DEF CreateServer
<1>3. notice \in Token \cup {NoToken}
  BY <1>1 DEF RequestRecords
<1>4. q.user \in Users
  <2>1. users \in Seq(Token) /\ \A v, w \in DOMAIN users : users[v] = users[w] => v = w
    BY DEF IInv, TypeOK, OneUserPerToken
  <2> QED BY <1>1, <2>1, UsersFit DEF KnowsUser, HasAccount
<1>5. j \in JobRecords
  BY <1>1, <1>3, <1>4 DEF JobRecords, RequestRecords
<1>6. RightJob(j, users)
  BY <1>1, TokenAssumption DEF RightJob, Given, KnowsUser, HasAccount, FromClient, RequestRecords
<1>7. known' \in SUBSET Token
  BY <1>2, <1>3 DEF IInv, TypeOK
<1> HIDE DEF j
<1> QED BY <1>2, <1>5, <1>6, <1>7, JobStep

LEMMA ChangeServerInv == ASSUME IInv, NEW r \in Slot, ChangeServer(r)
                         PROVE  IInv'
<1>1. PICK i \in DOMAIN jobs :
          jobs' = Append(jobs, [type |-> "change", user |-> jobs[i].user, on |-> i,
                                header |-> req[r].header, arg |-> req[r].arg,
                                notice |-> NoToken])
  BY DEF ChangeServer
<1> DEFINE j == [type |-> "change", user |-> jobs[i].user, on |-> i,
                 header |-> req[r].header, arg |-> req[r].arg, notice |-> NoToken]
<1>2. jobs \in Seq(JobRecords) /\ req[r] \in RequestRecords /\ known \in SUBSET Token
  BY DEF IInv, TypeOK, JobRecords, RequestRecords
<1>3. i \in Nat /\ jobs[i] \in JobRecords
  BY <1>2
<1>4. j \in JobRecords
  BY <1>2, <1>3 DEF JobRecords, RequestRecords
<1>5. /\ req' = [req EXCEPT ![r] = NoRequest]
      /\ UNCHANGED <<now, bucket, users, known, count, admitted>>
  BY DEF ChangeServer
<1>6. j.type # "create"
  OBVIOUS
<1>7. jobs' = Append(jobs, j)
  BY <1>1
<1> HIDE DEF j
<1> QED BY <1>2, <1>4, <1>5, <1>6, <1>7, JobStep

-----------------------------------------------------------------------------
(* The theorems *)

LEMMA SpecIInv == Spec => []IInv
<1>1. Init => IInv
  BY InitIInv
<1>2. IInv /\ [Next]_vars => IInv'
  <2> SUFFICES ASSUME IInv, [Next]_vars
               PROVE  IInv'
    OBVIOUS
  <2>1. CASE UNCHANGED vars
    <3>1. UNCHANGED <<now, bucket, users, jobs, known, req, count, admitted>>
      BY <2>1 DEF vars
    <3>2. Grows /\ OneUserPerToken' /\ RequestsKnowUsers' /\ req' \in [Slot -> RequestRecords]
          /\ count' \in 0..MaxRequests
      BY <3>1, SameUsersGrow, RequestsType
         DEF IInv, OneUserPerToken, RequestsKnowUsers, TypeOK
    <3> QED BY <3>1, <3>2, SameBuckets, KeepsInv
  <2>2. CASE Tick
    BY <2>2, TickInv
  <2>3. ASSUME NEW r \in Slot,
               \/ Arrive(r) \/ Authenticate(r) \/ CheckLimit(r) \/ ResolveOwnerIdentity(r)
               \/ CreateServer(r) \/ ChangeServer(r) \/ Answer(r)
        PROVE  IInv'
    BY <2>3, ArriveInv, AuthenticateInv, CheckLimitInv, ResolveOwnerIdentityInv,
       CreateServerInv, ChangeServerInv, AnswerInv
  <2> QED BY <2>1, <2>2, <2>3 DEF Next
<1> QED BY <1>1, <1>2, PTL DEF Spec

\* Requests, rows and buckets have their types: an account's number never
\* exceeds the number of tokens.
THEOREM TypeCorrect == Spec => []TypeOK
BY SpecIInv, PTL DEF IInv

\* However requests of one client overlap, no limiter lets it through more
\* often in any stretch of time than burst and refill allow.
THEOREM BudgetKept == Spec => []WithinBudget
BY SpecIInv, PTL DEF IInv

\* Whoever comes back with a token is listed what was created with it, and
\* nothing else, however the requests that created it overlapped.
THEOREM ComingBack == Spec => ListsWhatWasCreated
<1>1. ASSUME IInv, NEW r \in Slot, Answer(r), req[r].tool = "list"
      PROVE  CreatesOf(req[r].user) = CreatedWith(TokenOf(req[r]))
  <2> DEFINE q == req[r]
  <2>1. q \in RequestRecords /\ KnowsUser(q, users) /\ q.at = "act"
    BY <1>1, RequestsType DEF RequestsKnowUsers, Answer
  <2>2. q.user \in DOMAIN users /\ users[q.user] = TokenOf(q) /\ TokenOf(q) # NoToken
    BY <2>1, TokenAssumption DEF KnowsUser, HasAccount, FromClient, TokenOf, RequestRecords
  <2>3. ASSUME NEW i \in DOMAIN jobs, jobs[i].type = "create"
        PROVE  jobs[i].user = q.user <=> TokenOf(q) \in {Given(jobs[i]), jobs[i].notice}
    <3>1. /\ jobs[i].user \in DOMAIN users
          /\ users[jobs[i].user] = Given(jobs[i])
          /\ jobs[i].notice \in {NoToken, Given(jobs[i])}
      BY <1>1, <2>3 DEF IInv, RightAccount
    <3>2. users[jobs[i].user] = users[q.user] => jobs[i].user = q.user
      BY <1>1, <2>2, <3>1 DEF IInv, OneUserPerToken
    <3> QED BY <2>2, <3>1, <3>2
  <2> QED BY <2>3 DEF CreatesOf, CreatedWith
<1>2. IInv => [\A r \in Slot : Answer(r) /\ req[r].tool = "list" =>
                    CreatesOf(req[r].user) = CreatedWith(TokenOf(req[r]))]_vars
  BY <1>1
<1> QED BY <1>2, SpecIInv, PTL DEF ListsWhatWasCreated
=============================================================================
