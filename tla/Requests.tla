----------------------------- MODULE Requests -----------------------------
(***************************************************************************)
(* The requests to apps/creator-mcp: who a request is from, what it may    *)
(* do, and whose account its job lands in.  PlayMCP keeps nothing between  *)
(* two calls, so a request comes with a token in its X-Owner-Token header, *)
(* or in the tool's owner_token argument, or with neither, and then gets a *)
(* new one.                                                                *)
(*                                                                         *)
(* An owner token is any string a client likes; the users table holds its  *)
(* hash, under a unique constraint.  A user's id is its row's number, so   *)
(* that there are at most as many as there are tokens.                     *)
(* Requests run side by side in one Node process: an action is the code    *)
(* between two statements the request waits for.                           *)
(***************************************************************************)
EXTENDS TokenBucket, Sequences, FiniteSets

CONSTANTS
    Slot,         \* requests that may be in flight at once
    Ip,           \* client addresses
    Chosen,       \* bound: tokens that clients make up
    Minted,       \* bound: tokens that issueToken makes up
    NoToken,
    Limit,        \* the limits of "issue", "mutate" and "query"
    MaxRequests,  \* bound: requests in all
    Horizon       \* bound: the clock

Kind  == {"issue", "mutate", "query"}
Token == Chosen \cup Minted
Users == 1..Cardinality(Token)
Key   == Ip \cup Users

ASSUME TokenAssumption ==
    /\ Chosen \cap Minted = {} /\ NoToken \notin Token
    /\ IsFiniteSet(Token)
ASSUME LimitAssumption == \A k \in Kind : IsLimit(Limit[k])
ASSUME BoundAssumption == MaxRequests \in Nat /\ Horizon \in Nat
ASSUME IpAssumption    == Ip \cap Nat = {}

VARIABLES
    now,
    bucket,    \* the three limiters' maps
    users,     \* the users table: the token of each user
    jobs,      \* what create, refine and delete have enqueued
    known,     \* the tokens that clients can present
    req,       \* the request in each slot
    count,     \* requests so far
    admitted   \* when each client passed each limiter, which nothing reads

vars == <<now, bucket, users, jobs, known, req, count, admitted>>

Tools == {"create", "change", "list", "status"}

\* change stands for refine_mcp_server and delete_server, list for the query
\* tools that take an owner_token, status for those that do not.
Takes(tool) == tool # "status"
Budget(tool) == IF tool \in {"create", "change"} THEN "mutate" ELSE "query"

At == {"idle", "find", "insert", "limit", "findOwner", "insertOwner", "act"}

NoRequest == [at |-> "idle", ip |-> NoToken, header |-> NoToken, tool |-> "list",
              arg |-> NoToken, user |-> 0, token |-> NoToken, isNew |-> FALSE]

TypeOK ==
    /\ now \in 0..Horizon
    /\ bucket \in [Kind -> [Key -> [tokens : Nat, at : 0..Horizon]]]
    /\ \A k \in Kind : \A c \in Key : bucket[k][c].tokens <= Full(Limit[k])
    /\ users \in Seq(Token)
    /\ jobs \in Seq([type : {"create", "change"}, user : Users, on : Nat,
                     header : Token \cup {NoToken}, arg : Token \cup {NoToken},
                     notice : Token \cup {NoToken}])
    /\ known \in SUBSET Token
    /\ req \in [Slot -> [at : At, ip : Ip \cup {NoToken}, header : Token \cup {NoToken},
                         tool : Tools, arg : Token \cup {NoToken},
                         user : Users \cup {0}, token : Token \cup {NoToken},
                         isNew : BOOLEAN]]
    /\ count \in 0..MaxRequests
    /\ admitted \in [Kind -> [Key -> Seq(0..Horizon)]]

Init ==
    /\ now = 0
    /\ bucket = [k \in Kind |-> [c \in Key |-> NewBucket(Limit[k])]]
    /\ users = <<>>
    /\ jobs = <<>>
    /\ known = Chosen
    /\ req = [r \in Slot |-> NoRequest]
    /\ count = 0
    /\ admitted = [k \in Kind |-> [c \in Key |-> <<>>]]

-----------------------------------------------------------------------------
(* Limits *)

Allowed(k, c) == HasToken(Limit[k], bucket[k][c], now)

\* tryConsume on key c, for the client who, whose admission is noted.
TryConsume(k, c, who) ==
    /\ bucket' = [bucket EXCEPT ![k][c] = Consume(Limit[k], @, now)]
    /\ admitted' = IF Allowed(k, c)
                   THEN [admitted EXCEPT ![k][who] = Append(@, now)]
                   ELSE admitted

\* A request without a token is from its address, another from its user.
Client(q) == IF q.header = NoToken THEN q.ip ELSE q.user

\* Mutant: the limit is counted for the user the request was given.
MutateKeyOfUser(q) == q.user

\* rateLimitKey, which stays what it was when an owner_token changes the user.
MutateKey(q) == IF q.isNew THEN q.ip ELSE q.user

-----------------------------------------------------------------------------
(* The users table *)

HasUser(t) == \E u \in DOMAIN users : users[u] = t
UserFor(t) == CHOOSE u \in DOMAIN users : users[u] = t

\* findOrCreateByAuthRef for token t: the SELECT ...
Find(r, t, at, found) ==
    /\ IF HasUser(t)
       THEN req' = [req EXCEPT ![r] = [found EXCEPT !.user = UserFor(t)]]
       ELSE req' = [req EXCEPT ![r].at = at]
    /\ UNCHANGED users

\* ... and the INSERT, which fails, and with it the request, when another
\* request has inserted the user in the meantime.
Insert(r, t, found) ==
    IF HasUser(t)
    THEN req' = [req EXCEPT ![r] = NoRequest] /\ UNCHANGED users
    ELSE /\ users' = Append(users, t)
         /\ req' = [req EXCEPT ![r] = [found EXCEPT !.user = Len(users) + 1]]

-----------------------------------------------------------------------------
(* The middleware *)

Unused == Minted \ ({users[u] : u \in DOMAIN users} \cup {req[r].token : r \in Slot})

Receive(r, ip, header, tool, arg) ==
    /\ req[r].at = "idle"
    /\ count < MaxRequests
    /\ count' = count + 1
    /\ UNCHANGED <<now, users, jobs, known>>
    /\ LET q == [NoRequest EXCEPT !.at = "find", !.ip = ip, !.header = header,
                                  !.tool = tool, !.arg = arg, !.token = header]
       IN  \/ /\ header # NoToken
              /\ req' = [req EXCEPT ![r] = q]
              /\ UNCHANGED <<bucket, admitted>>
           \/ /\ header = NoToken
              /\ TryConsume("issue", ip, ip)
              /\ IF Allowed("issue", ip)
                 THEN \E t \in Unused :
                          req' = [req EXCEPT ![r] = [q EXCEPT !.token = t, !.isNew = TRUE]]
                 ELSE UNCHANGED req

Authenticate(r) ==
    LET q == req[r]
        found == [q EXCEPT !.at = "limit"]
    IN  /\ \/ q.at = "find" /\ Find(r, q.token, "insert", found)
           \/ q.at = "insert" /\ Insert(r, q.token, found)
        /\ UNCHANGED <<now, bucket, jobs, known, count, admitted>>

-----------------------------------------------------------------------------
(* The tools *)

LimitKey(q) == IF Budget(q.tool) = "mutate" THEN MutateKey(q) ELSE q.user

\* Every tool first asks its limiter.
CheckLimit(r) ==
    LET q == req[r]
        k == Budget(q.tool)
    IN  /\ q.at = "limit"
        /\ TryConsume(k, LimitKey(q), IF k = "mutate" THEN Client(q) ELSE q.user)
        /\ req' = [req EXCEPT ![r] =
                      IF ~Allowed(k, LimitKey(q)) THEN NoRequest
                      ELSE [q EXCEPT !.at = IF q.arg # NoToken THEN "findOwner"
                                                               ELSE "act"]]
        /\ UNCHANGED <<now, users, jobs, known, count>>

\* Mutant: the user is swapped, and the token of the request stays.
OwnedKeepingToken(q) == [q EXCEPT !.at = "act"]

\* The context of the owner_token: its user and token, and nothing to announce.
Owned(q) == [q EXCEPT !.at = "act", !.token = q.arg, !.isNew = FALSE]

ResolveOwnerIdentity(r) ==
    LET q == req[r]
    IN  /\ \/ q.at = "findOwner" /\ Find(r, q.arg, "insertOwner", Owned(q))
           \/ q.at = "insertOwner" /\ Insert(r, q.arg, Owned(q))
        /\ UNCHANGED <<now, bucket, jobs, known, count, admitted>>

\* The answer announces a token that was made up for this very request.
CreateServer(r) ==
    LET q == req[r]
        notice == IF q.isNew THEN q.token ELSE NoToken
    IN  /\ q.at = "act" /\ q.tool = "create"
        /\ jobs' = Append(jobs, [type |-> "create", user |-> q.user, on |-> 0,
                                 header |-> q.header, arg |-> q.arg, notice |-> notice])
        /\ known' = known \cup ({notice} \ {NoToken})
        /\ req' = [req EXCEPT ![r] = NoRequest]
        /\ UNCHANGED <<now, bucket, users, count, admitted>>

\* The job of a refine or a delete goes to the account of the server, whatever
\* token the request came with: here it is that of the job that created it.
ChangeServer(r) ==
    LET q == req[r]
    IN  /\ q.at = "act" /\ q.tool = "change"
        /\ \E i \in DOMAIN jobs :
              /\ jobs[i].type = "create"
              /\ jobs' = Append(jobs, [type |-> "change", user |-> jobs[i].user, on |-> i,
                                       header |-> q.header, arg |-> q.arg, notice |-> NoToken])
        /\ req' = [req EXCEPT ![r] = NoRequest]
        /\ UNCHANGED <<now, bucket, users, known, count, admitted>>

\* The tools that only read, and a change of a server that is not there.
Answer(r) ==
    /\ req[r].at = "act"
    /\ req[r].tool = "change" => \A i \in DOMAIN jobs : jobs[i].type # "create"
    /\ req[r].tool # "create"
    /\ req' = [req EXCEPT ![r] = NoRequest]
    /\ UNCHANGED <<now, bucket, users, jobs, known, count, admitted>>

Tick ==
    /\ now < Horizon
    /\ now' = now + 1
    /\ UNCHANGED <<bucket, users, jobs, known, req, count, admitted>>

Arrive(r) ==
    \E ip \in Ip, tool \in Tools, header \in known \cup {NoToken} :
        \E arg \in {NoToken} \cup (IF Takes(tool) THEN known ELSE {}) :
            Receive(r, ip, header, tool, arg)

Next ==
    \/ Tick
    \/ \E r \in Slot :
           \/ Arrive(r) \/ Authenticate(r) \/ CheckLimit(r) \/ ResolveOwnerIdentity(r)
           \/ CreateServer(r) \/ ChangeServer(r) \/ Answer(r)

Spec == Init /\ [][Next]_vars

-----------------------------------------------------------------------------
(* Properties *)

\* In any stretch of time a client passes each limiter at most as often as the
\* burst and the refill of that time allow.  For the mutating tools a client
\* without a token is its address, however many users its requests were given.
WithinBudget ==
    \A k \in Kind, c \in Key : LET times == admitted[k][c] IN
        \A i, j \in DOMAIN times : i <= j =>
            (j - i + 1) * Limit[k].interval
                <= Limit[k].capacity * (Limit[k].interval + times[j] - times[i])

\* The token that a job was asked for with, or that its answer announces; and
\* the one that a request is for.
Given(j)   == IF j.arg # NoToken THEN j.arg
              ELSE IF j.header # NoToken THEN j.header ELSE j.notice
TokenOf(q) == IF q.arg # NoToken THEN q.arg
              ELSE IF q.header # NoToken THEN q.header ELSE q.token

CreatesOf(u)    == {i \in DOMAIN jobs : jobs[i].type = "create" /\ jobs[i].user = u}
CreatedWith(t)  == {i \in DOMAIN jobs : jobs[i].type = "create"
                                        /\ t \in {Given(jobs[i]), jobs[i].notice}}

\* A client that comes back with a token is listed what was created with that
\* token, in a header, as an owner_token or as the answer to a request without
\* one announced it: all of it, also if its first requests overlapped, and
\* nothing else.  What list_my_servers lists are rows; a create job's row is its
\* user's unless it shares that of another's, which module OwnerView has.
ListsWhatWasCreated ==
    [][\A r \in Slot : Answer(r) /\ req[r].tool = "list" =>
          CreatesOf(req[r].user) = CreatedWith(TokenOf(req[r]))]_vars
=============================================================================
