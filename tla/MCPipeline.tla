----------------------------- MODULE MCPipeline -----------------------------
\* Instances of Pipeline for TLC.
EXTENDS Pipeline, TLC

CONSTANTS b1, b2, n1, n2, u1, u2

WorkerSymmetry == Permutations(Worker)

\* Both specs come from one template, which gives them one slug.
OneName == [b \in Body |-> n1]

\* Each spec has a slug of its own.
TwoNames == [b \in Body |-> IF b = b1 THEN n1 ELSE n2]

\* The second request may generate what the first did, or something else.
FirstThenAny == [j \in Job |-> IF j = 1 THEN {b1} ELSE Body]

\* The second request generates something else.
FirstThenSecond == [j \in Job |-> IF j = 1 THEN {b1} ELSE {b2}]

\* All requests are one user's.
OneUser == [j \in Job |-> u1]
=============================================================================
