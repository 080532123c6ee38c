---------------------------- MODULE MCOwnerView ----------------------------
\* Instances of OwnerView for TLC.
EXTENDS OwnerView

CONSTANTS b1, b2, n1, n2, u1, u2

\* Each spec has a slug of its own.
TwoNames == [b \in Body |-> IF b = b1 THEN n1 ELSE n2]

\* The second request may generate what the first did, or something else.
FirstThenAny == [j \in Job |-> IF j = 1 THEN {b1} ELSE Body]

\* Each create job is another user's.
TwoUsers == [j \in Job |-> IF j = 1 THEN u1 ELSE u2]
=============================================================================
