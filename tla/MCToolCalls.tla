---------------------------- MODULE MCToolCalls ----------------------------
\* Instances of ToolCalls for TLC.
EXTENDS ToolCalls, TLC

CONSTANTS c1, c2, k1

\* The calls of two callers are cacheable and ask for the same thing.
TwoShareAKey == [c \in Call |-> IF c \in {c1, c2} THEN k1 ELSE NoKey]
=============================================================================
