---------------------------- MODULE MCServerPool ----------------------------
\* Instances of ServerPool for TLC.
EXTENDS ServerPool, TLC

RequestSymmetry == Permutations(Request)
=============================================================================
