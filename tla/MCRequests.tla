---------------------------- MODULE MCRequests ----------------------------
\* Instances of Requests for TLC.
EXTENDS Requests, TLC

SlotSymmetry == Permutations(Slot) \cup Permutations(Minted)

\* Bursts of two, one and one, refilled in three, two and one units of time, so
\* that within the Horizon of two each of them runs dry and refills.
SmallLimits == [issue  |-> [capacity |-> 2, interval |-> 3],
                mutate |-> [capacity |-> 1, interval |-> 2],
                query  |-> [capacity |-> 1, interval |-> 1]]
=============================================================================
