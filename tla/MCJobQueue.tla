----------------------------- MODULE MCJobQueue -----------------------------
\* Instances of JobQueue for TLC.
EXTENDS JobQueue, TLC

\* Workers differ in nothing but their ids.
WorkerSymmetry == Permutations(Worker)
=============================================================================
