---------------------------- MODULE JobLifecycle ----------------------------
(***************************************************************************)
(* What the job queue promises its callers, without workers, locks or     *)
(* attempts: a job is submitted, executed by one run at a time, and each   *)
(* run moves it to the next stage of its pipeline, leaves it where it was, *)
(* or ends it.  Nothing ever leaves "active" or "failed".                  *)
(***************************************************************************)
EXTENDS JobStages

CONSTANT Job

VARIABLES stage,    \* the stage each job rests at, "none" before it exists
          type,     \* what the job is for, "none" before it exists
          running   \* whether a run of the job is in progress

vars == <<stage, type, running>>

Init ==
    /\ stage   = [j \in Job |-> "none"]
    /\ type    = [j \in Job |-> "none"]
    /\ running = [j \in Job |-> FALSE]

Submit(j) ==
    /\ stage[j] = "none"
    /\ stage' = [stage EXCEPT ![j] = "queued"]
    /\ \E t \in JobTypes : type' = [type EXCEPT ![j] = t]
    /\ UNCHANGED running

Start(j) ==
    /\ stage[j] \in WorkStages
    /\ ~running[j]
    /\ running' = [running EXCEPT ![j] = TRUE]
    /\ UNCHANGED <<stage, type>>

\* The outcome belongs to the stage the run was started for, and is applied
\* once: the run is over when it is.
Finish(j) ==
    /\ stage[j] \in WorkStages
    /\ running[j]
    /\ running' = [running EXCEPT ![j] = FALSE]
    /\ \E s \in {NextStage(type[j], stage[j]), "failed", stage[j]} :
           stage' = [stage EXCEPT ![j] = s]
    /\ UNCHANGED type

Next == \E j \in Job : Submit(j) \/ Start(j) \/ Finish(j)

Spec == Init /\ [][Next]_vars
=============================================================================
