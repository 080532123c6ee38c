----------------------------- MODULE JobStages -----------------------------
(***************************************************************************)
(* The vocabulary of the jobs table: its stages, its job types and the     *)
(* stage a successful run of each stage leads to.                          *)
(***************************************************************************)
EXTENDS Integers

\* "redeploy" jobs are in the schema, but nothing enqueues one.
JobTypes == {"create", "refine", "delete"}

Terminal == {"active", "failed"}

\* The stages at which a job rests between two claims, in pipeline order.
WorkStages == {"queued", "building", "validating", "probing", "deploying"}

\* "none" stands for a row that has not been inserted yet.
Stages == {"none"} \cup WorkStages \cup Terminal

\* How many stages of work lie behind a job resting at stage s.
Rank(s) ==
    CASE s = "building"   -> 1
      [] s = "validating" -> 2
      [] s = "probing"    -> 3
      [] s = "deploying"  -> 4
      [] OTHER            -> 0

\* Mutant: the generating stage is parked at before building.
NextStageViaGenerating(t, s) ==
    IF t = "delete" THEN "active" ELSE
    CASE s = "queued"     -> "generating"
      [] s = "generating" -> "building"
      [] s = "building"   -> "validating"
      [] s = "validating" -> "probing"
      [] s = "probing"    -> "deploying"
      [] OTHER            -> "active"

\* Mutant: a validated spec is deployed without the probe.
NextStageSkippingProbe(t, s) ==
    IF t = "delete" THEN "active" ELSE
    CASE s = "queued"     -> "building"
      [] s = "building"   -> "validating"
      [] s = "validating" -> "deploying"
      [] OTHER            -> "active"

\* Where the stage machine sends a job whose run of stage s succeeded.  A
\* delete job does all its work in one stage.
NextStage(t, s) ==
    IF t = "delete" THEN "active" ELSE
    CASE s = "queued"     -> "building"
      [] s = "building"   -> "validating"
      [] s = "validating" -> "probing"
      [] s = "probing"    -> "deploying"
      [] OTHER            -> "active"

\* How a run of stage s can end: the handler asks for the next stage, for a
\* retry, for a terminal failure, or throws.
HandlerOutcomes(t, s) ==
    {"advance", "fail", "thrown"}
        \cup (IF t # "delete" /\ s \in {"validating", "probing"}
              THEN {"retry"} ELSE {})
=============================================================================
