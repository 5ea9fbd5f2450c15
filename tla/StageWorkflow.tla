--------------------------- MODULE StageWorkflow ---------------------------
(***************************************************************************)
(* The stage pipeline every screenplay draft walks through, and the guards *)
(* the API puts on a draft's position in it.  A stage is its position: the *)
(* six stages PREMISE .. SCRIPT are 1 .. NumStages, IDEA (nothing          *)
(* generated yet) is 0 and COMPLETE comes after the last stage.            *)
(* A draft record has `stage` (currentStage, the last stage with content), *)
(* `confirmed` (confirmedStage, 0 standing for NULL) and `status`.         *)
(***************************************************************************)
EXTENDS Integers

CONSTANT NumStages      \* length of the pipeline; 6 in the source

ASSUME StageAssumption == NumStages \in Nat \ {0}

Stages == 1..NumStages
IDEA == 0
COMPLETE == NumStages + 1
NoStage == 0            \* confirmedStage = NULL

VersionStatus == {"ABSENT", "STAGING", "ACTIVE", "SUPERSEDED"}

\* The stage after s, or NoStage after the last one.
NextStage(s) == IF s = NumStages THEN NoStage ELSE s + 1

\* What a worker checks before it runs stage s of draft v: either the stage
\* is being generated again before its confirmation, or it is the one that
\* follows a confirmed stage.
CanRun(v, s) ==
  \/ v.stage = s /\ v.confirmed # s
  \/ IF s = 1 THEN v.stage = IDEA
              ELSE v.stage = s - 1 /\ v.confirmed = s - 1

\* The stage waits for the writer: it may be edited or generated again.
AwaitsReview(v, s) == v.stage = s /\ v.confirmed # s

\* Variant that takes any request for the first stage for such a restart.
RestartsAnyFirstStage(v, s) == s = 1

\* A first stage that failed before it produced anything is started over
\* without being counted as a regeneration.
RetriesFirstStage(v, s) == s = 1 /\ v.stage = IDEA

\* Where a project goes back to when a job of the draft fails.
StableStage(v) == IF v.status = "STAGING" THEN v.stage ELSE IDEA
=============================================================================
