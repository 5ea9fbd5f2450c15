-------------------------- MODULE GenerationSafety --------------------------
(***************************************************************************)
(* What the generation jobs of a project promise: the type invariant, the  *)
(* safety invariants, one action property and one liveness property, with  *)
(* the fairness the liveness property needs.                               *)
(***************************************************************************)
EXTENDS GenerationJobs

ProjectStatus == {"DRAFT", "GENERATING", "REVIEWING", "READY"}
Positions == 0..COMPLETE

ProjectType == [status : ProjectStatus, stage : Positions, regens : Nat,
                active : 0..MaxVersions, content : BOOLEAN]
VersionType == [status : VersionStatus, stage : 0..NumStages, confirmed : 0..NumStages,
                content : [Stages -> 0..Edited]]
JobType == [status : JobStatus, version : 0..MaxVersions, stage : 0..NumStages,
            attempt : Nat, seq : Nat, queuedAt : Nat, completedAt : Nat,
            result : 0..MaxVersions]
RunType == [startedAt : Nat, version : Versions, stage : Stages,
            status : {"RUNNING", "COMPLETED", "FAILED"}, job : Jobs]
HandlerType == [pc : HandlerPCs, job : 0..MaxJobs, retry : 0..RetryLimit,
                prev : 0..NumStages, run : Nat,
                err : {"none", "retryable", "blocked", "fatal"}]
ReaderType == [pc : {"idle", "queue", "grace", "fail", "mark", "repair"}, job : 0..MaxJobs,
               status : JobStatus, attempt : Nat, seq : Nat]

\* Every variable holds a value of its type; a handler at work and a busy
\* reader have a job, and a job that exists has a draft and a stage.
TypeOK ==
  /\ project \in ProjectType
  /\ version \in [Versions -> VersionType]
  /\ job \in [Jobs -> JobType]
  /\ \A j \in Jobs : job[j].status # "ABSENT" =>
                       job[j].version \in Versions /\ job[j].stage \in Stages
  /\ runs \subseteq RunType
  /\ QueueTypeOK
  /\ handler \in [Handlers -> HandlerType]
  /\ \A h \in Handlers : handler[h].pc # "idle" => JobOf(h) \in Jobs
  /\ reader \in [Readers -> ReaderType]
  /\ \A r \in Readers : reader[r].pc # "idle" => reader[r].job \in Jobs
  /\ riskLow \in BOOLEAN
  /\ clock \in Nat
  /\ calls \in [Jobs -> Nat]
  /\ faults \in Nat

-----------------------------------------------------------------------------
(* Safety. *)

\* A job never starts the paid provider call of its stage twice, whatever is
\* redelivered, retried, lost or crashed (stopPreviouslyAttemptedJob and the
\* attempt fence of claimAttempt and executeStage).
AtMostOnePaidCall == \A j \in Jobs : calls[j] <= 1

\* A project never has two active jobs.  The unique index of the database is
\* not part of the model: the checks of the requests suffice, also for
\* enqueue, which looks only for a staging draft.
AtMostOneActiveJob == \A j, k \in Jobs : Active(j) /\ Active(k) => j = k

\* An active job always works on the staging draft, at a position where its
\* stage can run: no request moves the draft under a queued or running job.
ActiveJobFitsDraft ==
  \A j \in Jobs : Active(j) => /\ Staging(job[j].version)
                               /\ CanRun(version[job[j].version], job[j].stage)

\* A project is never left GENERATING with no job that could change it
\* (repairFailedStage, the cleanup of executeStage, the commit).
GeneratingHasActiveJob == project.status = "GENERATING" => ~NoActiveJob

\* With a draft open and no job active, the project asks for a review of
\* exactly the stage the draft stands at, so the writer can go on.
IdleProjectMatchesDraft ==
  \A v \in Versions : Staging(v) /\ NoActiveJob =>
     project.status = "REVIEWING" /\ project.stage = version[v].stage

\* A job that has ended has no run left open (the promise made for
\* repairFailedStage: never a FAILED job with a RUNNING run).
EndedJobHasNoOpenRun ==
  \A r \in runs : Terminal(r.job) => r.status # "RUNNING"

\* A run is COMPLETED exactly when its job SUCCEEDED: a result is never
\* stored for a job that ends FAILED, nor success reported without one.
ResultIffSucceeded ==
  \A j \in Jobs : job[j].status = "SUCCEEDED"
                    <=> \E r \in runs : r.job = j /\ r.status = "COMPLETED"

\* What a draft holds for a stage was written by the user or by the latest
\* job that SUCCEEDED on it: a late answer of a stopped attempt never
\* replaces newer content or an edit.
ContentFromLatestResult ==
  \A v \in Versions, s \in Stages :
    LET c == version[v].content[s]
        done == {j \in Jobs : /\ job[j].status = "SUCCEEDED"
                              /\ job[j].version = v /\ job[j].stage = s}
    IN /\ c = 0 => done = {}
       /\ c \in Jobs => /\ c \in done
                        /\ \A k \in done : job[k].queuedAt <= job[c].queuedAt

\* Searching runs by version, stage and time finds the runs of that very job,
\* neither those of an earlier nor of a later one.
WindowFindsOwnRuns ==
  \A j \in Jobs :
    LET own == {r \in runs : r.job = j}
    IN /\ Active(j) => WindowRuns(j) = own
       /\ Terminal(j) => {r \in WindowRuns(j) : r.startedAt <= job[j].completedAt} = own

\* A version that was generated and published is credited to exactly one
\* successful job of the last stage; any other version to none.
PublishedVersionHasResult ==
  \A v \in Versions :
    LET credited == {j \in Jobs : job[j].result = v}
    IN /\ version[v].status \in {"ABSENT", "STAGING"} => credited = {}
       /\ \A j, k \in credited : j = k
       /\ \A j \in credited : /\ job[j].status = "SUCCEEDED" /\ job[j].version = v
                              /\ job[j].stage = NumStages
       /\ (\E j \in Jobs : job[j].version = v) /\ version[v].status \in {"ACTIVE", "SUPERSEDED"}
            => credited # {}

\* Results obtained again for a stage that already had one are paid for with
\* the project's regenerations: confirming again never buys one.
RepeatedResultsBounded ==
  LET done == {j \in Jobs : job[j].status = "SUCCEEDED"}
  IN LocalUnlimited \/
     Cardinality(done) <= Cardinality({<<job[j].version, job[j].stage>> : j \in done})
                          + RegenerationLimit

\* Two jobs of the same project never have a paid call in flight at once.
NoOverlap ==
  \A h, i \in Handlers :
    handler[h].pc = "provider" /\ handler[i].pc = "provider" => JobOf(h) = JobOf(i)

-----------------------------------------------------------------------------
(* Steps. *)

\* SUCCEEDED and FAILED are final: nothing but the credit for a published
\* version is written to the job again, so its last event stays its last
\* event and a stale snapshot never overwrites an outcome.
TerminalIsFinal ==
  [][\A j \in Jobs : Terminal(j) => [job[j] EXCEPT !.result = 0] = [job'[j] EXCEPT !.result = 0]]_vars

-----------------------------------------------------------------------------
(* The abstract promise. *)

PhaseOf(j) == CASE job[j].status = "ABSENT" -> "absent"
                [] Active(j) -> "open"
                [] job[j].status = "SUCCEEDED" -> "done"
                [] job[j].status = "FAILED" -> "failed"

\* The run row is the permit; the call spends it.
PermitOf(j) == IF calls[j] > 0 THEN "spent"
               ELSE IF \E r \in runs : r.job = j THEN "granted" ELSE "none"

Paid == INSTANCE PaidStage WITH phase <- [j \in Jobs |-> PhaseOf(j)],
                                permit <- [j \in Jobs |-> PermitOf(j)]

\* Redelivery, retries, crashes and reconciliation all implement the simple
\* protocol of PaidStage: one open job, one permit, one payment.
ImplementsPaidStage == Paid!Spec

-----------------------------------------------------------------------------
(* Liveness. *)

\* pg-boss delivers what can be delivered and expires what nobody works on;
\* every await of a handler ends; a client that watches the project keeps
\* reading its jobs and the grace period runs out.
Fairness ==
  /\ \A j \in Jobs : WF_vars(\E h \in Handlers : Deliver(h, j))
  /\ \A h \in Handlers : WF_vars(HandlerStep(h))
  /\ \A j \in Jobs : WF_vars(Orphaned(j) /\ LoseDelivery(j))
  /\ \A r \in Readers : WF_vars(ReaderStep(r))
  /\ \A r \in Readers, j \in Jobs : SF_vars(ReadJob(r, j))
  /\ \A r \in Readers : SF_vars(JudgeGrace(r) /\ ReaderGoto(r, "fail"))

FairSpec == Spec /\ Fairness

\* Every job that is queued ends, SUCCEEDED or FAILED, whatever fails on the way.
ActiveJobEnds == \A j \in Jobs : Active(j) ~> Terminal(j)
=============================================================================
