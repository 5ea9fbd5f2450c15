--------------------------- MODULE GenerationJobs ---------------------------
(***************************************************************************)
(* The life of the generation jobs of ONE project: the writer's requests   *)
(* that create jobs (GenerationJobsService), the worker that runs a        *)
(* delivered job one await at a time (process and executeStage), the       *)
(* readers that repair a job pg-boss gave up on, and what can go wrong     *)
(* underneath them: transactions that abort, commits whose                 *)
(* acknowledgement is lost, lost heartbeats and a crash of the process.    *)
(*                                                                         *)
(* Each database transaction is one step; every await between two of them  *)
(* is a point where any other actor may run.  Timestamps are a logical     *)
(* clock that advances when a job or a run is inserted.                    *)
(***************************************************************************)
EXTENDS Integers, FiniteSets, StageWorkflow, GenerationQueue

CONSTANTS
  Handlers,           \* concurrent executions of process()
  Readers,            \* concurrent GET/SSE requests that reconcile a job
  MaxVersions,        \* bound: drafts the project may ever have
  Concurrency,        \* GENERATION_CONCURRENCY, the slots of one API process
  RegenerationLimit,  \* PROJECT_REGENERATIONS_MAX
  LocalUnlimited,     \* LOCAL_UNLIMITED_MODE
  TrendInspired,      \* project.mode = TREND_INSPIRED
  MaxFaults           \* bound: failures of the environment in one behaviour

ASSUME JobsAssumption ==
  /\ MaxVersions \in Nat /\ Concurrency \in Nat /\ RegenerationLimit \in Nat
  /\ MaxFaults \in Nat /\ LocalUnlimited \in BOOLEAN /\ TrendInspired \in BOOLEAN

VARIABLES
  project,   \* the Project row
  version,   \* GenerationVersion rows
  job,       \* GenerationJob rows
  runs,      \* GenerationRun rows; a run is named by its startedAt
  handler,   \* where each execution of process() stands
  reader,    \* where each reconciling request stands, with the snapshot it read
  riskLow,   \* the linked trend's riskLevel = LOW
  clock,     \* the last timestamp handed out
  calls,     \* history: paid stage executions started for each job
  faults     \* failures that happened so far

dbVars == <<project, version, job, runs>>
vars == <<dbVars, queue, handler, reader, riskLow, clock, calls, faults>>

Versions == 1..MaxVersions
Edited == MaxJobs + 1           \* content written by the user, not by a job
Blank == [s \in Stages |-> 0]   \* a draft with no content

JobStatus == {"ABSENT", "QUEUED", "RUNNING", "RETRYING", "SUCCEEDED", "FAILED"}
ActiveStatuses == {"QUEUED", "RUNNING", "RETRYING"}
TerminalStatuses == {"SUCCEEDED", "FAILED"}

\* The awaits of process() and executeStage(), in program order.
HandlerPCs == {"idle", "load", "claim", "trend", "stop", "plan", "boundary",
               "generate", "provider", "commit", "cleanup", "settle", "ack", "nack"}
\* From acquireGenerationSlot to the finally that releases it.
SlotPCs == HandlerPCs \ {"idle", "load", "ack", "nack"}

\* A handler with nothing in memory but the delivery it was given.
HandlerAt(pc, j, retry) ==
  [pc |-> pc, job |-> j, retry |-> retry, prev |-> 0, run |-> 0, err |-> "none"]
IdleHandler == HandlerAt("idle", 0, 0)
IdleReader == [pc |-> "idle", job |-> 0, status |-> "ABSENT", attempt |-> 0, seq |-> 0]

NoVersion == [status |-> "ABSENT", stage |-> IDEA, confirmed |-> NoStage, content |-> Blank]
NewDraft == [NoVersion EXCEPT !.status = "STAGING"]
\* captureCurrentVersion: content from before versions existed.
CapturedVersion == [status |-> "ACTIVE", stage |-> NumStages, confirmed |-> NumStages,
                    content |-> [s \in Stages |-> Edited]]
NoJob == [status |-> "ABSENT", version |-> 0, stage |-> 0, attempt |-> 0, seq |-> 0,
          queuedAt |-> 0, completedAt |-> 0, result |-> 0]
QueuedJob(v, s, now) == [status |-> "QUEUED", version |-> v, stage |-> s, attempt |-> 0, seq |-> 1,
                         queuedAt |-> now, completedAt |-> 0, result |-> 0]

-----------------------------------------------------------------------------
(* Predicates on the rows. *)

Active(j) == job[j].status \in ActiveStatuses
Terminal(j) == job[j].status \in TerminalStatuses

\* Variant that overlooks jobs that wait in the queue.
NoRunningJob == \A j \in Jobs : job[j].status # "RUNNING"

NoActiveJob == \A j \in Jobs : ~Active(j)
Staging(v) == version[v].status = "STAGING"

\* Rows are allocated in order.
FreshJob(j) == job[j].status = "ABSENT" /\ \A k \in Jobs : k < j => job[k].status # "ABSENT"
FreshVersion(v) == /\ version[v].status = "ABSENT"
                   /\ \A w \in Versions : w < v => version[w].status # "ABSENT"

TrendAllowed == TrendInspired => riskLow

JobOf(h) == handler[h].job
Attempt(h) == handler[h].retry + 1

\* Variant that ignores that the job may have ended.
OwnsAttempt(h) == job[JobOf(h)].attempt = Attempt(h)

\* The compare-and-set every write of a worker starts with.
Owns(h) == job[JobOf(h)].status = "RUNNING" /\ job[JobOf(h)].attempt = Attempt(h)

\* Variant without the start of the time window.
WindowRunsAnyTime(j) == {r \in runs : r.version = job[j].version /\ r.stage = job[j].stage}

\* Runs carry no job id: a job finds its own by version, stage and time.
WindowRuns(j) == {r \in runs : /\ r.version = job[j].version
                               /\ r.stage = job[j].stage
                               /\ r.startedAt >= job[j].queuedAt}

SlotsInUse == Cardinality({h \in Handlers : handler[h].pc \in SlotPCs})

-----------------------------------------------------------------------------
Init ==
  /\ project \in {[status |-> "DRAFT", stage |-> IDEA, regens |-> 0, active |-> 0,
                   content |-> c] : c \in BOOLEAN}
  /\ version = [v \in Versions |-> NoVersion]
  /\ job = [j \in Jobs |-> NoJob]
  /\ runs = {}
  /\ queue = EmptyQueue
  /\ handler = [h \in Handlers |-> IdleHandler]
  /\ reader = [r \in Readers |-> IdleReader]
  /\ riskLow = TRUE
  /\ clock = 0
  /\ calls = [j \in Jobs |-> 0]
  /\ faults = 0

-----------------------------------------------------------------------------
(* Requests of the writer: one serializable transaction each. *)

\* createQueuedJob: the business row and the queue row in one transaction.
CreateQueuedJob(j, v, s) ==
  /\ FreshJob(j)
  /\ TrendAllowed
  /\ job' = [job EXCEPT ![j] = QueuedJob(v, s, clock + 1)]
  /\ queue' = Sent(j)
  /\ clock' = clock + 1

NeedsCapture == project.content /\ project.active = 0

\* enqueue + prepareDraft: open a draft and queue its first stage.  There is
\* no look at the active jobs here, only at the staging draft.
Enqueue(j, v) ==
  /\ \A w \in Versions : ~Staging(w)
  /\ IF NeedsCapture
     THEN /\ v - 1 \in Versions /\ FreshVersion(v - 1)
          /\ version' = [version EXCEPT ![v - 1] = CapturedVersion, ![v] = NewDraft]
          /\ project' = [project EXCEPT !.status = "GENERATING", !.stage = 1, !.active = v - 1]
     ELSE /\ FreshVersion(v)
          /\ version' = [version EXCEPT ![v] = NewDraft]
          /\ project' = [project EXCEPT !.status = "GENERATING", !.stage = 1]
  /\ CreateQueuedJob(j, v, 1)
  /\ UNCHANGED <<runs, handler, reader, riskLow, calls, faults>>

\* regenerateStage: run the stage under review again, within the limit.
RegenerateStage(j, v, s) ==
  /\ NoActiveJob
  /\ Staging(v)
  /\ RetriesFirstStage(version[v], s) \/ version[v].stage = s
  /\ version[v].confirmed # s
  /\ LET free == RetriesFirstStage(version[v], s) \/ LocalUnlimited
     IN /\ free \/ project.regens < RegenerationLimit
        /\ project' = [project EXCEPT !.status = "GENERATING", !.stage = s,
                                      !.regens = IF free THEN @ ELSE @ + 1]
  /\ CreateQueuedJob(j, v, s)
  /\ UNCHANGED <<version, runs, handler, reader, riskLow, calls, faults>>

\* confirmStage before the last stage: confirm s and queue the next one.  A
\* stage already confirmed may be confirmed again, which retries a failed
\* next stage.
ConfirmStage(j, v, s) ==
  /\ NoActiveJob
  /\ Staging(v) /\ version[v].stage = s /\ NextStage(s) # NoStage
  /\ version' = [version EXCEPT ![v].confirmed = s]
  /\ CreateQueuedJob(j, v, NextStage(s))
  /\ project' = [project EXCEPT !.status = "GENERATING", !.stage = NextStage(s)]
  /\ UNCHANGED <<runs, handler, reader, riskLow, calls, faults>>

\* Variant that takes the latest job of the last stage whatever its outcome.
LatestScriptJobs(v) ==
  LET done == {j \in Jobs : job[j].version = v /\ job[j].stage = NumStages}
  IN {j \in done : \A k \in done : job[k].completedAt <= job[j].completedAt}

\* The SUCCEEDED job of the last stage that confirmStage credits with v.
ResultJobs(v) ==
  LET done == {j \in Jobs : /\ job[j].version = v /\ job[j].stage = NumStages
                            /\ job[j].status = "SUCCEEDED"}
  IN {j \in done : \A k \in done : job[k].completedAt <= job[j].completedAt}

\* activateDraft: the draft becomes the project's current version.
ActivatedVersions(v) ==
  [w \in Versions |->
     IF w = v
     THEN [version[w] EXCEPT !.status = "ACTIVE", !.confirmed = NumStages]
     ELSE IF w = project.active /\ version[w].status = "ACTIVE"
          THEN [version[w] EXCEPT !.status = "SUPERSEDED"]
          ELSE version[w]]

\* confirmStage on the last stage: publish the draft.
ConfirmScript(v) ==
  /\ NoActiveJob
  /\ Staging(v) /\ version[v].stage = NumStages
  /\ TrendAllowed
  /\ version' = ActivatedVersions(v)
  /\ project' = [project EXCEPT !.active = v, !.status = "READY", !.stage = COMPLETE,
                                !.content = TRUE]
  /\ IF ResultJobs(v) = {}
     THEN job' = job
     ELSE \E j \in ResultJobs(v) : job' = [job EXCEPT ![j].result = v]
  /\ UNCHANGED <<runs, queue, handler, reader, riskLow, clock, calls, faults>>

\* updateStage: the writer edits the stage under review.
UpdateStage(v, s) ==
  /\ Staging(v) /\ AwaitsReview(version[v], s)
  /\ NoActiveJob
  /\ version' = [version EXCEPT ![v].content[s] = Edited]
  /\ UNCHANGED <<project, job, runs, queue, handler, reader, riskLow, clock, calls, faults>>

UserRequest ==
  \/ \E j \in Jobs, v \in Versions : Enqueue(j, v)
  \/ \E j \in Jobs, v \in Versions, s \in Stages : RegenerateStage(j, v, s)
  \/ \E j \in Jobs, v \in Versions, s \in Stages : ConfirmStage(j, v, s)
  \/ \E v \in Versions : ConfirmScript(v)
  \/ \E v \in Versions, s \in Stages : UpdateStage(v, s)

-----------------------------------------------------------------------------
(* Writing the end of a job. *)

\* Every run of j still open in its time window is closed.
RunsClosed(j, until) ==
  {IF /\ r \in WindowRuns(j) /\ r.startedAt <= until /\ r.status = "RUNNING"
   THEN [r EXCEPT !.status = "FAILED"] ELSE r : r \in runs}

\* Variant that counts the failing job itself, as when the project is
\* repaired before the job is updated.
ProjectRepairedEarly(j) ==
  IF project.status = "GENERATING" /\ \A k \in Jobs : ~Active(k)
  THEN [project EXCEPT !.status = "REVIEWING", !.stage = StableStage(version[job[j].version])]
  ELSE project

\* A project left GENERATING by j goes back to the draft's last stage, unless
\* another job is active.
ProjectRepaired(j) ==
  IF project.status = "GENERATING" /\ \A k \in Jobs \ {j} : ~Active(k)
  THEN [project EXCEPT !.status = "REVIEWING",
                       !.stage = IF job[j].version \in Versions
                                 THEN StableStage(version[job[j].version]) ELSE IDEA]
  ELSE project

\* Variant that leaves the runs alone.
FailJobOnly(j) ==
  /\ job' = [job EXCEPT ![j].status = "FAILED", ![j].completedAt = clock, ![j].seq = @ + 1]
  /\ runs' = runs
  /\ project' = ProjectRepaired(j)
  /\ UNCHANGED version

\* repairFailedStage, in the transaction that makes j FAILED.
FailJob(j) ==
  /\ job' = [job EXCEPT ![j].status = "FAILED", ![j].completedAt = clock, ![j].seq = @ + 1]
  /\ runs' = RunsClosed(j, clock)
  /\ project' = ProjectRepaired(j)
  /\ UNCHANGED version

-----------------------------------------------------------------------------
(* Control of one execution of process(). *)

Fault == faults < MaxFaults /\ faults' = faults + 1
NoFault == UNCHANGED faults

Goto(h, pc) == handler' = [handler EXCEPT ![h].pc = pc]
Throw(h, pc, e) == handler' = [handler EXCEPT ![h].pc = pc, ![h].err = e]
\* Leave process(): return means pg-boss completes the row, throw that it fails it.
Leave(h, pc) == handler' = [handler EXCEPT ![h] = HandlerAt(pc, JobOf(h), handler[h].retry)]

\* pg-boss hands row j to a free worker.
Deliver(h, j) ==
  /\ handler[h].pc = "idle" /\ Fetchable(j)
  /\ queue' = Fetched(j)
  /\ handler' = [handler EXCEPT ![h] = HandlerAt("load", j, queue'[j].retry)]
  /\ UNCHANGED <<dbVars, reader, riskLow, clock, calls, faults>>

\* Read the job; a terminal one is acknowledged, a missing slot throws
\* outside the try.
LoadJob(h) ==
  /\ handler[h].pc = "load"
  /\ IF Terminal(JobOf(h)) THEN Leave(h, "ack")
     ELSE IF SlotsInUse < Concurrency THEN Goto(h, "claim")
     ELSE Leave(h, "nack")
  /\ UNCHANGED <<dbVars, queue, reader, riskLow, clock, calls, faults>>

Claimable(j, retry) ==
  \/ job[j].status = "QUEUED" /\ job[j].attempt = 0
  \/ job[j].status \in {"RETRYING", "RUNNING"} /\ job[j].attempt <= retry

\* claimAttempt.  When the commit's answer is lost the error goes back to pg-boss.
ClaimAttempt(h) ==
  /\ handler[h].pc = "claim"
  /\ IF Claimable(JobOf(h), handler[h].retry)
     THEN /\ job' = [job EXCEPT ![JobOf(h)].status = "RUNNING",
                                ![JobOf(h)].attempt = Attempt(h),
                                ![JobOf(h)].completedAt = 0, ![JobOf(h)].seq = @ + 1]
          /\ \/ Goto(h, "trend") /\ NoFault
             \/ Leave(h, "nack") /\ Fault
     ELSE job' = job /\ Leave(h, "ack") /\ NoFault
  /\ UNCHANGED <<project, version, runs, queue, reader, riskLow, clock, calls>>

\* assertTrendGenerationAllowed outside any transaction.
CheckTrend(h) ==
  /\ handler[h].pc = "trend"
  /\ IF TrendAllowed THEN Goto(h, "stop") ELSE Throw(h, "settle", "blocked")
  /\ UNCHANGED <<dbVars, queue, reader, riskLow, clock, calls, faults>>

\* Variant that stops only while the earlier run is still open.
StopWhileRunOpen(h) ==
  /\ handler[h].pc = "stop"
  /\ IF \A r \in WindowRuns(JobOf(h)) : r.status # "RUNNING"
     THEN Goto(h, "plan") /\ NoFault /\ UNCHANGED dbVars
     ELSE IF Active(JobOf(h)) /\ job[JobOf(h)].attempt = Attempt(h)
     THEN FailJob(JobOf(h)) /\ Leave(h, "ack") /\ NoFault
     ELSE Leave(h, "ack") /\ NoFault /\ UNCHANGED dbVars
  /\ UNCHANGED <<queue, reader, riskLow, clock, calls>>

\* stopPreviouslyAttemptedJob: a run of an earlier attempt may have been paid.
StopPrevious(h) ==
  /\ handler[h].pc = "stop"
  /\ IF WindowRuns(JobOf(h)) = {}
     THEN Goto(h, "plan") /\ NoFault /\ UNCHANGED dbVars
     ELSE IF Active(JobOf(h)) /\ job[JobOf(h)].attempt = Attempt(h)
     THEN /\ FailJob(JobOf(h))
          /\ \/ Leave(h, "ack") /\ NoFault
             \/ Throw(h, "settle", "retryable") /\ Fault
     ELSE Leave(h, "ack") /\ NoFault /\ UNCHANGED dbVars
  /\ UNCHANGED <<queue, reader, riskLow, clock, calls>>

\* executeStage reads the draft and checks that the stage can run; an error
\* here is not cleaned up by executeStage.
PlanStage(h) ==
  /\ handler[h].pc = "plan"
  /\ LET v == version[job[JobOf(h)].version]
     IN IF v.status = "STAGING" /\ CanRun(v, job[JobOf(h)].stage)
        THEN handler' = [handler EXCEPT ![h].pc = "boundary", ![h].prev = v.stage]
        ELSE Throw(h, "settle", "retryable")
  /\ UNCHANGED <<dbVars, queue, reader, riskLow, clock, calls, faults>>

NewRun(h, t) == [startedAt |-> t, version |-> job[JobOf(h)].version,
                 stage |-> job[JobOf(h)].stage, status |-> "RUNNING", job |-> JobOf(h)]

\* The transaction before the provider: still the owner, project GENERATING,
\* stage:start event and the Run.
OpenRun(h) ==
  /\ handler[h].pc = "boundary"
  /\ IF Owns(h)
     THEN /\ project' = [project EXCEPT !.status = "GENERATING", !.stage = job[JobOf(h)].stage]
          /\ job' = [job EXCEPT ![JobOf(h)].seq = @ + 1]
          /\ runs' = runs \cup {NewRun(h, clock + 1)}
          /\ clock' = clock + 1
          /\ \/ /\ handler' = [handler EXCEPT ![h].pc = "generate", ![h].run = clock + 1]
                /\ NoFault
             \/ Throw(h, "cleanup", "retryable") /\ Fault
     ELSE /\ Leave(h, "ack") /\ NoFault
          /\ UNCHANGED <<project, job, runs, clock>>
  /\ UNCHANGED <<version, queue, reader, riskLow, calls>>

\* The paid request leaves the process.
CallProvider(h) ==
  /\ handler[h].pc = "generate"
  /\ calls' = [calls EXCEPT ![JobOf(h)] = @ + 1]
  /\ Goto(h, "provider")
  /\ UNCHANGED <<dbVars, queue, reader, riskLow, clock, faults>>

\* It answers with usable content, or fails in a way that is never retried.
ProviderAnswers(h) ==
  /\ handler[h].pc = "provider"
  /\ Goto(h, "commit") \/ Throw(h, "cleanup", "fatal")
  /\ UNCHANGED <<dbVars, queue, reader, riskLow, clock, calls, faults>>

RunCompleted(h) == {IF r.startedAt = handler[h].run THEN [r EXCEPT !.status = "COMPLETED"]
                    ELSE r : r \in runs}

\* Version, Run, Project and Job together.
PersistResult(h) ==
  LET j == JobOf(h)
  IN /\ version' = [version EXCEPT ![job[j].version].stage = job[j].stage,
                                   ![job[j].version].content[job[j].stage] = j]
     /\ runs' = RunCompleted(h)
     /\ project' = [project EXCEPT !.status = "REVIEWING", !.stage = job[j].stage]
     /\ job' = [job EXCEPT ![j].status = "SUCCEEDED", ![j].completedAt = clock, ![j].seq = @ + 2]

\* Variant that completes the run of a lost attempt, too.
CommitLateRun(h) ==
  /\ handler[h].pc = "commit"
  /\ IF Owns(h) THEN PersistResult(h)
     ELSE runs' = RunCompleted(h) /\ UNCHANGED <<project, version, job>>
  /\ Leave(h, "ack") /\ NoFault
  /\ UNCHANGED <<queue, reader, riskLow, clock, calls>>

\* The serializable transaction that persists the result: nothing but
\* telemetry for a lost attempt, a rollback for a trend that needs review.
CommitResult(h) ==
  /\ handler[h].pc = "commit"
  /\ IF ~Owns(h) THEN Leave(h, "ack") /\ NoFault /\ UNCHANGED dbVars
     ELSE IF ~TrendAllowed THEN Throw(h, "cleanup", "blocked") /\ NoFault /\ UNCHANGED dbVars
     ELSE /\ PersistResult(h)
          /\ \/ Leave(h, "ack") /\ NoFault
             \/ Throw(h, "cleanup", "fatal") /\ Fault
  /\ UNCHANGED <<queue, reader, riskLow, clock, calls>>

\* Variant that leaves the project at the stage that failed.
CleanUpInPlace(h) ==
  /\ handler[h].pc = "cleanup"
  /\ IF Owns(h)
     THEN /\ runs' = {IF r.startedAt = handler[h].run /\ r.status = "RUNNING"
                      THEN [r EXCEPT !.status = "FAILED"] ELSE r : r \in runs}
          /\ project' = [project EXCEPT !.status = "REVIEWING"]
     ELSE UNCHANGED <<runs, project>>
  /\ Goto(h, "settle")
  /\ UNCHANGED <<version, job, queue, reader, riskLow, clock, calls, faults>>

\* executeStage's catch: put the project back, if the attempt is still owned.
CleanUp(h) ==
  /\ handler[h].pc = "cleanup"
  /\ IF Owns(h)
     THEN /\ runs' = {IF r.startedAt = handler[h].run /\ r.status = "RUNNING"
                      THEN [r EXCEPT !.status = "FAILED"] ELSE r : r \in runs}
          /\ project' = [project EXCEPT !.status = "REVIEWING", !.stage = handler[h].prev]
     ELSE UNCHANGED <<runs, project>>
  /\ Goto(h, "settle")
  /\ UNCHANGED <<version, job, queue, reader, riskLow, clock, calls, faults>>

\* process()'s catch: RETRYING while pg-boss has retries left, otherwise FAILED.
Settle(h) ==
  /\ handler[h].pc = "settle"
  /\ LET j == JobOf(h)
         retryable == handler[h].err = "retryable"
     IN IF Active(j) /\ job[j].attempt = Attempt(h)
        THEN /\ IF retryable /\ handler[h].retry < RetryLimit
                THEN /\ job' = [job EXCEPT ![j].status = "RETRYING", ![j].completedAt = 0,
                                           ![j].seq = @ + 1]
                     /\ UNCHANGED <<project, version, runs>>
                ELSE FailJob(j)
             /\ Leave(h, IF retryable THEN "nack" ELSE "ack")
        ELSE Leave(h, "ack") /\ UNCHANGED dbVars
  /\ UNCHANGED <<queue, reader, riskLow, clock, calls, faults>>

\* pg-boss completes or fails the row of the handler that left.
Acknowledge(h) ==
  /\ handler[h].pc \in {"ack", "nack"}
  /\ queue' = IF handler[h].pc = "ack" THEN Completed(JobOf(h)) ELSE Failed(JobOf(h))
  /\ handler' = [handler EXCEPT ![h] = IdleHandler]
  /\ UNCHANGED <<dbVars, reader, riskLow, clock, calls, faults>>

\* A step fails without any effect on the database.
StepFails(h) ==
  /\ Fault
  /\ \/ handler[h].pc \in {"load", "claim"} /\ Leave(h, "nack")
     \/ handler[h].pc \in {"trend", "stop", "plan"} /\ Throw(h, "settle", "retryable")
     \/ handler[h].pc = "boundary" /\ Throw(h, "cleanup", "retryable")
     \/ handler[h].pc = "commit" /\ Throw(h, "cleanup", "fatal")
     \/ handler[h].pc = "cleanup" /\ Goto(h, "settle")
     \/ /\ handler[h].pc = "settle"
        /\ Leave(h, IF handler[h].err = "retryable" THEN "nack" ELSE "ack")
     \/ handler[h].pc \in {"ack", "nack"} /\ handler' = [handler EXCEPT ![h] = IdleHandler]
  /\ UNCHANGED <<dbVars, queue, reader, riskLow, clock, calls>>

HandlerStep(h) ==
  \/ LoadJob(h) \/ ClaimAttempt(h) \/ CheckTrend(h) \/ StopPrevious(h) \/ PlanStage(h)
  \/ OpenRun(h) \/ CallProvider(h) \/ ProviderAnswers(h) \/ CommitResult(h)
  \/ CleanUp(h) \/ Settle(h) \/ Acknowledge(h)

-----------------------------------------------------------------------------
(* Reconciling readers: GET job, GET active job and the SSE loop. *)

ReaderStatus(r) == reader[r].status

\* Variant that compares the attempt only.
SameAttempt(r) == job[reader[r].job].attempt = reader[r].attempt

\* The compare-and-set of a reader.
StillAsRead(r) ==
  LET j == reader[r].job
  IN /\ job[j].status = reader[r].status /\ job[j].attempt = reader[r].attempt
     /\ job[j].seq = reader[r].seq
ReaderDone(r) == reader' = [reader EXCEPT ![r] = IdleReader]
ReaderGoto(r, pc) == reader' = [reader EXCEPT ![r].pc = pc]

\* Take the snapshot.
ReadJob(r, j) ==
  /\ reader[r].pc = "idle"
  /\ Active(j) \/ job[j].status = "FAILED"
  /\ reader' = [reader EXCEPT ![r] = [pc |-> IF Active(j) THEN "queue" ELSE "repair",
                                      job |-> j, status |-> job[j].status,
                                      attempt |-> job[j].attempt, seq |-> job[j].seq]]
  /\ UNCHANGED <<dbVars, queue, handler, riskLow, clock, calls, faults>>

\* Look at the queue row.
ReadQueueRow(r) ==
  /\ reader[r].pc = "queue"
  /\ IF QueueGaveUp(reader[r].job) THEN ReaderGoto(r, "grace")
     ELSE IF queue[reader[r].job].state = "retry" /\ ReaderStatus(r) # "RETRYING"
     THEN ReaderGoto(r, "mark")
     ELSE ReaderDone(r)
  /\ UNCHANGED <<dbVars, queue, handler, riskLow, clock, calls, faults>>

\* shouldDeferTerminalReconciliation holds back while a run is open, or no
\* run was created yet, for as long as the grace period lasts.
MayDefer(r) ==
  LET own == WindowRuns(reader[r].job)
  IN /\ ReaderStatus(r) = "RUNNING"
     /\ \A x \in own : (\A y \in own : y.startedAt <= x.startedAt) => x.status = "RUNNING"

JudgeGrace(r) ==
  /\ reader[r].pc = "grace"
  /\ ReaderGoto(r, "fail") \/ (MayDefer(r) /\ ReaderDone(r))
  /\ UNCHANGED <<dbVars, queue, handler, riskLow, clock, calls, faults>>

\* The job will not be delivered again: FAILED, if it is still as it was read.
FailUndelivered(r) ==
  /\ reader[r].pc = "fail"
  /\ IF StillAsRead(r) THEN FailJob(reader[r].job) ELSE UNCHANGED dbVars
  /\ ReaderDone(r)
  /\ UNCHANGED <<queue, handler, riskLow, clock, calls, faults>>

\* pg-boss is about to retry: show it, without a new event.
MarkRetrying(r) ==
  /\ reader[r].pc = "mark"
  /\ IF StillAsRead(r) THEN job' = [job EXCEPT ![reader[r].job].status = "RETRYING"]
                       ELSE job' = job
  /\ ReaderDone(r)
  /\ UNCHANGED <<project, version, runs, queue, handler, riskLow, clock, calls, faults>>

\* repairTerminalFailedConsistency: close what a FAILED job left open.
RepairFailed(r) ==
  /\ reader[r].pc = "repair"
  /\ LET j == reader[r].job
     IN IF StillAsRead(r)
        THEN runs' = RunsClosed(j, job[j].completedAt) /\ project' = ProjectRepaired(j)
        ELSE UNCHANGED <<runs, project>>
  /\ ReaderDone(r)
  /\ UNCHANGED <<version, job, queue, handler, riskLow, clock, calls, faults>>

ReaderStep(r) ==
  ReadQueueRow(r) \/ JudgeGrace(r) \/ FailUndelivered(r) \/ MarkRetrying(r) \/ RepairFailed(r)

-----------------------------------------------------------------------------
(* The environment. *)

Orphaned(j) == \A h \in Handlers : handler[h].job # j

\* The delivery's heartbeat or expiry ran out.  It costs a fault when a
\* handler still works on the job.
LoseDelivery(j) ==
  /\ queue[j].state = "active"
  /\ queue' = Failed(j)
  /\ IF Orphaned(j) THEN NoFault ELSE Fault
  /\ UNCHANGED <<dbVars, handler, reader, riskLow, clock, calls>>

\* The API process dies with everything it holds in memory.
Crash ==
  /\ \E h \in Handlers : handler[h].pc # "idle"
  /\ Fault
  /\ handler' = [h \in Handlers |-> IdleHandler]
  /\ reader' = [r \in Readers |-> IdleReader]
  /\ UNCHANGED <<dbVars, queue, riskLow, clock, calls>>

\* A refresh or a reviewer changes the risk of the linked trend.
ReviewTrend ==
  /\ TrendInspired
  /\ riskLow' = ~riskLow
  /\ UNCHANGED <<dbVars, queue, handler, reader, clock, calls, faults>>

Next ==
  \/ UserRequest
  \/ \E h \in Handlers, j \in Jobs : Deliver(h, j)
  \/ \E h \in Handlers : HandlerStep(h)
  \/ \E h \in Handlers : StepFails(h)
  \/ \E r \in Readers, j \in Jobs : ReadJob(r, j)
  \/ \E r \in Readers : ReaderStep(r)
  \/ \E j \in Jobs : LoseDelivery(j)
  \/ Crash
  \/ ReviewTrend

Spec == Init /\ [][Next]_vars
=============================================================================
