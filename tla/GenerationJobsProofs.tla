------------------------ MODULE GenerationJobsProofs ------------------------
(***************************************************************************)
(* Proofs about GenerationJobs for any number of jobs, stages, versions,   *)
(* handlers, readers, retries and failures, in four parts:                 *)
(*   1. types, and the calls of the model a run has paid for;              *)
(*   2. the rows of Project, Version, Job and Run agree;                   *)
(*   3. drafts, their content and their credit;                            *)
(*   4. the generation jobs implement PaidStage.                           *)
(***************************************************************************)
EXTENDS GenerationSafety, TLAPS, FiniteSetTheorems

-----------------------------------------------------------------------------
(* Type correctness.  The retry count of a row stays within the limit      *)
(* because only a row below it goes to `retry`; a run has a draft and a    *)
(* stage because whoever works on a job works on one that exists.          *)

RetryBelowLimit == \A j \in Jobs : queue[j].state = "retry" => queue[j].retry < RetryLimit

RowsExist ==
  /\ \A j \in Jobs : queue[j].state # "absent" => job[j].status # "ABSENT"
  /\ \A h \in Handlers : handler[h].pc # "idle" => job[JobOf(h)].status # "ABSENT"
  /\ \A r \in Readers : reader[r].pc # "idle" => job[reader[r].job].status # "ABSENT"

TypeInv == TypeOK /\ RetryBelowLimit /\ RowsExist

\* The constants, as the proofs use them.
LEMMA ConstantFacts ==
  /\ NumStages \in Nat /\ NumStages >= 1 /\ MaxJobs \in Nat /\ RetryLimit \in Nat
  /\ MaxVersions \in Nat
  /\ 1 \in Stages /\ NumStages \in Stages
  /\ \A s \in Stages : NextStage(s) # NoStage => NextStage(s) \in Stages
  /\ 0 \in Positions /\ COMPLETE \in Positions /\ Stages \subseteq 0..NumStages
  /\ 0..NumStages \subseteq Positions
  /\ Jobs \subseteq 0..MaxJobs /\ Versions \subseteq 0..MaxVersions
  /\ Edited \in 0..Edited /\ Jobs \subseteq 0..Edited /\ 0 \in 0..Edited
  BY StageAssumption, QueueAssumption, JobsAssumption
  DEF Stages, NextStage, NoStage, Positions, COMPLETE, Jobs, Versions, Edited

LEMMA InitType == Init => TypeInv
<1> SUFFICES ASSUME Init PROVE TypeInv OBVIOUS
<1> USE ConstantFacts
<1>1. TypeOK
  BY DEF Init, TypeOK, ProjectType, VersionType, JobType, RunType, HandlerType, ReaderType,
         QueueTypeOK, EmptyQueue, QueueStates, NoVersion, NoJob, IdleHandler, HandlerAt,
         IdleReader, Blank,
         ProjectStatus, VersionStatus, JobStatus, HandlerPCs, JobOf, IDEA, NoStage
<1>2. RetryBelowLimit
  BY DEF Init, RetryBelowLimit, EmptyQueue
<1>3. RowsExist
  BY DEF Init, RowsExist, EmptyQueue, IdleHandler, HandlerAt, IdleReader
<1>. QED BY <1>1, <1>2, <1>3 DEF TypeInv

-----------------------------------------------------------------------------
(* What a step owes to the type invariant, component by component.  The    *)
(* actions are made of a few operators (Goto, Leave, FailJob, ...); each   *)
(* has a lemma that says which of these it gives.                          *)

DbTyped ==
  /\ project' \in ProjectType
  /\ version' \in [Versions -> VersionType]
  /\ runs' \subseteq RunType
  /\ job' \in [Jobs -> JobType]
  /\ \A j \in Jobs : job[j].status # "ABSENT" => job'[j].status # "ABSENT"
  /\ \A j \in Jobs : job'[j].status # "ABSENT" =>
                       job'[j].version \in Versions /\ job'[j].stage \in Stages

QueueTyped ==
  /\ QueueTypeOK'
  /\ RetryBelowLimit'
  /\ \A j \in Jobs : queue'[j].state # "absent" =>
                       queue[j].state # "absent" \/ job'[j].status # "ABSENT"

HandlersTyped ==
  /\ handler' \in [Handlers -> HandlerType]
  /\ \A h \in Handlers : handler'[h].pc # "idle" =>
       \/ handler[h].pc # "idle" /\ handler'[h].job = handler[h].job
       \/ handler'[h].job \in Jobs /\ queue[handler'[h].job].state # "absent"

ReadersTyped ==
  /\ reader' \in [Readers -> ReaderType]
  /\ \A r \in Readers : reader'[r].pc # "idle" =>
       \/ reader[r].pc # "idle" /\ reader'[r].job = reader[r].job
       \/ reader'[r].job \in Jobs /\ job[reader'[r].job].status # "ABSENT"

RestTyped == riskLow' \in BOOLEAN /\ clock' \in Nat /\ calls' \in [Jobs -> Nat] /\ faults' \in Nat

LEMMA TypeFrame ==
  ASSUME TypeInv, DbTyped, QueueTyped, HandlersTyped, ReadersTyped, RestTyped
  PROVE  TypeInv'
<1>1. TypeOK'
  BY DEF TypeInv, TypeOK, RowsExist, DbTyped, QueueTyped, HandlersTyped, ReadersTyped, RestTyped,
         JobOf
<1>2. RowsExist'
  BY DEF TypeInv, TypeOK, RowsExist, DbTyped, QueueTyped, HandlersTyped, ReadersTyped, JobOf
<1>. QED BY <1>1, <1>2 DEF TypeInv, QueueTyped

\* Components a step leaves alone.
LEMMA UnchangedTyped ==
  ASSUME TypeInv
  PROVE  /\ UNCHANGED dbVars => DbTyped
         /\ UNCHANGED queue => QueueTyped
         /\ UNCHANGED handler => HandlersTyped
         /\ UNCHANGED reader => ReadersTyped
         /\ UNCHANGED <<riskLow, clock, calls, faults>> => RestTyped
         /\ UNCHANGED <<riskLow, clock, calls>> /\ (Fault \/ NoFault) => RestTyped
<1>1. UNCHANGED dbVars => DbTyped
  BY DEF TypeInv, TypeOK, DbTyped, dbVars
<1>2. UNCHANGED queue => QueueTyped
  BY DEF TypeInv, TypeOK, RetryBelowLimit, QueueTyped, QueueTypeOK
<1>3. UNCHANGED handler => HandlersTyped
  BY DEF TypeInv, TypeOK, HandlersTyped
<1>4. UNCHANGED reader => ReadersTyped
  BY DEF TypeInv, TypeOK, ReadersTyped
<1>5. /\ UNCHANGED <<riskLow, clock, calls, faults>> => RestTyped
      /\ UNCHANGED <<riskLow, clock, calls>> /\ (Fault \/ NoFault) => RestTyped
  BY DEF TypeInv, TypeOK, RestTyped, Fault, NoFault
<1>. QED BY <1>1, <1>2, <1>3, <1>4, <1>5

-----------------------------------------------------------------------------
(* Handlers and readers. *)

Errors == {"none", "retryable", "blocked", "fatal"}

LEMMA MoveTyped ==
  ASSUME TypeInv, NEW h \in Handlers, handler[h].pc # "idle", NEW p \in HandlerPCs
  PROVE  /\ Goto(h, p) => HandlersTyped
         /\ \A e \in Errors : Throw(h, p, e) => HandlersTyped
         /\ Leave(h, p) => HandlersTyped
<1>1. handler \in [Handlers -> HandlerType]
  BY DEF TypeInv, TypeOK
<1>2. Goto(h, p) => HandlersTyped
  BY <1>1 DEF Goto, HandlersTyped, HandlerType
<1>3. ASSUME NEW e \in Errors, Throw(h, p, e) PROVE HandlersTyped
  <2>1. handler' \in [Handlers -> HandlerType]
    BY <1>1, <1>3 DEF Throw, HandlerType, Errors
  <2>. QED BY <1>1, <1>3, <2>1 DEF Throw, HandlersTyped, HandlerType
<1>4. HandlerAt(p, JobOf(h), handler[h].retry) \in HandlerType
  BY <1>1, ConstantFacts DEF HandlerType, HandlerAt, JobOf
<1>5. Leave(h, p) => HandlersTyped
  BY <1>1, <1>4 DEF Leave, HandlersTyped, HandlerAt, JobOf
<1>. QED BY <1>2, <1>3, <1>5

LEMMA ReaderMoveTyped ==
  ASSUME TypeInv, NEW r \in Readers, reader[r].pc # "idle"
  PROVE  /\ \A p \in {"grace", "fail", "mark"} : ReaderGoto(r, p) => ReadersTyped
         /\ ReaderDone(r) => ReadersTyped
<1>1. reader \in [Readers -> ReaderType]
  BY DEF TypeInv, TypeOK
<1>2. \A p \in {"grace", "fail", "mark"} : ReaderGoto(r, p) => ReadersTyped
  BY <1>1 DEF ReaderGoto, ReadersTyped, ReaderType
<1>3. IdleReader \in ReaderType
  BY ConstantFacts DEF IdleReader, ReaderType, JobStatus
<1>4. ReaderDone(r) => ReadersTyped
  BY <1>1, <1>3 DEF ReaderDone, ReadersTyped, IdleReader
<1>. QED BY <1>2, <1>4

-----------------------------------------------------------------------------
(* The database and the queue. *)

LEMMA RepairTyped ==
  ASSUME project \in ProjectType, version \in [Versions -> VersionType], NEW j \in Jobs
  PROVE  ProjectRepaired(j) \in ProjectType
<1>1. \A v \in Versions : StableStage(version[v]) \in Positions
  BY ConstantFacts DEF VersionType, StableStage, IDEA, COMPLETE, Positions
<1>2. IDEA \in Positions
  BY ConstantFacts DEF IDEA
<1>. QED BY <1>1, <1>2 DEF ProjectRepaired, ProjectType, ProjectStatus

LEMMA FailJobTyped ==
  ASSUME TypeInv, NEW j \in Jobs, job[j].status # "ABSENT", FailJob(j)
  PROVE  DbTyped
<1>1. /\ project \in ProjectType /\ version \in [Versions -> VersionType]
      /\ runs \subseteq RunType /\ job \in [Jobs -> JobType] /\ clock \in Nat
      /\ \A k \in Jobs : job[k].status # "ABSENT" =>
                           job[k].version \in Versions /\ job[k].stage \in Stages
  BY DEF TypeInv, TypeOK
<1>2. job' \in [Jobs -> JobType]
  BY <1>1 DEF FailJob, JobType, JobStatus
<1>3. \A k \in Jobs : /\ job'[k].version = job[k].version /\ job'[k].stage = job[k].stage
                      /\ job'[k].status = IF k = j THEN "FAILED" ELSE job[k].status
  BY <1>1 DEF FailJob, JobType
<1>4. RunsClosed(j, clock) \subseteq RunType
  BY <1>1 DEF RunsClosed, RunType
<1>5. ProjectRepaired(j) \in ProjectType
  BY <1>1, RepairTyped
<1>. QED BY <1>1, <1>2, <1>3, <1>4, <1>5 DEF FailJob, DbTyped

LEMMA QueueStepTyped ==
  ASSUME TypeInv, NEW j \in Jobs
  PROVE  /\ queue' = Completed(j) => QueueTyped
         /\ queue' = Failed(j) => QueueTyped
         /\ queue' = Fetched(j) /\ Fetchable(j) => QueueTyped
<1>1. QueueTypeOK /\ RetryBelowLimit
  BY DEF TypeInv, TypeOK
<1>2. ASSUME queue' = Completed(j) PROVE QueueTyped
  BY <1>1, <1>2 DEF Completed, QueueTyped, QueueTypeOK, RetryBelowLimit, QueueStates
<1>3. ASSUME queue' = Failed(j) PROVE QueueTyped
  BY <1>1, <1>3 DEF Failed, QueueTyped, QueueTypeOK, RetryBelowLimit, QueueStates
<1>4. ASSUME queue' = Fetched(j), Fetchable(j) PROVE QueueTyped
  BY <1>1, <1>4, ConstantFacts
  DEF Fetched, Fetchable, QueueTyped, QueueTypeOK, RetryBelowLimit, QueueStates
<1>. QED BY <1>2, <1>3, <1>4

LEMMA CreateTyped ==
  ASSUME TypeInv, NEW j \in Jobs, NEW v \in Versions, NEW s \in Stages,
         CreateQueuedJob(j, v, s),
         project' \in ProjectType, version' \in [Versions -> VersionType], UNCHANGED runs
  PROVE  DbTyped /\ QueueTyped /\ clock' \in Nat
<1>1. /\ runs \subseteq RunType /\ job \in [Jobs -> JobType] /\ clock \in Nat
      /\ \A k \in Jobs : job[k].status # "ABSENT" =>
                           job[k].version \in Versions /\ job[k].stage \in Stages
      /\ QueueTypeOK /\ RetryBelowLimit
  BY DEF TypeInv, TypeOK
<1>2. job' = [job EXCEPT ![j] = QueuedJob(v, s, clock + 1)] /\ queue' = Sent(j)
      /\ clock' = clock + 1
  BY DEF CreateQueuedJob
<1>3. QueuedJob(v, s, clock + 1) \in JobType
  BY <1>1, ConstantFacts DEF QueuedJob, JobType, JobStatus
<1>4. DbTyped
  BY <1>1, <1>2, <1>3 DEF DbTyped, QueuedJob
<1>5. [state |-> "created", retry |-> 0] \in [state : QueueStates, retry : 0..RetryLimit]
  BY ConstantFacts DEF QueueStates
<1>6. QueueTyped
  BY <1>1, <1>2, <1>5 DEF QueueTyped, Sent, QueueTypeOK, RetryBelowLimit, QueuedJob
<1>. QED BY <1>1, <1>2, <1>4, <1>6

LEMMA ContentTyped ==
  ASSUME version \in [Versions -> VersionType], NEW v \in Versions, NEW s \in Stages,
         NEW c \in 0..Edited
  PROVE  /\ [version EXCEPT ![v].content[s] = c] \in [Versions -> VersionType]
         /\ [version EXCEPT ![v].stage = s, ![v].content[s] = c] \in [Versions -> VersionType]
<1>1. version[v] \in VersionType
  OBVIOUS
<1>2. version[v].content \in [Stages -> 0..Edited]
  BY <1>1 DEF VersionType
<1>3. [version[v].content EXCEPT ![s] = c] \in [Stages -> 0..Edited]
  BY <1>2
<1>4. [version[v] EXCEPT !.content[s] = c] \in VersionType
  BY <1>1, <1>3 DEF VersionType
<1>5. s \in 0..NumStages
  BY ConstantFacts
<1>6. [version[v] EXCEPT !.stage = s, !.content[s] = c] \in VersionType
  BY <1>1, <1>3, <1>5 DEF VersionType
<1>. QED BY <1>4, <1>6

LEMMA PersistTyped ==
  ASSUME TypeInv, NEW h \in Handlers, handler[h].pc # "idle", PersistResult(h)
  PROVE  DbTyped
<1> DEFINE j == JobOf(h)
<1>1. /\ project \in ProjectType /\ version \in [Versions -> VersionType]
      /\ runs \subseteq RunType /\ job \in [Jobs -> JobType] /\ clock \in Nat
      /\ \A k \in Jobs : job[k].status # "ABSENT" =>
                           job[k].version \in Versions /\ job[k].stage \in Stages
      /\ j \in Jobs /\ job[j].status # "ABSENT"
  BY DEF TypeInv, TypeOK, RowsExist
<1>2. version' \in [Versions -> VersionType]
  BY <1>1, ConstantFacts, ContentTyped DEF PersistResult
<1>3. runs' \subseteq RunType
  BY <1>1 DEF PersistResult, RunCompleted, RunType
<1>4. project' \in ProjectType
  BY <1>1, ConstantFacts DEF PersistResult, ProjectType, ProjectStatus
<1>5. job' \in [Jobs -> JobType]
  BY <1>1 DEF PersistResult, JobType, JobStatus
<1>6. \A k \in Jobs : /\ job'[k].version = job[k].version /\ job'[k].stage = job[k].stage
                      /\ job'[k].status = IF k = j THEN "SUCCEEDED" ELSE job[k].status
  BY <1>1 DEF PersistResult, JobType
<1>. QED BY <1>1, <1>2, <1>3, <1>4, <1>5, <1>6 DEF DbTyped

-----------------------------------------------------------------------------
(* Every step keeps the type invariant. *)

LEMMA RequestType ==
  ASSUME TypeInv, UserRequest
  PROVE  TypeInv'
<1>1. /\ project \in ProjectType /\ version \in [Versions -> VersionType] /\ runs \subseteq RunType
      /\ job \in [Jobs -> JobType] /\ clock \in Nat /\ calls \in [Jobs -> Nat]
      /\ faults \in Nat /\ riskLow \in BOOLEAN
      /\ \A k \in Jobs : job[k].status # "ABSENT" =>
                           job[k].version \in Versions /\ job[k].stage \in Stages
  BY DEF TypeInv, TypeOK
<1>2. NewDraft \in VersionType /\ CapturedVersion \in VersionType
  <2>1. Blank \in [Stages -> 0..Edited] /\ [s \in Stages |-> Edited] \in [Stages -> 0..Edited]
    BY ConstantFacts DEF Blank
  <2>2. NoVersion \in VersionType
    BY <2>1, ConstantFacts DEF NoVersion, VersionType, VersionStatus, IDEA, NoStage
  <2>3. NewDraft \in VersionType
    BY <2>2 DEF NewDraft, VersionType, VersionStatus
  <2>4. CapturedVersion \in VersionType
    BY <2>1, ConstantFacts DEF CapturedVersion, VersionType, VersionStatus
  <2>. QED BY <2>3, <2>4
<1>3. ASSUME NEW j \in Jobs, NEW v \in Versions, Enqueue(j, v) PROVE TypeInv'
  <2>1. version' \in [Versions -> VersionType]
    BY <1>1, <1>2, <1>3 DEF Enqueue
  <2>2. project' \in ProjectType
    BY <1>1, <1>3, ConstantFacts DEF Enqueue, ProjectType, ProjectStatus
  <2>3. DbTyped /\ QueueTyped /\ clock' \in Nat
    BY <2>1, <2>2, <1>3, CreateTyped, ConstantFacts DEF Enqueue
  <2>. QED BY <2>3, <1>1, <1>3, UnchangedTyped, TypeFrame DEF Enqueue, RestTyped
<1>4. ASSUME NEW j \in Jobs, NEW v \in Versions, NEW s \in Stages, RegenerateStage(j, v, s)
      PROVE  TypeInv'
  <2>1. project.regens \in Nat /\ project.regens + 1 \in Nat
    BY <1>1 DEF ProjectType
  <2>2. project' \in ProjectType
    <3>1. PICK n \in Nat : project' = [project EXCEPT !.status = "GENERATING", !.stage = s,
                                                     !.regens = n]
      BY <1>4, <2>1 DEF RegenerateStage
    <3>. QED BY <1>1, <3>1, ConstantFacts DEF ProjectType, ProjectStatus
  <2>3. DbTyped /\ QueueTyped /\ clock' \in Nat
    BY <2>2, <1>1, <1>4, CreateTyped DEF RegenerateStage
  <2>. QED BY <2>3, <1>1, <1>4, UnchangedTyped, TypeFrame DEF RegenerateStage, RestTyped
<1>5. ASSUME NEW j \in Jobs, NEW v \in Versions, NEW s \in Stages, ConfirmStage(j, v, s)
      PROVE  TypeInv'
  <2>1. version' \in [Versions -> VersionType]
    BY <1>1, <1>5, ConstantFacts DEF ConfirmStage, VersionType
  <2>2. NextStage(s) \in Stages
    BY <1>5, ConstantFacts DEF ConfirmStage
  <2>3. project' \in ProjectType
    BY <1>1, <1>5, <2>2, ConstantFacts DEF ConfirmStage, ProjectType, ProjectStatus
  <2>4. DbTyped /\ QueueTyped /\ clock' \in Nat
    BY <2>1, <2>2, <2>3, <1>5, CreateTyped DEF ConfirmStage
  <2>. QED BY <2>4, <1>1, <1>5, UnchangedTyped, TypeFrame DEF ConfirmStage, RestTyped
<1>6. ASSUME NEW v \in Versions, ConfirmScript(v) PROVE TypeInv'
  <2>1. version' \in [Versions -> VersionType]
    <3>1. [version[v] EXCEPT !.status = "ACTIVE", !.confirmed = NumStages] \in VersionType
      BY <1>1, ConstantFacts DEF VersionType, VersionStatus
    <3>2. \A w \in Versions : [version[w] EXCEPT !.status = "SUPERSEDED"] \in VersionType
      BY <1>1 DEF VersionType, VersionStatus
    <3>. QED BY <1>1, <1>6, <3>1, <3>2 DEF ConfirmScript, ActivatedVersions
  <2>2. project' \in ProjectType
    BY <1>1, <1>6, ConstantFacts DEF ConfirmScript, ProjectType, ProjectStatus
  <2>3. /\ job' \in [Jobs -> JobType]
        /\ \A k \in Jobs : /\ job'[k].status = job[k].status /\ job'[k].version = job[k].version
                           /\ job'[k].stage = job[k].stage
    <3>1. CASE ResultJobs(v) = {}
      BY <3>1, <1>1, <1>6 DEF ConfirmScript
    <3>2. CASE ResultJobs(v) # {}
      <4>1. PICK j \in ResultJobs(v) : job' = [job EXCEPT ![j].result = v]
        BY <3>2, <1>6 DEF ConfirmScript
      <4>2. j \in Jobs
        BY DEF ResultJobs
      <4>3. v \in 0..MaxVersions
        BY ConstantFacts
      <4>. QED BY <4>1, <4>2, <4>3, <1>1 DEF JobType
    <3>. QED BY <3>1, <3>2
  <2>4. DbTyped
    BY <2>1, <2>2, <2>3, <1>1, <1>6 DEF ConfirmScript, DbTyped
  <2>. QED BY <2>4, <1>6, UnchangedTyped, TypeFrame DEF ConfirmScript
<1>7. ASSUME NEW v \in Versions, NEW s \in Stages, UpdateStage(v, s) PROVE TypeInv'
  <2>1. version' \in [Versions -> VersionType]
    BY <1>1, <1>7, ContentTyped, ConstantFacts DEF UpdateStage
  <2>2. DbTyped
    BY <2>1, <1>1, <1>7 DEF UpdateStage, DbTyped
  <2>. QED BY <2>2, <1>7, UnchangedTyped, TypeFrame DEF UpdateStage
<1>. QED BY <1>3, <1>4, <1>5, <1>6, <1>7 DEF UserRequest

LEMMA HandlerStepType ==
  ASSUME TypeInv, NEW h \in Handlers, HandlerStep(h)
  PROVE  TypeInv'
<1>1. /\ project \in ProjectType /\ version \in [Versions -> VersionType] /\ runs \subseteq RunType
      /\ job \in [Jobs -> JobType] /\ clock \in Nat /\ calls \in [Jobs -> Nat]
      /\ faults \in Nat /\ riskLow \in BOOLEAN /\ handler \in [Handlers -> HandlerType]
      /\ \A k \in Jobs : job[k].status # "ABSENT" =>
                           job[k].version \in Versions /\ job[k].stage \in Stages
      /\ handler[h].pc # "idle" =>
           /\ JobOf(h) \in Jobs /\ job[JobOf(h)].status # "ABSENT"
           /\ job[JobOf(h)].version \in Versions /\ job[JobOf(h)].stage \in Stages
  BY DEF TypeInv, TypeOK, RowsExist
<1>2. {"idle", "claim", "trend", "stop", "plan", "boundary", "generate", "provider", "commit",
       "cleanup", "settle", "ack", "nack"} \subseteq HandlerPCs
  BY DEF HandlerPCs
<1>3. {"retryable", "blocked", "fatal"} \subseteq Errors
  BY DEF Errors
<1>4. ASSUME LoadJob(h) PROVE TypeInv'
  <2>1. HandlersTyped
    BY <1>2, <1>4, MoveTyped DEF LoadJob
  <2>. QED BY <1>4, <2>1, UnchangedTyped, TypeFrame DEF LoadJob
<1>5. ASSUME ClaimAttempt(h) PROVE TypeInv'
  <2>1. HandlersTyped
    BY <1>2, <1>5, MoveTyped DEF ClaimAttempt
  <2>2. DbTyped
    <3>1. job' \in [Jobs -> JobType]
      BY <1>1, <1>5 DEF ClaimAttempt, JobType, JobStatus, Attempt, HandlerType
    <3>2. \A k \in Jobs : /\ job'[k].version = job[k].version /\ job'[k].stage = job[k].stage
                          /\ job'[k].status = job[k].status \/ (k = JobOf(h) /\ job'[k].status = "RUNNING")
      BY <1>1, <1>5 DEF ClaimAttempt, JobType
    <3>. QED BY <1>1, <1>5, <3>1, <3>2 DEF ClaimAttempt, DbTyped
  <2>3. RestTyped
    BY <1>5, UnchangedTyped DEF ClaimAttempt
  <2>. QED BY <1>5, <2>1, <2>2, <2>3, UnchangedTyped, TypeFrame DEF ClaimAttempt
<1>6. ASSUME CheckTrend(h) PROVE TypeInv'
  <2>1. HandlersTyped
    BY <1>2, <1>3, <1>6, MoveTyped DEF CheckTrend
  <2>. QED BY <1>6, <2>1, UnchangedTyped, TypeFrame DEF CheckTrend
<1>7. ASSUME StopPrevious(h) PROVE TypeInv'
  <2>1. HandlersTyped
    BY <1>2, <1>3, <1>7, MoveTyped DEF StopPrevious
  <2>2. DbTyped
    BY <1>1, <1>7, FailJobTyped, UnchangedTyped DEF StopPrevious
  <2>3. RestTyped
    BY <1>7, UnchangedTyped DEF StopPrevious
  <2>. QED BY <1>7, <2>1, <2>2, <2>3, UnchangedTyped, TypeFrame DEF StopPrevious
<1>8. ASSUME PlanStage(h) PROVE TypeInv'
  <2>1. HandlersTyped
    <3>1. CASE Throw(h, "settle", "retryable")
      BY <1>2, <1>3, <1>8, <3>1, MoveTyped DEF PlanStage
    <3>2. CASE handler' = [handler EXCEPT ![h].pc = "boundary",
                                          ![h].prev = version[job[JobOf(h)].version].stage]
      <4>1. version[job[JobOf(h)].version].stage \in 0..NumStages
        BY <1>1, <1>8 DEF PlanStage, VersionType
      <4>2. handler' \in [Handlers -> HandlerType]
        BY <1>1, <1>2, <3>2, <4>1, ZenonT(40) DEF HandlerType
      <4>. QED BY <1>1, <1>8, <3>2, <4>2 DEF PlanStage, HandlersTyped, HandlerType
    <3>. QED BY <1>8, <3>1, <3>2 DEF PlanStage
  <2>. QED BY <1>8, <2>1, UnchangedTyped, TypeFrame DEF PlanStage
<1>9. ASSUME OpenRun(h) PROVE TypeInv'
  <2>1. HandlersTyped
    <3>1. CASE handler' = [handler EXCEPT ![h].pc = "generate", ![h].run = clock + 1]
      <4>1. clock + 1 \in Nat /\ "generate" \in HandlerPCs
        BY <1>1, <1>2
      <4>2. handler' \in [Handlers -> HandlerType]
        BY <1>1, <3>1, <4>1, ZenonT(40) DEF HandlerType
      <4>. QED BY <1>1, <1>9, <3>1, <4>2 DEF OpenRun, HandlersTyped, HandlerType
    <3>. QED BY <1>2, <1>3, <1>9, <3>1, MoveTyped DEF OpenRun
  <2>2. CASE Owns(h)
    <3>1. job' \in [Jobs -> JobType]
      BY <1>1, <1>9, <2>2 DEF OpenRun, JobType
    <3>2. \A k \in Jobs : /\ job'[k].version = job[k].version /\ job'[k].stage = job[k].stage
                          /\ job'[k].status = job[k].status
      BY <1>1, <1>9, <2>2 DEF OpenRun, JobType
    <3>3. project' \in ProjectType
      BY <1>1, <1>9, <2>2, ConstantFacts DEF OpenRun, ProjectType, ProjectStatus
    <3>4. NewRun(h, clock + 1) \in RunType
      BY <1>1, <1>9 DEF OpenRun, NewRun, RunType
    <3>5. DbTyped
      BY <1>1, <1>9, <2>2, <3>1, <3>2, <3>3, <3>4 DEF OpenRun, DbTyped
    <3>6. RestTyped
      BY <1>1, <1>9, <2>2 DEF OpenRun, RestTyped, Fault, NoFault
    <3>. QED BY <1>9, <2>1, <3>5, <3>6, UnchangedTyped, TypeFrame DEF OpenRun
  <2>3. CASE ~Owns(h)
    BY <1>9, <2>1, <2>3, UnchangedTyped, TypeFrame DEF OpenRun, dbVars, NoFault
  <2>. QED BY <2>2, <2>3
<1>10. ASSUME CallProvider(h) PROVE TypeInv'
  <2>1. HandlersTyped
    BY <1>2, <1>10, MoveTyped DEF CallProvider
  <2>2. RestTyped
    BY <1>1, <1>10 DEF CallProvider, RestTyped
  <2>. QED BY <1>10, <2>1, <2>2, UnchangedTyped, TypeFrame DEF CallProvider
<1>11. ASSUME ProviderAnswers(h) PROVE TypeInv'
  <2>1. HandlersTyped
    BY <1>2, <1>3, <1>11, MoveTyped DEF ProviderAnswers
  <2>. QED BY <1>11, <2>1, UnchangedTyped, TypeFrame DEF ProviderAnswers
<1>12. ASSUME CommitResult(h) PROVE TypeInv'
  <2>1. HandlersTyped
    BY <1>2, <1>3, <1>12, MoveTyped DEF CommitResult
  <2>2. DbTyped
    BY <1>12, PersistTyped, UnchangedTyped DEF CommitResult
  <2>3. RestTyped
    BY <1>12, UnchangedTyped DEF CommitResult
  <2>. QED BY <1>12, <2>1, <2>2, <2>3, UnchangedTyped, TypeFrame DEF CommitResult
<1>13. ASSUME CleanUp(h) PROVE TypeInv'
  <2>1. HandlersTyped
    BY <1>2, <1>13, MoveTyped DEF CleanUp
  <2>2. project' \in ProjectType
    BY <1>1, <1>13, ConstantFacts, ZenonT(40) DEF CleanUp, ProjectType, ProjectStatus, HandlerType
  <2>3. runs' \subseteq RunType
    BY <1>1, <1>13 DEF CleanUp, RunType
  <2>4. DbTyped
    BY <1>1, <1>13, <2>2, <2>3 DEF CleanUp, DbTyped
  <2>. QED BY <1>13, <2>1, <2>4, UnchangedTyped, TypeFrame DEF CleanUp
<1>14. ASSUME Settle(h) PROVE TypeInv'
  <2>1. HandlersTyped
    BY <1>2, <1>14, MoveTyped DEF Settle
  <2>2. ASSUME job' = [job EXCEPT ![JobOf(h)].status = "RETRYING", ![JobOf(h)].completedAt = 0,
                                  ![JobOf(h)].seq = @ + 1],
               UNCHANGED <<project, version, runs>>
        PROVE  DbTyped
    <3>1. job' \in [Jobs -> JobType]
      BY <1>1, <1>14, <2>2 DEF Settle, JobType, JobStatus
    <3>2. \A k \in Jobs : /\ job'[k].version = job[k].version /\ job'[k].stage = job[k].stage
                          /\ job'[k].status = IF k = JobOf(h) THEN "RETRYING" ELSE job[k].status
      BY <1>1, <1>14, <2>2 DEF Settle, JobType
    <3>. QED BY <1>1, <1>14, <2>2, <3>1, <3>2 DEF Settle, DbTyped
  <2>3. DbTyped
    BY <1>1, <1>14, <2>2, FailJobTyped, UnchangedTyped DEF Settle
  <2>. QED BY <1>14, <2>1, <2>3, UnchangedTyped, TypeFrame DEF Settle
<1>15. ASSUME Acknowledge(h) PROVE TypeInv'
  <2>1. IdleHandler \in HandlerType
    BY ConstantFacts DEF IdleHandler, HandlerAt, HandlerType, HandlerPCs
  <2>2. HandlersTyped
    BY <1>1, <1>15, <2>1 DEF Acknowledge, HandlersTyped, IdleHandler, HandlerAt
  <2>3. QueueTyped
    BY <1>1, <1>15, QueueStepTyped DEF Acknowledge
  <2>. QED BY <1>15, <2>2, <2>3, UnchangedTyped, TypeFrame DEF Acknowledge
<1>. QED BY <1>4, <1>5, <1>6, <1>7, <1>8, <1>9, <1>10, <1>11, <1>12, <1>13, <1>14, <1>15
         DEF HandlerStep

LEMMA EnvironmentType ==
  ASSUME TypeInv
  PROVE  /\ \A h \in Handlers, j \in Jobs : Deliver(h, j) => TypeInv'
         /\ \A h \in Handlers : StepFails(h) => TypeInv'
         /\ \A j \in Jobs : LoseDelivery(j) => TypeInv'
         /\ Crash => TypeInv'
         /\ ReviewTrend => TypeInv'
<1>1. handler \in [Handlers -> HandlerType] /\ QueueTypeOK
  BY DEF TypeInv, TypeOK
<1>2. IdleHandler \in HandlerType
  BY ConstantFacts DEF IdleHandler, HandlerAt, HandlerType, HandlerPCs
<1>3. ASSUME NEW h \in Handlers, NEW j \in Jobs, Deliver(h, j) PROVE TypeInv'
  <2>1. QueueTyped
    BY <1>3, QueueStepTyped DEF Deliver
  <2>2. queue'[j].retry \in 0..RetryLimit /\ queue[j].state # "absent"
    BY <1>1, <1>3, <2>1 DEF Deliver, Fetchable, QueueTyped, QueueTypeOK
  <2>3. HandlerAt("load", j, queue'[j].retry) \in HandlerType
    BY <2>2, ConstantFacts DEF HandlerAt, HandlerType, HandlerPCs
  <2>4. HandlersTyped
    BY <1>1, <1>3, <2>2, <2>3 DEF Deliver, HandlersTyped, HandlerAt
  <2>. QED BY <1>3, <2>1, <2>4, UnchangedTyped, TypeFrame DEF Deliver
<1>4. ASSUME NEW h \in Handlers, StepFails(h) PROVE TypeInv'
  <2>1. HandlersTyped
    <3>1. CASE handler' = [handler EXCEPT ![h] = IdleHandler]
      BY <1>1, <1>2, <3>1 DEF HandlersTyped, IdleHandler, HandlerAt
    <3>. QED BY <1>4, <3>1, MoveTyped DEF StepFails, HandlerPCs, Errors
  <2>2. RestTyped
    BY <1>4, UnchangedTyped DEF StepFails
  <2>. QED BY <1>4, <2>1, <2>2, UnchangedTyped, TypeFrame DEF StepFails
<1>5. ASSUME NEW j \in Jobs, LoseDelivery(j) PROVE TypeInv'
  <2>1. QueueTyped
    BY <1>5, QueueStepTyped DEF LoseDelivery
  <2>2. RestTyped
    BY <1>5, UnchangedTyped DEF LoseDelivery
  <2>. QED BY <1>5, <2>1, <2>2, UnchangedTyped, TypeFrame DEF LoseDelivery
<1>6. ASSUME Crash PROVE TypeInv'
  <2>1. HandlersTyped
    BY <1>2, <1>6 DEF Crash, HandlersTyped, IdleHandler, HandlerAt
  <2>2. IdleReader \in ReaderType
    BY ConstantFacts DEF IdleReader, ReaderType, JobStatus
  <2>3. ReadersTyped
    BY <1>6, <2>2 DEF Crash, ReadersTyped, IdleReader
  <2>4. RestTyped
    BY <1>6, UnchangedTyped DEF Crash
  <2>. QED BY <1>6, <2>1, <2>3, <2>4, UnchangedTyped, TypeFrame DEF Crash
<1>7. ASSUME ReviewTrend PROVE TypeInv'
  <2>1. RestTyped
    BY <1>7 DEF ReviewTrend, RestTyped, TypeInv, TypeOK
  <2>. QED BY <1>7, <2>1, UnchangedTyped, TypeFrame DEF ReviewTrend
<1>. QED BY <1>3, <1>4, <1>5, <1>6, <1>7

LEMMA ReaderStepType ==
  ASSUME TypeInv, NEW r \in Readers
  PROVE  /\ \A j \in Jobs : ReadJob(r, j) => TypeInv'
         /\ ReaderStep(r) => TypeInv'
<1>1. /\ reader \in [Readers -> ReaderType] /\ job \in [Jobs -> JobType] /\ runs \subseteq RunType
      /\ project \in ProjectType /\ version \in [Versions -> VersionType]
      /\ \A k \in Jobs : job[k].status # "ABSENT" =>
                           job[k].version \in Versions /\ job[k].stage \in Stages
      /\ reader[r].pc # "idle" => reader[r].job \in Jobs /\ job[reader[r].job].status # "ABSENT"
  BY DEF TypeInv, TypeOK, RowsExist
<1>2. ASSUME NEW j \in Jobs, ReadJob(r, j) PROVE TypeInv'
  <2>1. [pc |-> IF Active(j) THEN "queue" ELSE "repair", job |-> j, status |-> job[j].status,
         attempt |-> job[j].attempt, seq |-> job[j].seq] \in ReaderType
    BY <1>1, ConstantFacts DEF ReaderType, JobType
  <2>2. job[j].status # "ABSENT"
    BY <1>2 DEF ReadJob, Active, ActiveStatuses
  <2>3. ReadersTyped
    BY <1>1, <1>2, <2>1, <2>2 DEF ReadJob, ReadersTyped
  <2>. QED BY <1>2, <2>3, UnchangedTyped, TypeFrame DEF ReadJob
<1>3. ASSUME ReadQueueRow(r) \/ JudgeGrace(r) PROVE TypeInv'
  <2>1. ReadersTyped
    BY <1>3, ReaderMoveTyped DEF ReadQueueRow, JudgeGrace
  <2>. QED BY <1>3, <2>1, UnchangedTyped, TypeFrame DEF ReadQueueRow, JudgeGrace
<1>4. ASSUME FailUndelivered(r) PROVE TypeInv'
  <2>1. ReadersTyped
    BY <1>4, ReaderMoveTyped DEF FailUndelivered
  <2>2. DbTyped
    BY <1>1, <1>4, FailJobTyped, UnchangedTyped DEF FailUndelivered
  <2>. QED BY <1>4, <2>1, <2>2, UnchangedTyped, TypeFrame DEF FailUndelivered
<1>5. ASSUME MarkRetrying(r) PROVE TypeInv'
  <2>1. ReadersTyped
    BY <1>5, ReaderMoveTyped DEF MarkRetrying
  <2>2. job' \in [Jobs -> JobType]
    BY <1>1, <1>5 DEF MarkRetrying, JobType, JobStatus
  <2>3. \A k \in Jobs : /\ job'[k].version = job[k].version /\ job'[k].stage = job[k].stage
                        /\ \/ job'[k].status = job[k].status
                           \/ k = reader[r].job /\ job'[k].status = "RETRYING"
    BY <1>1, <1>5 DEF MarkRetrying, JobType
  <2>4. DbTyped
    BY <1>1, <1>5, <2>2, <2>3 DEF MarkRetrying, DbTyped
  <2>. QED BY <1>5, <2>1, <2>4, UnchangedTyped, TypeFrame DEF MarkRetrying
<1>6. ASSUME RepairFailed(r) PROVE TypeInv'
  <2>1. ReadersTyped
    BY <1>6, ReaderMoveTyped DEF RepairFailed
  <2>2. project' \in ProjectType
    BY <1>1, <1>6, RepairTyped DEF RepairFailed
  <2>3. runs' \subseteq RunType
    BY <1>1, <1>6 DEF RepairFailed, RunsClosed, RunType
  <2>4. DbTyped
    BY <1>1, <1>6, <2>2, <2>3 DEF RepairFailed, DbTyped
  <2>. QED BY <1>6, <2>1, <2>4, UnchangedTyped, TypeFrame DEF RepairFailed
<1>. QED BY <1>2, <1>3, <1>4, <1>5, <1>6 DEF ReaderStep

LEMMA StepType == TypeInv /\ [Next]_vars => TypeInv'
<1> SUFFICES ASSUME TypeInv, [Next]_vars PROVE TypeInv'
  OBVIOUS
<1>1. CASE Next
  BY <1>1, RequestType, HandlerStepType, EnvironmentType, ReaderStepType DEF Next
<1>2. CASE UNCHANGED vars
  BY <1>2, UnchangedTyped, TypeFrame DEF vars
<1>. QED BY <1>1, <1>2

\* Whatever the size of the project and the number of workers, every row,
\* handler and reader keeps its type (the state that process(), the requests
\* and the readers share).
THEOREM TypeCorrect == Spec => []TypeOK
<1>1. Init => TypeInv
  BY InitType
<1>2. TypeInv /\ [Next]_vars => TypeInv'
  BY StepType
<1>3. TypeInv => TypeOK
  BY DEF TypeInv
<1>. QED BY <1>1, <1>2, <1>3, PTL DEF Spec

-----------------------------------------------------------------------------
(* No job pays for its stage twice, for any number of deliveries, handlers *)
(* and failures.  A handler that has claimed its attempt is the only one   *)
(* of that attempt, and the job's attempt has only grown since; a run      *)
(* outlives every handler.  So a handler may open a run only while it owns *)
(* the newest attempt, and then no run can have been there before it.      *)

\* From the claim to the end of process().
ClaimedPCs == {"trend", "stop", "plan", "boundary", "generate", "provider", "commit", "cleanup",
               "settle"}
Claimed(h) == handler[h].pc \in ClaimedPCs
HasRun(j) == \E r \in runs : r.job = j

\* A claimed attempt has one handler, and it is never newer than the job's.
OneHandlerPerAttempt ==
  /\ \A h \in Handlers : Claimed(h) => Attempt(h) <= job[JobOf(h)].attempt
  /\ \A h, i \in Handlers : Claimed(h) /\ Claimed(i) /\ JobOf(h) = JobOf(i)
                             /\ handler[h].retry = handler[i].retry => h = i

\* Between the look for earlier runs and the new run, none appears, unless
\* the attempt was lost.
NoRunBeforeBoundary ==
  \A h \in Handlers : handler[h].pc \in {"plan", "boundary"} /\ job[JobOf(h)].attempt = Attempt(h)
                        => ~HasRun(JobOf(h))

\* A run lies in its job's time window.
RunsInWindow ==
  /\ \A r \in runs : /\ job[r.job].status # "ABSENT"
                     /\ r.version = job[r.job].version /\ r.stage = job[r.job].stage
                     /\ job[r.job].queuedAt <= r.startedAt
  /\ \A j \in Jobs : job[j].status # "ABSENT" => job[j].queuedAt <= clock

\* The run precedes the call, and only one handler is about to make it.
RunBeforeCall ==
  /\ \A j \in Jobs : calls[j] > 0 => HasRun(j)
  /\ \A h \in Handlers : handler[h].pc = "generate" =>
                           HasRun(JobOf(h)) /\ calls[JobOf(h)] = 0
  /\ \A h, i \in Handlers : handler[h].pc = "generate" /\ handler[i].pc = "generate"
                             /\ JobOf(h) = JobOf(i) => h = i
  /\ \A j \in Jobs : calls[j] <= 1

Fence == OneHandlerPerAttempt /\ NoRunBeforeBoundary /\ RunsInWindow /\ RunBeforeCall

-----------------------------------------------------------------------------
(* Steps that open no run, claim nothing and call nobody. *)

JobsQuiet ==
  /\ clock \in Nat /\ clock' \in Nat /\ clock <= clock'
  /\ \A j \in Jobs : job[j].status # "ABSENT" =>
       /\ job'[j].status # "ABSENT" /\ job'[j].attempt = job[j].attempt
       /\ job'[j].version = job[j].version /\ job'[j].stage = job[j].stage
       /\ job'[j].queuedAt = job[j].queuedAt
  /\ \A j \in Jobs : job[j].status = "ABSENT" /\ job'[j].status # "ABSENT" =>
       job'[j].queuedAt <= clock'

SameRun(q, r) == /\ q.job = r.job /\ q.version = r.version /\ q.stage = r.stage
                 /\ q.startedAt = r.startedAt
RunsQuiet ==
  /\ \A r \in runs' : \E q \in runs : SameRun(q, r)
  /\ \A q \in runs : \E r \in runs' : SameRun(q, r)

HandlersQuiet ==
  \A h \in Handlers : handler'[h].pc \in ClaimedPCs =>
    /\ Claimed(h)
    /\ handler'[h].job = handler[h].job /\ handler'[h].retry = handler[h].retry
    /\ handler'[h].pc \in {"plan", "boundary"} => handler[h].pc \in {"plan", "boundary"}
    /\ handler'[h].pc = "generate" => handler[h].pc = "generate"

LEMMA QuietFence ==
  ASSUME TypeInv, Fence, JobsQuiet, RunsQuiet, HandlersQuiet, UNCHANGED calls
  PROVE  Fence'
<1>1. /\ \A h \in Handlers : Claimed(h) => JobOf(h) \in Jobs /\ job[JobOf(h)].status # "ABSENT"
      /\ runs \subseteq RunType
      /\ job \in [Jobs -> JobType]
  BY DEF TypeInv, TypeOK, RowsExist, Claimed, ClaimedPCs
<1>2. \A j \in Jobs : HasRun(j)' <=> HasRun(j)
  BY DEF RunsQuiet, SameRun, HasRun
<1>3. OneHandlerPerAttempt'
  BY <1>1 DEF Fence, OneHandlerPerAttempt, JobsQuiet, HandlersQuiet, Claimed, JobOf, Attempt
<1>4. NoRunBeforeBoundary'
  BY <1>1, <1>2
  DEF Fence, NoRunBeforeBoundary, JobsQuiet, HandlersQuiet, Claimed, ClaimedPCs, JobOf, Attempt
<1>5. RunsInWindow'
  <2>1. ASSUME NEW r \in runs' PROVE /\ job'[r.job].status # "ABSENT"
                                     /\ r.version = job'[r.job].version
                                     /\ r.stage = job'[r.job].stage
                                     /\ job'[r.job].queuedAt <= r.startedAt
    <3>1. PICK q \in runs : SameRun(q, r)
      BY DEF RunsQuiet
    <3>2. q.job \in Jobs
      BY <1>1 DEF RunType
    <3>. QED BY <3>1, <3>2 DEF Fence, RunsInWindow, SameRun, JobsQuiet
  <2>2. ASSUME NEW j \in Jobs, job'[j].status # "ABSENT" PROVE job'[j].queuedAt <= clock'
    <3>1. job[j].queuedAt \in Nat
      BY <1>1 DEF JobType
    <3>. QED BY <2>2, <3>1 DEF Fence, RunsInWindow, JobsQuiet
  <2>. QED BY <2>1, <2>2 DEF RunsInWindow
<1>6. RunBeforeCall'
  BY <1>1, <1>2
  DEF Fence, RunBeforeCall, HandlersQuiet, Claimed, ClaimedPCs, JobOf
<1>. QED BY <1>3, <1>4, <1>5, <1>6 DEF Fence

LEMMA RunsClosedQuiet ==
  ASSUME runs \subseteq RunType, NEW j \in Jobs, NEW t, runs' = RunsClosed(j, t)
  PROVE  RunsQuiet
<1>1. \A r \in runs : SameRun(r, [r EXCEPT !.status = "FAILED"])
                       /\ SameRun([r EXCEPT !.status = "FAILED"], r) /\ SameRun(r, r)
  BY DEF SameRun, RunType
<1>. QED BY <1>1 DEF RunsClosed, RunsQuiet

\* Writing the end of a job touches neither attempts nor windows.
LEMMA FailJobQuiet ==
  ASSUME TypeInv, NEW j \in Jobs, job[j].status # "ABSENT", FailJob(j), UNCHANGED clock
  PROVE  JobsQuiet /\ RunsQuiet
<1>1. runs \subseteq RunType /\ job \in [Jobs -> JobType] /\ clock \in Nat
  BY DEF TypeInv, TypeOK
<1>2. JobsQuiet
  BY <1>1 DEF FailJob, JobsQuiet, JobType
<1>3. RunsQuiet
  BY <1>1, RunsClosedQuiet DEF FailJob
<1>. QED BY <1>2, <1>3

LEMMA PersistQuiet ==
  ASSUME TypeInv, NEW h \in Handlers, handler[h].pc # "idle", PersistResult(h), UNCHANGED clock
  PROVE  JobsQuiet /\ RunsQuiet
<1>1. runs \subseteq RunType /\ job \in [Jobs -> JobType] /\ clock \in Nat
      /\ JobOf(h) \in Jobs /\ job[JobOf(h)].status # "ABSENT"
  BY DEF TypeInv, TypeOK, RowsExist
<1>2. JobsQuiet
  BY <1>1 DEF PersistResult, JobsQuiet, JobType
<1>3. RunsQuiet
  <2>1. \A r \in runs : SameRun(r, [r EXCEPT !.status = "COMPLETED"])
                         /\ SameRun([r EXCEPT !.status = "COMPLETED"], r) /\ SameRun(r, r)
    BY <1>1 DEF SameRun, RunType
  <2>. QED BY <2>1 DEF PersistResult, RunCompleted, RunsQuiet
<1>. QED BY <1>2, <1>3

LEMMA CreateQuiet ==
  ASSUME TypeInv, NEW j \in Jobs, NEW v \in Versions, NEW s \in Stages, CreateQueuedJob(j, v, s)
  PROVE  JobsQuiet
<1>1. job \in [Jobs -> JobType] /\ clock \in Nat
  BY DEF TypeInv, TypeOK
<1>. QED BY <1>1 DEF CreateQueuedJob, FreshJob, QueuedJob, JobsQuiet, JobType

LEMMA UnchangedQuiet ==
  ASSUME TypeInv
  PROVE  /\ UNCHANGED <<job, clock>> => JobsQuiet
         /\ UNCHANGED runs => RunsQuiet
         /\ UNCHANGED handler => HandlersQuiet
<1>1. runs \subseteq RunType /\ job \in [Jobs -> JobType] /\ clock \in Nat
  BY DEF TypeInv, TypeOK
<1>2. UNCHANGED <<job, clock>> => JobsQuiet
  BY <1>1 DEF JobsQuiet
<1>3. UNCHANGED runs => RunsQuiet
  BY DEF RunsQuiet, SameRun
<1>4. UNCHANGED handler => HandlersQuiet
  BY DEF HandlersQuiet, Claimed
<1>. QED BY <1>2, <1>3, <1>4

LEMMA MoveQuiet ==
  ASSUME TypeInv, NEW h \in Handlers
  PROVE  /\ \A p \in {"idle", "load", "ack", "nack"} : Leave(h, p) => HandlersQuiet
         /\ \A p \in {"idle", "load", "ack", "nack", "claim"} : Goto(h, p) => HandlersQuiet
         /\ Claimed(h) => \A p \in {"stop", "provider", "commit", "cleanup", "settle"} :
              /\ Goto(h, p) => HandlersQuiet
              /\ \A e \in Errors : Throw(h, p, e) => HandlersQuiet
<1>1. handler \in [Handlers -> HandlerType]
  BY DEF TypeInv, TypeOK
<1>2. ASSUME NEW p \in {"idle", "load", "ack", "nack"}, Leave(h, p) PROVE HandlersQuiet
  BY <1>1, <1>2 DEF Leave, HandlerAt, HandlersQuiet, Claimed, ClaimedPCs
<1>3. ASSUME NEW p \in {"idle", "load", "ack", "nack", "claim"}, Goto(h, p) PROVE HandlersQuiet
  BY <1>1, <1>3 DEF Goto, HandlersQuiet, Claimed, ClaimedPCs, HandlerType
<1>4. ASSUME Claimed(h), NEW p \in {"stop", "provider", "commit", "cleanup", "settle"}, Goto(h, p)
      PROVE  HandlersQuiet
  BY <1>1, <1>4 DEF Goto, HandlersQuiet, Claimed, HandlerType
<1>5. ASSUME Claimed(h), NEW p \in {"stop", "provider", "commit", "cleanup", "settle"},
             NEW e \in Errors, Throw(h, p, e)
      PROVE  HandlersQuiet
  BY <1>1, <1>5 DEF Throw, HandlersQuiet, Claimed, HandlerType
<1>. QED BY <1>2, <1>3, <1>4, <1>5

LEMMA RequestFence ==
  ASSUME TypeInv, Fence, UserRequest
  PROVE  Fence'
<1>1. \A j \in Jobs, v \in Versions : Enqueue(j, v) => Fence'
  BY ConstantFacts, CreateQuiet, UnchangedQuiet, QuietFence DEF Enqueue
<1>2. \A j \in Jobs, v \in Versions, s \in Stages : RegenerateStage(j, v, s) => Fence'
  BY CreateQuiet, UnchangedQuiet, QuietFence DEF RegenerateStage
<1>3. \A j \in Jobs, v \in Versions, s \in Stages : ConfirmStage(j, v, s) => Fence'
  BY ConstantFacts, CreateQuiet, UnchangedQuiet, QuietFence DEF ConfirmStage
<1>4. ASSUME NEW v \in Versions, ConfirmScript(v) PROVE Fence'
  <2>1. job \in [Jobs -> JobType] /\ clock \in Nat
    BY DEF TypeInv, TypeOK
  <2>2. JobsQuiet
    <3>1. CASE ResultJobs(v) = {}
      BY <3>1, <1>4, UnchangedQuiet DEF ConfirmScript
    <3>2. CASE ResultJobs(v) # {}
      <4>1. PICK j \in ResultJobs(v) : job' = [job EXCEPT ![j].result = v]
        BY <3>2, <1>4 DEF ConfirmScript
      <4>2. j \in Jobs
        BY DEF ResultJobs
      <4>. QED BY <4>1, <4>2, <2>1, <1>4 DEF JobsQuiet, JobType, ConfirmScript
    <3>. QED BY <3>1, <3>2
  <2>. QED BY <2>2, <1>4, UnchangedQuiet, QuietFence DEF ConfirmScript
<1>5. \A v \in Versions, s \in Stages : UpdateStage(v, s) => Fence'
  BY UnchangedQuiet, QuietFence DEF UpdateStage
<1>. QED BY <1>1, <1>2, <1>3, <1>4, <1>5 DEF UserRequest

LEMMA EnvironmentFence ==
  ASSUME TypeInv, Fence
  PROVE  /\ \A h \in Handlers, j \in Jobs : Deliver(h, j) => Fence'
         /\ \A h \in Handlers : StepFails(h) => Fence'
         /\ \A j \in Jobs : LoseDelivery(j) => Fence'
         /\ Crash => Fence'
         /\ ReviewTrend => Fence'
<1>1. handler \in [Handlers -> HandlerType]
  BY DEF TypeInv, TypeOK
<1>2. ASSUME NEW h \in Handlers, NEW j \in Jobs, Deliver(h, j) PROVE Fence'
  <2>1. HandlersQuiet
    BY <1>1, <1>2 DEF Deliver, HandlerAt, HandlersQuiet, Claimed, ClaimedPCs
  <2>. QED BY <2>1, <1>2, UnchangedQuiet, QuietFence DEF Deliver, dbVars
<1>3. ASSUME NEW h \in Handlers, StepFails(h) PROVE Fence'
  <2>1. HandlersQuiet
    <3>1. CASE handler' = [handler EXCEPT ![h] = IdleHandler]
      BY <1>1, <3>1 DEF IdleHandler, HandlerAt, HandlersQuiet, Claimed, ClaimedPCs
    <3>2. "retryable" \in Errors /\ "fatal" \in Errors
      BY DEF Errors
    <3>. QED BY <1>3, <3>1, <3>2, MoveQuiet DEF StepFails, Claimed, ClaimedPCs
  <2>. QED BY <2>1, <1>3, UnchangedQuiet, QuietFence DEF StepFails, dbVars
<1>4. \A j \in Jobs : LoseDelivery(j) => Fence'
  BY UnchangedQuiet, QuietFence DEF LoseDelivery, dbVars
<1>5. ASSUME Crash PROVE Fence'
  <2>1. HandlersQuiet
    BY <1>5 DEF Crash, IdleHandler, HandlerAt, HandlersQuiet, ClaimedPCs
  <2>. QED BY <2>1, <1>5, UnchangedQuiet, QuietFence DEF Crash, dbVars
<1>6. ReviewTrend => Fence'
  BY UnchangedQuiet, QuietFence DEF ReviewTrend, dbVars
<1>. QED BY <1>2, <1>3, <1>4, <1>5, <1>6

LEMMA ReaderFence ==
  ASSUME TypeInv, Fence, NEW r \in Readers
  PROVE  /\ \A j \in Jobs : ReadJob(r, j) => Fence'
         /\ ReaderStep(r) => Fence'
<1>1. /\ job \in [Jobs -> JobType] /\ runs \subseteq RunType /\ clock \in Nat
      /\ reader[r].pc # "idle" => reader[r].job \in Jobs /\ job[reader[r].job].status # "ABSENT"
  BY DEF TypeInv, TypeOK, RowsExist
<1>2. \A j \in Jobs : ReadJob(r, j) => Fence'
  BY UnchangedQuiet, QuietFence DEF ReadJob, dbVars
<1>3. ReadQueueRow(r) \/ JudgeGrace(r) => Fence'
  BY UnchangedQuiet, QuietFence DEF ReadQueueRow, JudgeGrace, dbVars
<1>4. FailUndelivered(r) => Fence'
  BY <1>1, FailJobQuiet, UnchangedQuiet, QuietFence DEF FailUndelivered, dbVars
<1>5. ASSUME MarkRetrying(r) PROVE Fence'
  <2>1. JobsQuiet
    BY <1>1, <1>5 DEF MarkRetrying, JobsQuiet, JobType
  <2>. QED BY <2>1, <1>5, UnchangedQuiet, QuietFence DEF MarkRetrying
<1>6. ASSUME RepairFailed(r) PROVE Fence'
  <2>1. RunsQuiet
    BY <1>1, <1>6, RunsClosedQuiet, UnchangedQuiet DEF RepairFailed
  <2>. QED BY <2>1, <1>6, UnchangedQuiet, QuietFence DEF RepairFailed
<1>. QED BY <1>2, <1>3, <1>4, <1>5, <1>6 DEF ReaderStep

-----------------------------------------------------------------------------
(* The steps the fence is made of. *)

\* What a handler at work may rely on.
LEMMA HandlerFacts ==
  ASSUME TypeInv, NEW h \in Handlers, handler[h].pc # "idle"
  PROVE  /\ JobOf(h) \in Jobs /\ job[JobOf(h)].status # "ABSENT"
         /\ handler[h].retry \in Nat /\ Attempt(h) \in Nat
  BY DEF TypeInv, TypeOK, RowsExist, HandlerType, Attempt

LEMMA ClaimFence ==
  ASSUME TypeInv, Fence, NEW h \in Handlers, ClaimAttempt(h)
  PROVE  Fence'
<1> DEFINE j == JobOf(h)
<1>1. /\ job \in [Jobs -> JobType] /\ clock \in Nat /\ handler \in [Handlers -> HandlerType]
      /\ j \in Jobs /\ handler[h].retry \in Nat
      /\ runs \subseteq RunType /\ handler[h].pc = "claim"
  BY HandlerFacts DEF ClaimAttempt, TypeInv, TypeOK
<1>2. CASE ~Claimable(j, handler[h].retry)
  <2>1. HandlersQuiet
    BY <1>2, <1>1, MoveQuiet DEF ClaimAttempt
  <2>. QED BY <2>1, <1>2, UnchangedQuiet, QuietFence DEF ClaimAttempt
<1>3. CASE Claimable(j, handler[h].retry)
  <2>1. job[j].attempt \in Nat /\ job[j].attempt < Attempt(h) /\ job[j].status # "ABSENT"
    BY <1>1, <1>3 DEF Claimable, Attempt, JobType
  <2>2. \A k \in Jobs :
          /\ k # j => job'[k] = job[k]
          /\ job'[k].version = job[k].version /\ job'[k].stage = job[k].stage
          /\ job'[k].queuedAt = job[k].queuedAt
          /\ job'[k].status = "ABSENT" <=> job[k].status = "ABSENT"
          /\ job'[j].attempt = Attempt(h)
    BY <1>1, <1>3, <2>1 DEF ClaimAttempt, JobType
  <2>3. UNCHANGED <<runs, calls, clock>>
    BY DEF ClaimAttempt
  <2>4. \A i \in Handlers :
          /\ i # h => handler'[i] = handler[i]
          /\ handler'[i].job = handler[i].job /\ handler'[i].retry = handler[i].retry
          /\ handler'[h].pc \in {"trend", "nack"}
    BY <1>1, <1>3 DEF ClaimAttempt, Goto, Leave, HandlerAt, JobOf, HandlerType
  <2>5. \A i \in Handlers : Claimed(i) => /\ JobOf(i) \in Jobs /\ i # h
                                          /\ Attempt(i) \in Nat /\ handler[i].retry \in Nat
    BY <1>1, HandlerFacts DEF Claimed, ClaimedPCs
  <2>6. OneHandlerPerAttempt'
    <3>1. ASSUME NEW i \in Handlers, Claimed(i)' PROVE (Attempt(i) <= job[JobOf(i)].attempt)'
      BY <3>1, <1>1, <2>1, <2>2, <2>4, <2>5
      DEF Fence, OneHandlerPerAttempt, Claimed, Attempt, JobOf
    <3>2. ASSUME NEW i \in Handlers, Claimed(i), JobOf(i) = j PROVE handler[i].retry # handler[h].retry
      BY <3>2, <2>1, <2>5 DEF Fence, OneHandlerPerAttempt, Attempt
    <3>3. ASSUME NEW i \in Handlers, NEW k \in Handlers, Claimed(i)', Claimed(k)',
                 JobOf(i)' = JobOf(k)', handler'[i].retry = handler'[k].retry
          PROVE  i = k
      BY <3>2, <3>3, <2>4 DEF Fence, OneHandlerPerAttempt, Claimed, JobOf
    <3>. QED BY <3>1, <3>3 DEF OneHandlerPerAttempt
  <2>7. NoRunBeforeBoundary'
    <3>1. ASSUME NEW i \in Handlers, handler'[i].pc \in {"plan", "boundary"},
                 (job[JobOf(i)].attempt = Attempt(i))'
          PROVE  ~HasRun(JobOf(i))'
      <4>1. i # h /\ handler'[i] = handler[i] /\ Claimed(i)
        BY <3>1, <2>4 DEF Claimed, ClaimedPCs
      <4>2. JobOf(i) # j
        BY <3>1, <4>1, <2>1, <2>2, <2>5 DEF Fence, OneHandlerPerAttempt, JobOf, Attempt
      <4>3. job'[JobOf(i)] = job[JobOf(i)]
        BY <4>1, <4>2, <2>2, <2>5
      <4>. QED BY <3>1, <4>1, <4>3, <2>3 DEF Fence, NoRunBeforeBoundary, HasRun, JobOf, Attempt
    <3>. QED BY <3>1 DEF NoRunBeforeBoundary
  <2>8. RunsInWindow'
    BY <1>1, <2>2, <2>3 DEF Fence, RunsInWindow, RunType
  <2>9. RunBeforeCall'
    BY <2>3, <2>4 DEF Fence, RunBeforeCall, HasRun, JobOf
  <2>. QED BY <2>6, <2>7, <2>8, <2>9 DEF Fence
<1>. QED BY <1>2, <1>3

\* The look for earlier runs finds every run of the job.
LEMMA StopFence ==
  ASSUME TypeInv, Fence, NEW h \in Handlers, StopPrevious(h)
  PROVE  Fence'
<1> DEFINE j == JobOf(h)
<1>1. /\ handler \in [Handlers -> HandlerType] /\ j \in Jobs /\ job[j].status # "ABSENT"
      /\ handler[h].pc = "stop"
  BY HandlerFacts DEF StopPrevious, TypeInv, TypeOK
<1>2. CASE WindowRuns(j) = {}
  <2>1. ~HasRun(j)
    BY <1>2 DEF Fence, RunsInWindow, WindowRuns, HasRun
  <2>2. UNCHANGED <<job, runs, clock, calls>> /\ Goto(h, "plan")
    BY <1>2 DEF StopPrevious, dbVars
  <2>3. \A i \in Handlers : /\ i # h => handler'[i] = handler[i]
                            /\ handler'[i].job = handler[i].job
                            /\ handler'[i].retry = handler[i].retry
                            /\ handler'[h].pc = "plan"
    BY <1>1, <2>2 DEF Goto, HandlerType
  <2>4. OneHandlerPerAttempt'
    BY <1>1, <2>2, <2>3 DEF Fence, OneHandlerPerAttempt, Claimed, ClaimedPCs, JobOf, Attempt
  <2>5. NoRunBeforeBoundary'
    BY <2>1, <2>2, <2>3 DEF Fence, NoRunBeforeBoundary, HasRun, JobOf, Attempt
  <2>6. RunsInWindow'
    BY <2>2 DEF Fence, RunsInWindow
  <2>7. RunBeforeCall'
    BY <2>2, <2>3 DEF Fence, RunBeforeCall, HasRun, JobOf
  <2>. QED BY <2>4, <2>5, <2>6, <2>7 DEF Fence
<1>3. CASE WindowRuns(j) # {}
  <2>1. HandlersQuiet
    <3>1. "retryable" \in Errors /\ Claimed(h)
      BY <1>1 DEF Errors, Claimed, ClaimedPCs
    <3>. QED BY <1>3, <3>1, MoveQuiet DEF StopPrevious
  <2>2. JobsQuiet /\ RunsQuiet
    BY <1>1, <1>3, FailJobQuiet, UnchangedQuiet DEF StopPrevious, dbVars
  <2>. QED BY <2>1, <2>2, QuietFence DEF StopPrevious
<1>. QED BY <1>2, <1>3

\* A new run is opened by the only handler of the newest attempt, and no run
\* was there before.
LEMMA OpenFence ==
  ASSUME TypeInv, Fence, NEW h \in Handlers, OpenRun(h)
  PROVE  Fence'
<1> DEFINE j == JobOf(h)
<1>1. /\ handler \in [Handlers -> HandlerType] /\ j \in Jobs /\ job[j].status # "ABSENT"
      /\ handler[h].pc = "boundary" /\ job \in [Jobs -> JobType] /\ clock \in Nat
      /\ runs \subseteq RunType
  BY HandlerFacts DEF OpenRun, TypeInv, TypeOK
<1>2. CASE ~Owns(h)
  <2>1. HandlersQuiet
    BY <1>2, MoveQuiet DEF OpenRun
  <2>. QED BY <1>2, <2>1, UnchangedQuiet, QuietFence DEF OpenRun
<1>3. CASE Owns(h)
  <2>1. /\ ~HasRun(j) /\ job[j].attempt = Attempt(h) /\ calls[j] = 0
    <3>1. calls[j] \in Nat
      BY <1>1 DEF TypeInv, TypeOK
    <3>. QED BY <3>1, <1>1, <1>3
         DEF Fence, NoRunBeforeBoundary, RunBeforeCall, Owns
  <2>2. /\ runs' = runs \cup {NewRun(h, clock + 1)} /\ clock' = clock + 1 /\ UNCHANGED calls
        /\ job' = [job EXCEPT ![j].seq = @ + 1]
    BY <1>3 DEF OpenRun
  <2>3. \A k \in Jobs : /\ job'[k].version = job[k].version /\ job'[k].stage = job[k].stage
                        /\ job'[k].queuedAt = job[k].queuedAt /\ job'[k].status = job[k].status
                        /\ job'[k].attempt = job[k].attempt
    BY <1>1, <2>2 DEF JobType
  <2>4. \A i \in Handlers : /\ i # h => handler'[i] = handler[i]
                            /\ handler'[i].job = handler[i].job
                            /\ handler'[i].retry = handler[i].retry
                            /\ handler'[h].pc \in {"generate", "cleanup"}
    BY <1>1, <1>3 DEF OpenRun, Throw, HandlerType
  <2>5. \A i \in Handlers : Claimed(i) => JobOf(i) \in Jobs
    BY HandlerFacts DEF Claimed, ClaimedPCs
  <2>6. \A k \in Jobs : (\E r \in runs' : r.job = k) <=> k = j \/ HasRun(k)
    <3>1. NewRun(h, clock + 1).job = j
      BY DEF NewRun
    <3>. QED BY <3>1, <2>2 DEF HasRun
  <2>7. OneHandlerPerAttempt'
    <3>1. Claimed(h) /\ \A i \in Handlers : Claimed(i)' => Claimed(i)
      BY <1>1, <2>4 DEF Claimed, ClaimedPCs
    <3>. QED BY <3>1, <2>3, <2>4, <2>5 DEF Fence, OneHandlerPerAttempt, JobOf, Attempt
  <2>8. NoRunBeforeBoundary'
    <3>1. ASSUME NEW i \in Handlers, handler'[i].pc \in {"plan", "boundary"},
                 (job[JobOf(i)].attempt = Attempt(i))'
          PROVE  ~HasRun(JobOf(i))'
      <4>1. i # h /\ handler'[i] = handler[i] /\ Claimed(i) /\ Claimed(h)
        BY <1>1, <3>1, <2>4 DEF Claimed, ClaimedPCs
      <4>2. JobOf(i) \in Jobs /\ job[JobOf(i)].attempt = Attempt(i)
        BY <3>1, <4>1, <2>3, <2>5 DEF JobOf, Attempt
      <4>3. JobOf(i) # j
        <5>1. handler[i].retry \in Nat /\ handler[h].retry \in Nat
          BY <1>1, <4>1, HandlerFacts DEF Claimed, ClaimedPCs
        <5>. QED BY <4>1, <4>2, <5>1, <2>1 DEF Fence, OneHandlerPerAttempt, Attempt
      <4>. QED BY <3>1, <4>1, <4>2, <4>3, <2>6 DEF Fence, NoRunBeforeBoundary, HasRun, JobOf
    <3>. QED BY <3>1 DEF NoRunBeforeBoundary
  <2>9. RunsInWindow'
    <3>1. /\ NewRun(h, clock + 1).job = j /\ NewRun(h, clock + 1).startedAt = clock + 1
          /\ NewRun(h, clock + 1).version = job[j].version
          /\ NewRun(h, clock + 1).stage = job[j].stage
      BY DEF NewRun
    <3>2. \A k \in Jobs : job[k].queuedAt \in Nat
      BY <1>1 DEF JobType
    <3>3. \A k \in Jobs : job'[k].status # "ABSENT" => job'[k].queuedAt <= clock'
      BY <1>1, <2>2, <2>3, <3>2 DEF Fence, RunsInWindow
    <3>4. job[j].queuedAt <= clock + 1
      BY <1>1, <3>2 DEF Fence, RunsInWindow
    <3>5. \A r \in runs : r.job \in Jobs
      BY <1>1 DEF RunType
    <3>. QED BY <1>1, <2>2, <2>3, <3>1, <3>3, <3>4, <3>5 DEF Fence, RunsInWindow
  <2>10. RunBeforeCall'
    <3>1. \A i \in Handlers : handler[i].pc = "generate" => JobOf(i) # j /\ JobOf(i) \in Jobs
      BY <2>1, <2>5 DEF Fence, RunBeforeCall, Claimed, ClaimedPCs
    <3>2. /\ \A k \in Jobs : calls'[k] > 0 => HasRun(k)'
          /\ \A k \in Jobs : calls'[k] <= 1
      BY <2>2, <2>6 DEF Fence, RunBeforeCall, HasRun
    <3>3. \A i \in Handlers : handler'[i].pc = "generate" => HasRun(JobOf(i))' /\ calls'[JobOf(i)'] = 0
      BY <1>1, <2>1, <2>2, <2>4, <2>6, <3>1 DEF Fence, RunBeforeCall, HasRun, JobOf
    <3>4. \A i, k \in Handlers : handler'[i].pc = "generate" /\ handler'[k].pc = "generate"
                                 /\ JobOf(i)' = JobOf(k)' => i = k
      BY <2>4, <3>1 DEF Fence, RunBeforeCall, JobOf
    <3>. QED BY <3>2, <3>3, <3>4 DEF RunBeforeCall
  <2>. QED BY <2>7, <2>8, <2>9, <2>10 DEF Fence
<1>. QED BY <1>2, <1>3

LEMMA CallFence ==
  ASSUME TypeInv, Fence, NEW h \in Handlers, CallProvider(h)
  PROVE  Fence'
<1> DEFINE j == JobOf(h)
<1>1. /\ handler \in [Handlers -> HandlerType] /\ calls \in [Jobs -> Nat] /\ j \in Jobs
      /\ handler[h].pc = "generate" /\ UNCHANGED <<job, runs, clock>>
      /\ calls' = [calls EXCEPT ![j] = @ + 1]
  BY HandlerFacts DEF CallProvider, TypeInv, TypeOK, dbVars
<1>2. \A i \in Handlers : /\ i # h => handler'[i] = handler[i]
                          /\ handler'[i].job = handler[i].job
                          /\ handler'[i].retry = handler[i].retry
                          /\ handler'[h].pc = "provider"
  BY <1>1 DEF CallProvider, Goto, HandlerType
<1>3. OneHandlerPerAttempt'
  BY <1>1, <1>2 DEF Fence, OneHandlerPerAttempt, Claimed, ClaimedPCs, JobOf, Attempt
<1>4. NoRunBeforeBoundary'
  BY <1>1, <1>2 DEF Fence, NoRunBeforeBoundary, HasRun, JobOf, Attempt
<1>5. RunsInWindow'
  BY <1>1 DEF Fence, RunsInWindow
<1>6. RunBeforeCall'
  BY <1>1, <1>2 DEF Fence, RunBeforeCall, HasRun, JobOf
<1>. QED BY <1>3, <1>4, <1>5, <1>6 DEF Fence

LEMMA PlanFence ==
  ASSUME TypeInv, Fence, NEW h \in Handlers, PlanStage(h)
  PROVE  Fence'
<1>1. handler \in [Handlers -> HandlerType] /\ handler[h].pc = "plan" /\ Claimed(h)
  BY DEF PlanStage, TypeInv, TypeOK, Claimed, ClaimedPCs
<1>2. HandlersQuiet
  <2>1. CASE Throw(h, "settle", "retryable")
    BY <1>1, <2>1, MoveQuiet DEF Errors
  <2>2. CASE handler' = [handler EXCEPT ![h].pc = "boundary",
                                        ![h].prev = version[job[JobOf(h)].version].stage]
    BY <1>1, <2>2 DEF HandlersQuiet, Claimed, HandlerType
  <2>. QED BY <2>1, <2>2 DEF PlanStage
<1>. QED BY <1>2, UnchangedQuiet, QuietFence DEF PlanStage, dbVars

LEMMA HandlerFence ==
  ASSUME TypeInv, Fence, NEW h \in Handlers, HandlerStep(h)
  PROVE  Fence'
<1>1. /\ runs \subseteq RunType /\ job \in [Jobs -> JobType] /\ clock \in Nat
      /\ handler \in [Handlers -> HandlerType]
      /\ {"retryable", "blocked", "fatal"} \subseteq Errors
  BY DEF TypeInv, TypeOK, Errors
<1>2. LoadJob(h) => Fence'
  BY MoveQuiet, UnchangedQuiet, QuietFence DEF LoadJob, dbVars
<1>3. CheckTrend(h) => Fence'
  BY <1>1, MoveQuiet, UnchangedQuiet, QuietFence DEF CheckTrend, dbVars, Claimed, ClaimedPCs
<1>4. ProviderAnswers(h) => Fence'
  BY <1>1, MoveQuiet, UnchangedQuiet, QuietFence DEF ProviderAnswers, dbVars, Claimed, ClaimedPCs
<1>5. ASSUME CommitResult(h) PROVE Fence'
  <2>1. HandlersQuiet
    BY <1>1, <1>5, MoveQuiet DEF CommitResult, Claimed, ClaimedPCs
  <2>2. JobsQuiet /\ RunsQuiet
    BY <1>5, PersistQuiet, UnchangedQuiet DEF CommitResult, dbVars
  <2>. QED BY <2>1, <2>2, <1>5, QuietFence DEF CommitResult
<1>6. ASSUME CleanUp(h) PROVE Fence'
  <2>1. HandlersQuiet
    BY <1>6, MoveQuiet DEF CleanUp, Claimed, ClaimedPCs
  <2>2. RunsQuiet
    <3>1. \A r \in runs : SameRun(r, [r EXCEPT !.status = "FAILED"])
                           /\ SameRun([r EXCEPT !.status = "FAILED"], r) /\ SameRun(r, r)
      BY <1>1 DEF SameRun, RunType
    <3>2. CASE Owns(h)
      <4> DEFINE Closed(r) == IF r.startedAt = handler[h].run /\ r.status = "RUNNING"
                              THEN [r EXCEPT !.status = "FAILED"] ELSE r
      <4>1. runs' = {Closed(r) : r \in runs}
        BY <1>6, <3>2 DEF CleanUp
      <4>2. \A r \in runs : SameRun(r, Closed(r)) /\ SameRun(Closed(r), r)
        BY <3>1
      <4> HIDE DEF Closed
      <4>. QED BY <4>1, <4>2 DEF RunsQuiet
    <3>3. CASE ~Owns(h)
      BY <1>6, <3>3, UnchangedQuiet DEF CleanUp
    <3>. QED BY <3>2, <3>3
  <2>. QED BY <2>1, <2>2, <1>6, UnchangedQuiet, QuietFence DEF CleanUp
<1>7. ASSUME Settle(h) PROVE Fence'
  <2>1. HandlersQuiet
    BY <1>7, MoveQuiet DEF Settle
  <2>2. JobsQuiet /\ RunsQuiet
    <3>1. JobOf(h) \in Jobs /\ job[JobOf(h)].status # "ABSENT"
      BY <1>7, HandlerFacts DEF Settle
    <3>2. CASE job' = [job EXCEPT ![JobOf(h)].status = "RETRYING", ![JobOf(h)].completedAt = 0,
                                  ![JobOf(h)].seq = @ + 1]
               /\ UNCHANGED <<project, version, runs>>
      BY <1>1, <1>7, <3>1, <3>2, UnchangedQuiet DEF Settle, JobsQuiet, JobType
    <3>. QED BY <1>7, <3>1, <3>2, FailJobQuiet, UnchangedQuiet DEF Settle, dbVars
  <2>. QED BY <2>1, <2>2, <1>7, QuietFence DEF Settle
<1>8. ASSUME Acknowledge(h) PROVE Fence'
  <2>1. HandlersQuiet
    BY <1>1, <1>8 DEF Acknowledge, IdleHandler, HandlerAt, HandlersQuiet, Claimed, ClaimedPCs
  <2>. QED BY <2>1, <1>8, UnchangedQuiet, QuietFence DEF Acknowledge, dbVars
<1>. QED BY <1>2, <1>3, <1>4, <1>5, <1>6, <1>7, <1>8, ClaimFence, StopFence, PlanFence, OpenFence,
            CallFence DEF HandlerStep

LEMMA InitFence == Init => Fence
<1> SUFFICES ASSUME Init PROVE Fence
  OBVIOUS
<1>1. OneHandlerPerAttempt /\ NoRunBeforeBoundary
  BY DEF Init, IdleHandler, HandlerAt, OneHandlerPerAttempt, NoRunBeforeBoundary, Claimed,
         ClaimedPCs
<1>2. RunsInWindow /\ RunBeforeCall
  BY DEF Init, IdleHandler, HandlerAt, NoJob, RunsInWindow, RunBeforeCall
<1>. QED BY <1>1, <1>2 DEF Fence

LEMMA StepFence == TypeInv /\ Fence /\ [Next]_vars => Fence'
<1> SUFFICES ASSUME TypeInv, Fence, [Next]_vars PROVE Fence'
  OBVIOUS
<1>1. CASE Next
  BY <1>1, RequestFence, HandlerFence, EnvironmentFence, ReaderFence DEF Next
<1>2. CASE UNCHANGED vars
  BY <1>2, UnchangedQuiet, QuietFence DEF vars, dbVars
<1>. QED BY <1>1, <1>2

\* However often a job is delivered, retried, reconciled or interrupted, and
\* however many handlers work on it at once, executeStage makes the paid
\* call of the job at most once.
THEOREM PaidOnce == Spec => []AtMostOnePaidCall
<1>1. Init => TypeInv /\ Fence
  BY InitType, InitFence
<1>2. TypeInv /\ Fence /\ [Next]_vars => (TypeInv /\ Fence)'
  BY StepType, StepFence
<1>3. Fence => AtMostOnePaidCall
  BY DEF Fence, RunBeforeCall, AtMostOnePaidCall
<1>. QED BY <1>1, <1>2, <1>3, PTL DEF Spec

-----------------------------------------------------------------------------
(***************************************************************************)
(* The rows of Project, Version, Job and Run agree, for any number of      *)
(* handlers, readers, deliveries and failures.  Every action is one of     *)
(* five kinds: it begins no job, ends none and opens no run; it creates a  *)
(* job; it makes an active job FAILED; it persists a result; or it opens   *)
(* the run of a job.  One lemma for each kind preserves the invariant, one *)
(* per group of actions says of which kind they are.                       *)
(***************************************************************************)

CallPCs == {"generate", "provider", "commit"}

\* What a reader is about to end or to mark it has read as active.
ReadersSawActive ==
  \A r \in Readers : reader[r].pc \in {"queue", "grace", "fail", "mark"}
                       => ReaderStatus(r) \in ActiveStatuses

\* A job has one run, named by its time, and whoever calls for it knows it.
RunsKnown ==
  /\ \A q, r \in runs : q.job = r.job <=> q.startedAt = r.startedAt
  /\ \A r \in runs : r.startedAt <= clock
  /\ \A h \in Handlers : handler[h].pc \in CallPCs =>
       \E r \in runs : r.startedAt = handler[h].run /\ r.job = JobOf(h)

\* Runs of others lie outside the time of a job.
RunsFitTimes ==
  /\ \A j \in Jobs, r \in runs :
       /\ Active(j) /\ r.job # j => r.startedAt < job[j].queuedAt
       /\ Terminal(j) /\ r.job # j =>
            r.startedAt < job[j].queuedAt \/ r.startedAt > job[j].completedAt
       /\ Terminal(j) /\ r.job = j => r.startedAt <= job[j].completedAt
  /\ \A j \in Jobs : Terminal(j) => job[j].completedAt <= clock

Drafts == AtMostOneActiveJob /\ ActiveJobFitsDraft
Outcomes == EndedJobHasNoOpenRun /\ ResultIffSucceeded

Rows == /\ ReadersSawActive /\ Drafts /\ GeneratingHasActiveJob
        /\ RunsKnown /\ Outcomes /\ RunsFitTimes

-----------------------------------------------------------------------------
(* The kinds of steps. *)

FinalStays(j) ==
  Terminal(j) => job'[j].status = job[j].status /\ job'[j].completedAt = job[j].completedAt

SameWork(j) == /\ job'[j].version = job[j].version /\ job'[j].stage = job[j].stage
               /\ job'[j].queuedAt = job[j].queuedAt

JobsStay ==
  \A j \in Jobs : /\ SameWork(j) /\ FinalStays(j)
                  /\ \/ job'[j].status = job[j].status
                     \/ Active(j) /\ job'[j].status \in ActiveStatuses

Closes(q, r) == SameRun(q, r) /\ (r.status = q.status \/ (q.status = "RUNNING" /\ r.status = "FAILED"))
RunsClose ==
  /\ \A r \in runs' : \E q \in runs : Closes(q, r)
  /\ \A q \in runs : \E r \in runs' : Closes(q, r)

\* Nobody but OpenRun brings a handler to its call.
KeepsRun ==
  \A h \in Handlers : handler'[h].pc \in CallPCs =>
    handler[h].pc \in CallPCs /\ handler'[h].job = handler[h].job
    /\ handler'[h].run = handler[h].run

Quiet ==
  /\ JobsStay /\ RunsClose /\ KeepsRun /\ UNCHANGED clock
  /\ project'.status = "GENERATING" => project.status = "GENERATING"
  /\ version' = version \/ NoActiveJob

Creates(j, v, s) ==
  /\ job[j].status = "ABSENT" /\ NoActiveJob
  /\ job' = [job EXCEPT ![j] = QueuedJob(v, s, clock + 1)]
  /\ clock' = clock + 1
  /\ UNCHANGED runs /\ KeepsRun
  /\ version'[v].status = "STAGING" /\ CanRun(version'[v], s)

Fails(j) == FailJob(j) /\ Active(j) /\ KeepsRun /\ UNCHANGED clock

Persists(h) ==
  handler[h].pc = "commit" /\ Owns(h) /\ PersistResult(h) /\ KeepsRun /\ UNCHANGED clock

\* What the proofs below use of the types.
LEMMA RowTypes ==
  ASSUME TypeInv
  PROVE  /\ job \in [Jobs -> JobType] /\ runs \subseteq RunType /\ clock \in Nat
         /\ handler \in [Handlers -> HandlerType] /\ version \in [Versions -> VersionType]
         /\ project \in ProjectType
         /\ \A r \in runs : r.job \in Jobs /\ r.startedAt \in Nat
         /\ \A j \in Jobs : job[j].queuedAt \in Nat /\ job[j].completedAt \in Nat
         /\ \A j \in Jobs : job[j].status # "ABSENT" => job[j].version \in Versions
  BY DEF TypeInv, TypeOK, RunType, JobType

LEMMA QuietRows ==
  ASSUME TypeInv, Rows, Quiet, ReadersSawActive'
  PROVE  Rows'
<1>1. \A j \in Jobs : /\ Active(j)' <=> Active(j)
                      /\ Terminal(j)' <=> Terminal(j)
                      /\ Terminal(j) => job'[j].completedAt = job[j].completedAt
                      /\ job'[j].status = "SUCCEEDED" <=> job[j].status = "SUCCEEDED"
                      /\ SameWork(j)
  BY DEF Quiet, JobsStay, FinalStays, Active, Terminal, ActiveStatuses, TerminalStatuses
<1>2. Drafts'
  BY <1>1 DEF Rows, Drafts, AtMostOneActiveJob, ActiveJobFitsDraft, Quiet, SameWork, Staging,
              NoActiveJob
<1>3. GeneratingHasActiveJob'
  BY <1>1 DEF Rows, GeneratingHasActiveJob, NoActiveJob, Quiet
<1>4. RunsKnown'
  <2>1. \A q, r \in runs' : q.job = r.job <=> q.startedAt = r.startedAt
    BY DEF Rows, RunsKnown, Quiet, RunsClose, Closes, SameRun
  <2>2. \A r \in runs' : r.startedAt <= clock'
    BY DEF Rows, RunsKnown, Quiet, RunsClose, Closes, SameRun
  <2>3. ASSUME NEW h \in Handlers, handler'[h].pc \in CallPCs
        PROVE  \E r \in runs' : r.startedAt = handler'[h].run /\ r.job = JobOf(h)'
    <3>1. PICK q \in runs : q.startedAt = handler[h].run /\ q.job = JobOf(h)
      BY <2>3 DEF Rows, RunsKnown, Quiet, KeepsRun
    <3>2. PICK r \in runs' : Closes(q, r)
      BY DEF Quiet, RunsClose
    <3>. QED BY <2>3, <3>1, <3>2 DEF Quiet, KeepsRun, Closes, SameRun, JobOf
  <2>. QED BY <2>1, <2>2, <2>3 DEF RunsKnown
<1>5. Outcomes'
  <2>1. \A r \in runs : r.job \in Jobs
    BY RowTypes
  <2>2. EndedJobHasNoOpenRun'
    BY <1>1, <2>1 DEF Rows, Outcomes, EndedJobHasNoOpenRun, Quiet, RunsClose, Closes, SameRun
  <2>3. ResultIffSucceeded'
    BY <1>1 DEF Rows, Outcomes, ResultIffSucceeded, Quiet, RunsClose, Closes, SameRun
  <2>. QED BY <2>2, <2>3 DEF Outcomes
<1>6. RunsFitTimes'
  BY <1>1 DEF Rows, RunsFitTimes, Quiet, RunsClose, Closes, SameRun, SameWork
<1>. QED BY <1>2, <1>3, <1>4, <1>5, <1>6 DEF Rows

LEMMA CreateRows ==
  ASSUME TypeInv, Fence, Rows, NEW j \in Jobs, NEW v \in Versions, NEW s \in Stages,
         Creates(j, v, s), ReadersSawActive'
  PROVE  Rows'
<1>1. /\ \A k \in Jobs : k # j => job'[k] = job[k]
      /\ job'[j].status = "QUEUED" /\ job'[j].version = v /\ job'[j].stage = s
      /\ job'[j].queuedAt = clock + 1
      /\ \A k \in Jobs : ~Active(k)
      /\ \A r \in runs : r.job # j /\ r.job \in Jobs /\ r.startedAt \in Nat
  BY RowTypes DEF Creates, QueuedJob, Fence, RunsInWindow, NoActiveJob
<1>2. Active(j)' /\ ~Terminal(j)' /\ \A k \in Jobs : Active(k)' => k = j
  BY <1>1 DEF Active, Terminal, ActiveStatuses, TerminalStatuses
<1>3. Drafts'
  BY <1>1, <1>2 DEF Drafts, AtMostOneActiveJob, ActiveJobFitsDraft, Creates, Staging
<1>4. GeneratingHasActiveJob'
  BY <1>2 DEF GeneratingHasActiveJob, NoActiveJob
<1>5. RunsKnown'
  BY <1>1, RowTypes DEF Rows, RunsKnown, Creates, KeepsRun, JobOf
<1>6. Outcomes'
  BY <1>1, <1>2 DEF Rows, Outcomes, EndedJobHasNoOpenRun, ResultIffSucceeded, Creates, Terminal
<1>7. RunsFitTimes'
  <2>1. \A k \in Jobs : k # j => (Terminal(k)' <=> Terminal(k)) /\ job'[k].completedAt \in Nat
    BY <1>1, RowTypes DEF Terminal
  <2>2. \A r \in runs : r.startedAt < job'[j].queuedAt
    BY <1>1, RowTypes DEF Rows, RunsKnown
  <2>. QED BY <1>1, <1>2, <2>1, <2>2, RowTypes DEF Rows, RunsFitTimes, Creates
<1>. QED BY <1>3, <1>4, <1>5, <1>6, <1>7 DEF Rows

\* The end of j closes every run of it, which are all in its window.
LEMMA FailRows ==
  ASSUME TypeInv, Fence, Rows, NEW j \in Jobs, Fails(j), ReadersSawActive'
  PROVE  Rows'
<1>1. /\ \A k \in Jobs : k # j => job'[k] = job[k]
      /\ job'[j].status = "FAILED" /\ job'[j].completedAt = clock
      /\ SameWork(j) /\ UNCHANGED version
      /\ Active(j) /\ ~Active(j)' /\ Terminal(j)'
      /\ job[j].status # "SUCCEEDED"
  BY RowTypes
  DEF Fails, FailJob, SameWork, JobType, Active, Terminal, ActiveStatuses, TerminalStatuses
<1>2. \A k \in Jobs : k # j => (Active(k)' <=> Active(k)) /\ (Terminal(k)' <=> Terminal(k))
                                /\ ~Active(k)
  BY <1>1 DEF Active, Terminal, Rows, Drafts, AtMostOneActiveJob
<1>3. /\ \A r \in runs' : \E q \in runs : Closes(q, r) /\ (r.job = j => r.status # "RUNNING")
      /\ \A q \in runs : \E r \in runs' : Closes(q, r)
  <2> DEFINE Closed(r) == IF r \in WindowRuns(j) /\ r.startedAt <= clock /\ r.status = "RUNNING"
                          THEN [r EXCEPT !.status = "FAILED"] ELSE r
  <2>1. runs' = {Closed(r) : r \in runs}
    BY DEF Fails, FailJob, RunsClosed
  <2>2. \A r \in runs : r.job = j => r \in WindowRuns(j) /\ r.startedAt <= clock
    BY DEF Fence, RunsInWindow, WindowRuns, Rows, RunsKnown
  <2>3. ASSUME NEW r \in runs
        PROVE  Closes(r, Closed(r)) /\ (Closed(r).job = j => Closed(r).status # "RUNNING")
    BY <2>2, RowTypes DEF RunType, Closes, SameRun
  <2> HIDE DEF Closed
  <2>. QED BY <2>1, <2>3
<1>4. Drafts'
  BY <1>1, <1>2 DEF Drafts, AtMostOneActiveJob, ActiveJobFitsDraft
<1>5. GeneratingHasActiveJob'
  BY <1>1, <1>2, RowTypes
  DEF Fails, FailJob, ProjectRepaired, ProjectType, GeneratingHasActiveJob
<1>6. RunsKnown'
  <2>1. \A q, r \in runs' : q.job = r.job <=> q.startedAt = r.startedAt
    BY <1>3 DEF Rows, RunsKnown, Closes, SameRun
  <2>2. \A r \in runs' : r.startedAt <= clock'
    BY <1>3 DEF Rows, RunsKnown, Closes, SameRun, Fails
  <2>3. ASSUME NEW h \in Handlers, handler'[h].pc \in CallPCs
        PROVE  \E r \in runs' : r.startedAt = handler'[h].run /\ r.job = JobOf(h)'
    <3>1. PICK q \in runs : q.startedAt = handler[h].run /\ q.job = JobOf(h)
      BY <2>3 DEF Rows, RunsKnown, Fails, KeepsRun
    <3>2. PICK r \in runs' : Closes(q, r)
      BY <1>3
    <3>. QED BY <2>3, <3>1, <3>2 DEF Fails, KeepsRun, Closes, SameRun, JobOf
  <2>. QED BY <2>1, <2>2, <2>3 DEF RunsKnown
<1>7. Outcomes'
  <2>1. \A r \in runs : r.job \in Jobs
    BY RowTypes
  <2>2. EndedJobHasNoOpenRun'
    BY <1>2, <1>3, <2>1 DEF Rows, Outcomes, EndedJobHasNoOpenRun, Closes, SameRun
  <2>3. ResultIffSucceeded'
    BY <1>1, <1>3 DEF Rows, Outcomes, ResultIffSucceeded, Closes, SameRun
  <2>. QED BY <2>2, <2>3 DEF Outcomes
<1>8. RunsFitTimes'
  <2>1. \A q \in runs : /\ q.startedAt <= clock
                        /\ q.job # j => q.startedAt < job[j].queuedAt
    BY <1>1 DEF Rows, RunsKnown, RunsFitTimes
  <2>2. \A r \in runs' : /\ r.startedAt <= clock
                         /\ r.job # j => r.startedAt < job[j].queuedAt
    BY <1>3, <2>1 DEF Closes, SameRun
  <2>3. \A k \in Jobs, r \in runs' : k # j /\ Terminal(k) =>
          /\ r.job # k => r.startedAt < job[k].queuedAt \/ r.startedAt > job[k].completedAt
          /\ r.job = k => r.startedAt <= job[k].completedAt
    BY <1>3 DEF Rows, RunsFitTimes, Closes, SameRun
  <2>4. clock' = clock /\ clock \in Nat
    BY RowTypes DEF Fails
  <2>. QED BY <1>1, <1>2, <2>2, <2>3, <2>4 DEF Rows, RunsFitTimes, SameWork
<1>. QED BY <1>4, <1>5, <1>6, <1>7, <1>8 DEF Rows

\* The result completes the run of the job, and there is no other.
LEMMA PersistRows ==
  ASSUME TypeInv, Fence, Rows, NEW h \in Handlers, NEW j \in Jobs, j = JobOf(h), Persists(h),
         ReadersSawActive'
  PROVE  Rows'
<1>1. /\ job[j].status = "RUNNING" /\ Active(j)
  BY HandlerFacts DEF Persists, Owns, Active, ActiveStatuses
<1>2. /\ \A k \in Jobs : k # j => job'[k] = job[k]
      /\ job'[j].status = "SUCCEEDED" /\ job'[j].completedAt = clock
      /\ SameWork(j) /\ ~Active(j)' /\ Terminal(j)'
  BY <1>1, RowTypes
  DEF Persists, PersistResult, SameWork, JobType, Active, Terminal, ActiveStatuses, TerminalStatuses
<1>3. \A k \in Jobs : k # j => (Active(k)' <=> Active(k)) /\ (Terminal(k)' <=> Terminal(k))
                                /\ ~Active(k)
  BY <1>1, <1>2 DEF Active, Terminal, Rows, Drafts, AtMostOneActiveJob
<1>4. \A k \in Jobs : ~Active(k)'
  BY <1>2, <1>3
<1>5. /\ \A r \in runs' : \E q \in runs :
            /\ SameRun(q, r)
            /\ r.job = j => r.status = "COMPLETED"
            /\ r.job # j => r.status = q.status
      /\ \A q \in runs : \E r \in runs' : SameRun(q, r) /\ (q.job # j => r.status = q.status)
  <2> DEFINE Done(r) == IF r.startedAt = handler[h].run THEN [r EXCEPT !.status = "COMPLETED"] ELSE r
  <2>1. runs' = {Done(r) : r \in runs}
    BY DEF Persists, PersistResult, RunCompleted
  <2>2. PICK own \in runs : own.startedAt = handler[h].run /\ own.job = j
    BY DEF Persists, CallPCs, Rows, RunsKnown
  <2>3. \A r \in runs : r.startedAt = handler[h].run <=> r.job = j
    BY <2>2 DEF Rows, RunsKnown
  <2>4. ASSUME NEW r \in runs
        PROVE  /\ SameRun(r, Done(r))
               /\ Done(r).job = j => Done(r).status = "COMPLETED"
               /\ Done(r).job # j => Done(r).status = r.status
               /\ r.job # j => Done(r).status = r.status
    BY <2>3, RowTypes DEF RunType, SameRun
  <2> HIDE DEF Done
  <2>. QED BY <2>1, <2>4
<1>6. \E r \in runs' : r.job = j /\ r.status = "COMPLETED"
  <2>1. PICK own \in runs : own.job = j
    BY DEF Persists, CallPCs, Rows, RunsKnown
  <2>2. PICK r \in runs' : SameRun(own, r)
    BY <1>5
  <2>. QED BY <2>1, <2>2, <1>5 DEF SameRun
<1>7. Drafts'
  BY <1>4 DEF Drafts, AtMostOneActiveJob, ActiveJobFitsDraft
<1>8. GeneratingHasActiveJob'
  BY RowTypes DEF Persists, PersistResult, ProjectType, GeneratingHasActiveJob
<1>9. RunsKnown'
  <2>1. \A q, r \in runs' : q.job = r.job <=> q.startedAt = r.startedAt
    BY <1>5 DEF Rows, RunsKnown, SameRun
  <2>2. \A r \in runs' : r.startedAt <= clock'
    BY <1>5 DEF Rows, RunsKnown, SameRun, Persists
  <2>3. ASSUME NEW i \in Handlers, handler'[i].pc \in CallPCs
        PROVE  \E r \in runs' : r.startedAt = handler'[i].run /\ r.job = JobOf(i)'
    <3>1. PICK q \in runs : q.startedAt = handler[i].run /\ q.job = JobOf(i)
      BY <2>3 DEF Rows, RunsKnown, Persists, KeepsRun
    <3>2. PICK r \in runs' : SameRun(q, r)
      BY <1>5
    <3>. QED BY <2>3, <3>1, <3>2 DEF Persists, KeepsRun, SameRun, JobOf
  <2>. QED BY <2>1, <2>2, <2>3 DEF RunsKnown
<1>10. Outcomes'
  <2>1. \A r \in runs : r.job \in Jobs
    BY RowTypes
  <2>2. EndedJobHasNoOpenRun'
    BY <1>3, <1>5, <2>1 DEF Rows, Outcomes, EndedJobHasNoOpenRun, SameRun
  <2>3. ASSUME NEW k \in Jobs
        PROVE  job'[k].status = "SUCCEEDED" <=> \E r \in runs' : r.job = k /\ r.status = "COMPLETED"
    <3>1. CASE k = j
      BY <3>1, <1>2, <1>6
    <3>2. CASE k # j
      BY <3>2, <1>2, <1>5 DEF Rows, Outcomes, ResultIffSucceeded, SameRun
    <3>. QED BY <3>1, <3>2
  <2>. QED BY <2>2, <2>3 DEF Outcomes, ResultIffSucceeded
<1>11. RunsFitTimes'
  <2>1. \A q \in runs : /\ q.startedAt <= clock
                        /\ q.job # j => q.startedAt < job[j].queuedAt
    BY <1>1 DEF Rows, RunsKnown, RunsFitTimes
  <2>2. \A r \in runs' : /\ r.startedAt <= clock
                         /\ r.job # j => r.startedAt < job[j].queuedAt
    BY <1>5, <2>1 DEF SameRun
  <2>3. \A k \in Jobs, r \in runs' : k # j /\ Terminal(k) =>
          /\ r.job # k => r.startedAt < job[k].queuedAt \/ r.startedAt > job[k].completedAt
          /\ r.job = k => r.startedAt <= job[k].completedAt
    BY <1>5 DEF Rows, RunsFitTimes, SameRun
  <2>4. clock' = clock /\ clock \in Nat
    BY RowTypes DEF Persists
  <2>. QED BY <1>2, <1>3, <2>2, <2>3, <2>4 DEF Rows, RunsFitTimes, SameWork
<1>. QED BY <1>7, <1>8, <1>9, <1>10, <1>11 DEF Rows

\* The run of an attempt that still owns its job is the job's first one.
LEMMA OpenRows ==
  ASSUME TypeInv, Fence, Rows, NEW h \in Handlers, NEW j \in Jobs, j = JobOf(h), OpenRun(h),
         Owns(h), ReadersSawActive'
  PROVE  Rows'
<1>1. /\ job[j].status = "RUNNING" /\ Active(j) /\ ~HasRun(j)
      /\ UNCHANGED version /\ clock' = clock + 1
      /\ project'.status = "GENERATING"
      /\ handler[h].pc = "boundary"
  BY RowTypes DEF OpenRun, Owns, Active, ActiveStatuses, Fence, NoRunBeforeBoundary, ProjectType
<1>2. \A k \in Jobs : /\ job'[k].status = job[k].status /\ SameWork(k)
                      /\ job'[k].completedAt = job[k].completedAt
                      /\ k # j => ~Active(k)
  BY <1>1, RowTypes DEF OpenRun, JobType, SameWork, Rows, Drafts, AtMostOneActiveJob
<1>3. \A k \in Jobs : (Active(k)' <=> Active(k)) /\ (Terminal(k)' <=> Terminal(k))
  BY <1>2 DEF Active, Terminal
<1>4. PICK own : /\ runs' = runs \cup {own} /\ own.startedAt = clock + 1 /\ own.job = j
                 /\ own.status = "RUNNING"
  <2>1. /\ NewRun(h, clock + 1).startedAt = clock + 1 /\ NewRun(h, clock + 1).job = j
        /\ NewRun(h, clock + 1).status = "RUNNING"
    BY DEF NewRun
  <2>2. runs' = runs \cup {NewRun(h, clock + 1)}
    BY DEF OpenRun
  <2>. QED BY <2>1, <2>2
<1>5. \A r \in runs : /\ r.job \in Jobs /\ r.job # j /\ r.startedAt \in Nat /\ r.startedAt <= clock
                      /\ clock \in Nat
  BY <1>1, RowTypes DEF HasRun, Rows, RunsKnown
<1>6. Drafts'
  BY <1>1, <1>2, <1>3
  DEF Rows, Drafts, AtMostOneActiveJob, ActiveJobFitsDraft, SameWork, Staging
<1>7. GeneratingHasActiveJob'
  BY <1>1, <1>3 DEF GeneratingHasActiveJob, NoActiveJob
<1>8. RunsKnown'
  <2>1. \A q, r \in runs' : q.job = r.job <=> q.startedAt = r.startedAt
    BY <1>4, <1>5 DEF Rows, RunsKnown
  <2>2. \A r \in runs' : r.startedAt <= clock'
    BY <1>1, <1>4, <1>5
  <2>3. ASSUME NEW i \in Handlers, handler'[i].pc \in CallPCs
        PROVE  \E r \in runs' : r.startedAt = handler'[i].run /\ r.job = JobOf(i)'
    <3>1. CASE i = h
      <4>1. handler'[h].run = clock + 1 /\ handler'[h].job = j
        BY <2>3, <3>1, RowTypes DEF OpenRun, Throw, HandlerType, CallPCs, JobOf
      <4>. QED BY <3>1, <4>1, <1>4 DEF JobOf
    <3>2. CASE i # h
      <4>1. handler'[i] = handler[i]
        BY <3>2, RowTypes DEF OpenRun, Throw
      <4>. QED BY <2>3, <4>1, <1>4 DEF Rows, RunsKnown, JobOf
    <3>. QED BY <3>1, <3>2
  <2>. QED BY <2>1, <2>2, <2>3 DEF RunsKnown
<1>9. Outcomes'
  <2>1. ~Terminal(j)
    BY <1>1 DEF Terminal, TerminalStatuses
  <2>2. EndedJobHasNoOpenRun'
    BY <1>3, <1>4, <1>5, <2>1 DEF Rows, Outcomes, EndedJobHasNoOpenRun
  <2>3. ResultIffSucceeded'
    BY <1>2, <1>4 DEF Rows, Outcomes, ResultIffSucceeded
  <2>. QED BY <2>2, <2>3 DEF Outcomes
<1>10. RunsFitTimes'
  <2>1. ~Terminal(j)
    BY <1>1 DEF Terminal, TerminalStatuses
  <2>2. \A k \in Jobs : Terminal(k) => job[k].completedAt < own.startedAt
                                       /\ job[k].completedAt <= clock'
    BY <1>1, <1>4, RowTypes DEF Rows, RunsFitTimes
  <2>3. \A k \in Jobs, r \in runs :
          /\ Active(k) /\ r.job # k => r.startedAt < job[k].queuedAt
          /\ Terminal(k) /\ r.job # k =>
               r.startedAt < job[k].queuedAt \/ r.startedAt > job[k].completedAt
          /\ Terminal(k) /\ r.job = k => r.startedAt <= job[k].completedAt
    BY DEF Rows, RunsFitTimes
  <2>4. \A k \in Jobs : /\ Active(k) => k = j
                        /\ Terminal(k) => k # j /\ own.startedAt > job[k].completedAt
    BY <1>2, <1>4, <2>1, <2>2, RowTypes
  <2>. QED BY <1>2, <1>3, <1>4, <2>2, <2>3, <2>4 DEF RunsFitTimes, SameWork
<1>. QED BY <1>6, <1>7, <1>8, <1>9, <1>10 DEF Rows

-----------------------------------------------------------------------------
(* The kind of each action. *)

LEMMA MoveKeepsRun ==
  ASSUME TypeInv, NEW h \in Handlers
  PROVE  /\ \A p : p \notin CallPCs \/ handler[h].pc \in CallPCs => (Goto(h, p) => KeepsRun)
         /\ \A p, e : p \notin CallPCs => (Throw(h, p, e) => KeepsRun)
         /\ \A p : p \notin CallPCs => (Leave(h, p) => KeepsRun)
         /\ UNCHANGED handler => KeepsRun
<1>1. handler \in [Handlers -> HandlerType]
  BY RowTypes
<1>2. ASSUME NEW p, p \notin CallPCs \/ handler[h].pc \in CallPCs, Goto(h, p) PROVE KeepsRun
  BY <1>1, <1>2 DEF Goto, KeepsRun, HandlerType
<1>3. ASSUME NEW p, NEW e, p \notin CallPCs, Throw(h, p, e) PROVE KeepsRun
  BY <1>1, <1>3 DEF Throw, KeepsRun, HandlerType
<1>4. ASSUME NEW p, p \notin CallPCs, Leave(h, p) PROVE KeepsRun
  BY <1>1, <1>4 DEF Leave, HandlerAt, KeepsRun
<1>5. UNCHANGED handler => KeepsRun
  BY DEF KeepsRun
<1>. QED BY <1>2, <1>3, <1>4, <1>5

LEMMA UnchangedRows ==
  /\ UNCHANGED job => JobsStay
  /\ UNCHANGED runs => RunsClose
  /\ UNCHANGED reader /\ ReadersSawActive => ReadersSawActive'
<1>1. UNCHANGED job => JobsStay
  BY DEF JobsStay, SameWork, FinalStays
<1>2. UNCHANGED runs => RunsClose
  BY DEF RunsClose, Closes, SameRun
<1>3. UNCHANGED reader /\ ReadersSawActive => ReadersSawActive'
  BY DEF ReadersSawActive, ReaderStatus
<1>. QED BY <1>1, <1>2, <1>3

\* A step that leaves the rows alone.
LEMMA IdleRows ==
  ASSUME TypeInv, Rows, UNCHANGED <<dbVars, clock>>, KeepsRun, ReadersSawActive'
  PROVE  Rows'
  BY UnchangedRows, QuietRows DEF Quiet, dbVars

\* The three requests that queue a job leave a staging draft on which it can run.
LEMMA RequestCreates ==
  ASSUME TypeInv, Rows
  PROVE  /\ \A j \in Jobs, v \in Versions : Enqueue(j, v) => Creates(j, v, 1)
         /\ \A j \in Jobs, v \in Versions, s \in Stages : RegenerateStage(j, v, s) => Creates(j, v, s)
         /\ \A j \in Jobs, v \in Versions, s \in Stages :
              ConfirmStage(j, v, s) => NextStage(s) \in Stages /\ Creates(j, v, NextStage(s))
<1>1. UNCHANGED handler => KeepsRun
  BY DEF KeepsRun
<1>2. ASSUME NEW j \in Jobs, NEW v \in Versions, Enqueue(j, v) PROVE Creates(j, v, 1)
  <2>1. NoActiveJob
    BY <1>2, RowTypes
    DEF Enqueue, Rows, Drafts, ActiveJobFitsDraft, NoActiveJob, Active, ActiveStatuses
  <2>2. version'[v] = NewDraft
    BY <1>2, RowTypes DEF Enqueue
  <2>3. NewDraft.status = "STAGING" /\ CanRun(NewDraft, 1)
    BY DEF NewDraft, NoVersion, CanRun
  <2>. QED BY <1>1, <1>2, <2>1, <2>2, <2>3 DEF Enqueue, CreateQueuedJob, FreshJob, Creates
<1>3. ASSUME NEW j \in Jobs, NEW v \in Versions, NEW s \in Stages, RegenerateStage(j, v, s)
      PROVE  Creates(j, v, s)
  <2>1. CanRun(version[v], s) /\ version[v].status = "STAGING"
    BY <1>3 DEF RegenerateStage, RetriesFirstStage, CanRun, Staging
  <2>. QED BY <1>1, <1>3, <2>1 DEF RegenerateStage, CreateQueuedJob, FreshJob, Creates
<1>4. ASSUME NEW j \in Jobs, NEW v \in Versions, NEW s \in Stages, ConfirmStage(j, v, s)
      PROVE  NextStage(s) \in Stages /\ Creates(j, v, NextStage(s))
  <2>1. version'[v].status = "STAGING" /\ version'[v].stage = s /\ version'[v].confirmed = s
    BY <1>4, RowTypes DEF ConfirmStage, Staging, VersionType
  <2>2. NextStage(s) = s + 1 /\ NextStage(s) # 1 /\ NextStage(s) \in Stages
    BY <1>4, StageAssumption DEF ConfirmStage, NextStage, NoStage, Stages
  <2>3. CanRun(version'[v], NextStage(s))
    BY <2>1, <2>2 DEF CanRun, Stages
  <2>. QED BY <1>1, <1>4, <2>1, <2>2, <2>3 DEF ConfirmStage, CreateQueuedJob, FreshJob, Creates
<1>. QED BY <1>2, <1>3, <1>4

LEMMA RequestRows ==
  ASSUME TypeInv, Fence, Rows, UserRequest
  PROVE  Rows'
<1>1. ReadersSawActive' /\ KeepsRun
  <2>1. UNCHANGED <<reader, handler>>
    BY DEF UserRequest, Enqueue, RegenerateStage, ConfirmStage, ConfirmScript, UpdateStage
  <2>. QED BY <2>1, UnchangedRows DEF Rows, KeepsRun
<1>2. ASSUME NEW j \in Jobs, NEW v \in Versions, Enqueue(j, v) PROVE Rows'
  BY <1>1, <1>2, ConstantFacts, RequestCreates, CreateRows
<1>3. ASSUME NEW j \in Jobs, NEW v \in Versions, NEW s \in Stages, RegenerateStage(j, v, s)
      PROVE  Rows'
  BY <1>1, <1>3, RequestCreates, CreateRows
<1>4. ASSUME NEW j \in Jobs, NEW v \in Versions, NEW s \in Stages, ConfirmStage(j, v, s)
      PROVE  Rows'
  BY <1>1, <1>4, RequestCreates, CreateRows
<1>5. ASSUME NEW v \in Versions, ConfirmScript(v) PROVE Rows'
  <2>1. JobsStay
    <3>1. CASE UNCHANGED job
      BY <3>1, UnchangedRows
    <3>2. CASE \E j \in ResultJobs(v) : job' = [job EXCEPT ![j].result = v]
      BY <3>2, RowTypes DEF ResultJobs, JobsStay, SameWork, FinalStays, JobType
    <3>. QED BY <1>5, <3>1, <3>2 DEF ConfirmScript
  <2>2. project'.status = "READY"
    BY <1>5, RowTypes DEF ConfirmScript, ProjectType
  <2>. QED BY <1>1, <1>5, <2>1, <2>2, UnchangedRows, QuietRows DEF ConfirmScript, Quiet
<1>6. ASSUME NEW v \in Versions, NEW s \in Stages, UpdateStage(v, s) PROVE Rows'
  BY <1>1, <1>6, UnchangedRows, QuietRows DEF UpdateStage, Quiet
<1>. QED BY <1>2, <1>3, <1>4, <1>5, <1>6 DEF UserRequest

LEMMA EnvironmentRows ==
  ASSUME TypeInv, Rows
  PROVE  /\ \A h \in Handlers, j \in Jobs : Deliver(h, j) => Rows'
         /\ \A h \in Handlers : StepFails(h) => Rows'
         /\ \A j \in Jobs : LoseDelivery(j) => Rows'
         /\ Crash => Rows'
         /\ ReviewTrend => Rows'
<1>1. ReadersSawActive
  BY DEF Rows
<1>2. ASSUME NEW h \in Handlers, NEW j \in Jobs, Deliver(h, j) PROVE Rows'
  <2>1. KeepsRun
    BY <1>2, RowTypes DEF Deliver, HandlerAt, KeepsRun, CallPCs
  <2>. QED BY <1>1, <1>2, <2>1, UnchangedRows, IdleRows DEF Deliver
<1>3. ASSUME NEW h \in Handlers, StepFails(h) PROVE Rows'
  <2>1. KeepsRun
    <3>1. CASE handler' = [handler EXCEPT ![h] = IdleHandler]
      BY <3>1, RowTypes DEF IdleHandler, HandlerAt, KeepsRun, CallPCs
    <3>2. \A p \in {"nack", "ack", "settle", "cleanup"} : p \notin CallPCs
      BY DEF CallPCs
    <3>. QED BY <1>3, <3>1, <3>2, MoveKeepsRun DEF StepFails
  <2>. QED BY <1>1, <1>3, <2>1, UnchangedRows, IdleRows DEF StepFails
<1>4. ASSUME NEW j \in Jobs, LoseDelivery(j) PROVE Rows'
  BY <1>1, <1>4, UnchangedRows, IdleRows DEF LoseDelivery, KeepsRun
<1>5. ASSUME Crash PROVE Rows'
  <2>1. KeepsRun /\ ReadersSawActive'
    BY <1>5 DEF Crash, IdleHandler, HandlerAt, IdleReader, KeepsRun, CallPCs, ReadersSawActive
  <2>. QED BY <1>5, <2>1, IdleRows DEF Crash
<1>6. ReviewTrend => Rows'
  BY <1>1, UnchangedRows, IdleRows DEF ReviewTrend, KeepsRun
<1>. QED BY <1>2, <1>3, <1>4, <1>5, <1>6

LEMMA ReaderRows ==
  ASSUME TypeInv, Fence, Rows, NEW r \in Readers
  PROVE  /\ \A j \in Jobs : ReadJob(r, j) => Rows'
         /\ ReaderStep(r) => Rows'
<1>1. /\ reader \in [Readers -> ReaderType] /\ ReadersSawActive
      /\ reader[r].pc # "idle" => reader[r].job \in Jobs
  BY DEF TypeInv, TypeOK, Rows
<1>2. UNCHANGED handler => KeepsRun
  BY DEF KeepsRun
<1>3. ASSUME NEW j \in Jobs, ReadJob(r, j) PROVE Rows'
  <2>1. ReadersSawActive'
    BY <1>1, <1>3 DEF ReadJob, ReadersSawActive, ReaderStatus, Active
  <2>. QED BY <1>2, <1>3, <2>1, IdleRows DEF ReadJob
<1>4. \A p : reader[r].pc # "idle" /\ reader[r].pc # "repair" /\ ReaderGoto(r, p) => ReadersSawActive'
  BY <1>1 DEF ReaderGoto, ReadersSawActive, ReaderStatus, ReaderType
<1>5. ReaderDone(r) => ReadersSawActive'
  BY <1>1 DEF ReaderDone, IdleReader, ReadersSawActive, ReaderStatus
<1>6. ASSUME ReadQueueRow(r) \/ JudgeGrace(r) PROVE Rows'
  <2>1. ReadersSawActive'
    BY <1>4, <1>5, <1>6 DEF ReadQueueRow, JudgeGrace
  <2>. QED BY <1>2, <1>6, <2>1, IdleRows DEF ReadQueueRow, JudgeGrace
<1>7. ASSUME FailUndelivered(r) PROVE Rows'
  <2>1. CASE StillAsRead(r)
    <3>1. Active(reader[r].job)
      BY <1>1, <1>7, <2>1 DEF FailUndelivered, StillAsRead, ReadersSawActive, ReaderStatus, Active
    <3>. QED BY <1>1, <1>2, <1>5, <1>7, <2>1, <3>1, FailRows DEF FailUndelivered, Fails
  <2>2. CASE ~StillAsRead(r)
    BY <1>2, <1>5, <1>7, <2>2, IdleRows DEF FailUndelivered
  <2>. QED BY <2>1, <2>2
<1>8. ASSUME MarkRetrying(r) PROVE Rows'
  <2>1. JobsStay
    <3>1. CASE StillAsRead(r)
      <4>1. Active(reader[r].job)
        BY <1>1, <1>8, <3>1 DEF MarkRetrying, StillAsRead, ReadersSawActive, ReaderStatus, Active
      <4>. QED BY <1>1, <1>8, <3>1, <4>1, RowTypes
           DEF MarkRetrying, JobType, JobsStay, SameWork, FinalStays, Active, Terminal,
               ActiveStatuses, TerminalStatuses
    <3>2. CASE ~StillAsRead(r)
      BY <1>8, <3>2, UnchangedRows DEF MarkRetrying
    <3>. QED BY <3>1, <3>2
  <2>. QED BY <1>2, <1>5, <1>8, <2>1, UnchangedRows, QuietRows DEF MarkRetrying, Quiet
<1>9. ASSUME RepairFailed(r) PROVE Rows'
  <2>1. RunsClose
    <3>1. CASE StillAsRead(r)
      <4> DEFINE j == reader[r].job
                 Closed(q) == IF q \in WindowRuns(j) /\ q.startedAt <= job[j].completedAt
                                 /\ q.status = "RUNNING"
                              THEN [q EXCEPT !.status = "FAILED"] ELSE q
      <4>1. runs' = {Closed(q) : q \in runs}
        BY <1>9, <3>1 DEF RepairFailed, RunsClosed
      <4>2. \A q \in runs : Closes(q, Closed(q))
        BY RowTypes DEF RunType, Closes, SameRun
      <4> HIDE DEF Closed
      <4>. QED BY <4>1, <4>2 DEF RunsClose
    <3>2. CASE ~StillAsRead(r)
      BY <1>9, <3>2, UnchangedRows DEF RepairFailed
    <3>. QED BY <3>1, <3>2
  <2>2. project'.status = "GENERATING" => project.status = "GENERATING"
    BY <1>9 DEF RepairFailed, ProjectRepaired
  <2>. QED BY <1>2, <1>5, <1>9, <2>1, <2>2, UnchangedRows, QuietRows DEF RepairFailed, Quiet
<1>. QED BY <1>3, <1>6, <1>7, <1>8, <1>9 DEF ReaderStep

LEMMA HandlerRows ==
  ASSUME TypeInv, Fence, Rows, NEW h \in Handlers, HandlerStep(h)
  PROVE  Rows'
<1> DEFINE j == JobOf(h)
<1>1. ReadersSawActive'
  <2>1. UNCHANGED reader
    BY DEF HandlerStep, LoadJob, ClaimAttempt, CheckTrend, StopPrevious, PlanStage, OpenRun,
           CallProvider, ProviderAnswers, CommitResult, CleanUp, Settle, Acknowledge
  <2>. QED BY <2>1, UnchangedRows DEF Rows
<1>2. \A p \in {"claim", "nack", "ack", "settle", "cleanup", "trend", "stop", "plan"} : p \notin CallPCs
  BY DEF CallPCs
<1>3. ASSUME LoadJob(h) \/ CheckTrend(h) PROVE Rows'
  <2>1. KeepsRun
    BY <1>2, <1>3, MoveKeepsRun DEF LoadJob, CheckTrend
  <2>. QED BY <1>1, <1>3, <2>1, IdleRows DEF LoadJob, CheckTrend
<1>4. ASSUME CallProvider(h) \/ ProviderAnswers(h) PROVE Rows'
  <2>1. KeepsRun
    BY <1>2, <1>4, MoveKeepsRun DEF CallProvider, ProviderAnswers, CallPCs
  <2>. QED BY <1>1, <1>4, <2>1, IdleRows DEF CallProvider, ProviderAnswers
<1>5. ASSUME PlanStage(h) PROVE Rows'
  <2>1. KeepsRun
    <3>1. CASE Throw(h, "settle", "retryable")
      BY <1>2, <3>1, MoveKeepsRun
    <3>2. CASE handler' = [handler EXCEPT ![h].pc = "boundary", ![h].prev = version[job[j].version].stage]
      BY <3>2, RowTypes DEF KeepsRun, CallPCs, HandlerType
    <3>. QED BY <1>5, <3>1, <3>2 DEF PlanStage
  <2>. QED BY <1>1, <1>5, <2>1, IdleRows DEF PlanStage
<1>6. ASSUME Acknowledge(h) PROVE Rows'
  <2>1. KeepsRun
    BY <1>6, RowTypes DEF Acknowledge, IdleHandler, HandlerAt, KeepsRun, CallPCs
  <2>. QED BY <1>1, <1>6, <2>1, IdleRows DEF Acknowledge
<1>7. ASSUME ClaimAttempt(h) PROVE Rows'
  <2>1. KeepsRun
    BY <1>2, <1>7, MoveKeepsRun DEF ClaimAttempt
  <2>2. JobsStay
    <3>1. CASE Claimable(j, handler[h].retry)
      <4>1. j \in Jobs /\ Active(j)
        BY <1>7, <3>1, HandlerFacts DEF ClaimAttempt, Claimable, Active, ActiveStatuses
      <4>. QED BY <1>7, <3>1, <4>1, RowTypes
           DEF ClaimAttempt, JobType, JobsStay, SameWork, FinalStays, Active, Terminal,
               ActiveStatuses, TerminalStatuses
    <3>2. CASE ~Claimable(j, handler[h].retry)
      BY <1>7, <3>2, UnchangedRows DEF ClaimAttempt
    <3>. QED BY <3>1, <3>2
  <2>. QED BY <1>1, <1>7, <2>1, <2>2, UnchangedRows, QuietRows DEF ClaimAttempt, Quiet
<1>8. ASSUME StopPrevious(h) PROVE Rows'
  <2>1. KeepsRun /\ j \in Jobs
    BY <1>2, <1>8, MoveKeepsRun, HandlerFacts DEF StopPrevious
  <2>2. CASE UNCHANGED dbVars
    BY <1>1, <1>8, <2>1, <2>2, IdleRows DEF StopPrevious
  <2>3. CASE FailJob(j) /\ Active(j)
    BY <1>1, <1>8, <2>1, <2>3, FailRows DEF StopPrevious, Fails
  <2>. QED BY <1>8, <2>2, <2>3 DEF StopPrevious
<1>9. ASSUME OpenRun(h) PROVE Rows'
  <2>1. CASE Owns(h)
    <3>1. j \in Jobs
      BY <1>9, HandlerFacts DEF OpenRun
    <3>. QED BY <1>1, <1>9, <2>1, <3>1, OpenRows
  <2>2. CASE ~Owns(h)
    <3>1. KeepsRun
      BY <1>2, <1>9, <2>2, MoveKeepsRun DEF OpenRun
    <3>. QED BY <1>1, <1>9, <2>2, <3>1, IdleRows DEF OpenRun, dbVars
  <2>. QED BY <2>1, <2>2
<1>10. ASSUME CommitResult(h) PROVE Rows'
  <2>1. KeepsRun /\ j \in Jobs
    BY <1>2, <1>10, MoveKeepsRun, HandlerFacts DEF CommitResult
  <2>2. CASE UNCHANGED dbVars
    BY <1>1, <1>10, <2>1, <2>2, IdleRows DEF CommitResult
  <2>3. CASE Owns(h) /\ PersistResult(h)
    BY <1>1, <1>10, <2>1, <2>3, PersistRows DEF CommitResult, Persists
  <2>. QED BY <1>10, <2>2, <2>3 DEF CommitResult
<1>11. ASSUME CleanUp(h) PROVE Rows'
  <2>1. KeepsRun
    BY <1>2, <1>11, MoveKeepsRun DEF CleanUp
  <2>2. CASE Owns(h)
    <3> DEFINE Closed(q) == IF q.startedAt = handler[h].run /\ q.status = "RUNNING"
                            THEN [q EXCEPT !.status = "FAILED"] ELSE q
    <3>1. runs' = {Closed(q) : q \in runs}
      BY <1>11, <2>2 DEF CleanUp
    <3>2. \A q \in runs : Closes(q, Closed(q))
      BY RowTypes DEF RunType, Closes, SameRun
    <3>3. RunsClose
      <4> HIDE DEF Closed
      <4>. QED BY <3>1, <3>2 DEF RunsClose
    <3>4. project'.status = "REVIEWING"
      BY <1>11, <2>2, RowTypes DEF CleanUp, ProjectType
    <3>. QED BY <1>1, <1>11, <2>1, <3>3, <3>4, UnchangedRows, QuietRows DEF CleanUp, Quiet
  <2>3. CASE ~Owns(h)
    BY <1>1, <1>11, <2>1, <2>3, IdleRows DEF CleanUp, dbVars
  <2>. QED BY <2>2, <2>3
<1>12. ASSUME Settle(h) PROVE Rows'
  <2>1. KeepsRun /\ j \in Jobs
    BY <1>2, <1>12, MoveKeepsRun, HandlerFacts DEF Settle
  <2>2. CASE UNCHANGED dbVars
    BY <1>1, <1>12, <2>1, <2>2, IdleRows DEF Settle
  <2>3. CASE FailJob(j) /\ Active(j)
    BY <1>1, <1>12, <2>1, <2>3, FailRows DEF Settle, Fails
  <2>4. CASE /\ Active(j) /\ UNCHANGED <<project, version, runs>>
             /\ job' = [job EXCEPT ![j].status = "RETRYING", ![j].completedAt = 0, ![j].seq = @ + 1]
    <3>1. JobsStay
      BY <2>1, <2>4, RowTypes
      DEF JobType, JobsStay, SameWork, FinalStays, Active, Terminal, ActiveStatuses, TerminalStatuses
    <3>. QED BY <1>1, <1>12, <2>1, <2>4, <3>1, UnchangedRows, QuietRows DEF Settle, Quiet
  <2>. QED BY <1>12, <2>2, <2>3, <2>4 DEF Settle
<1>. QED BY <1>3, <1>4, <1>5, <1>6, <1>7, <1>8, <1>9, <1>10, <1>11, <1>12 DEF HandlerStep

LEMMA InitRows == Init => Rows
<1> SUFFICES ASSUME Init PROVE Rows
  OBVIOUS
<1>1. \A j \in Jobs : ~Active(j) /\ ~Terminal(j)
  BY DEF Init, NoJob, Active, Terminal, ActiveStatuses, TerminalStatuses
<1>2. ReadersSawActive /\ Drafts
  BY <1>1 DEF Init, IdleReader, ReadersSawActive, Drafts, AtMostOneActiveJob, ActiveJobFitsDraft
<1>3. GeneratingHasActiveJob
  BY DEF Init, GeneratingHasActiveJob
<1>4. RunsKnown /\ Outcomes /\ RunsFitTimes
  BY <1>1 DEF Init, IdleHandler, HandlerAt, NoJob, CallPCs, RunsKnown, Outcomes,
              EndedJobHasNoOpenRun, ResultIffSucceeded, RunsFitTimes
<1>. QED BY <1>2, <1>3, <1>4 DEF Rows

LEMMA StepRows == TypeInv /\ Fence /\ Rows /\ [Next]_vars => Rows'
<1> SUFFICES ASSUME TypeInv, Fence, Rows, [Next]_vars PROVE Rows'
  OBVIOUS
<1>1. CASE Next
  BY <1>1, RequestRows, HandlerRows, EnvironmentRows, ReaderRows DEF Next
<1>2. CASE UNCHANGED vars
  BY <1>2, UnchangedRows, IdleRows DEF vars, KeepsRun, Rows
<1>. QED BY <1>1, <1>2

LEMMA RowsHold == Spec => [](TypeInv /\ Fence /\ Rows)
<1>1. Init => TypeInv /\ Fence /\ Rows
  BY InitType, InitFence, InitRows
<1>2. TypeInv /\ Fence /\ Rows /\ [Next]_vars => (TypeInv /\ Fence /\ Rows)'
  BY StepType, StepFence, StepRows
<1>. QED BY <1>1, <1>2, PTL DEF Spec

-----------------------------------------------------------------------------
(* Nothing is written to a job that has ended. *)

CreditOnly(j) == [job[j] EXCEPT !.result = 0] = [job'[j] EXCEPT !.result = 0]
FinalRows == \A j \in Jobs : Terminal(j) => job'[j] = job[j]

LEMMA OneJobChanges ==
  ASSUME TypeInv, NEW j \in Jobs, ~Terminal(j), \E x : job' = [job EXCEPT ![j] = x]
  PROVE  FinalRows
  BY RowTypes DEF FinalRows

LEMMA ActiveIsNotFinal == \A j \in Jobs : Active(j) \/ job[j].status = "ABSENT" => ~Terminal(j)
  BY DEF Active, Terminal, ActiveStatuses, TerminalStatuses

LEMMA FailIsFinal ==
  ASSUME TypeInv, NEW j \in Jobs, Active(j), FailJob(j)
  PROVE  FinalRows
  BY ActiveIsNotFinal, RowTypes DEF FailJob, FinalRows

LEMMA HandlerFinal ==
  ASSUME TypeInv, NEW h \in Handlers, HandlerStep(h)
  PROVE  FinalRows
<1> DEFINE j == JobOf(h)
<1>1. UNCHANGED job => FinalRows
  BY DEF FinalRows
<1>2. LoadJob(h) \/ CheckTrend(h) \/ PlanStage(h) \/ CallProvider(h) \/ ProviderAnswers(h)
        \/ CleanUp(h) \/ Acknowledge(h) => FinalRows
  BY <1>1 DEF LoadJob, CheckTrend, PlanStage, CallProvider, ProviderAnswers, CleanUp,
              Acknowledge, dbVars
<1>3. handler[h].pc # "idle" => j \in Jobs
  BY HandlerFacts
<1>4. ASSUME ClaimAttempt(h) PROVE FinalRows
  <2>1. j \in Jobs
    BY <1>3, <1>4 DEF ClaimAttempt
  <2>2. CASE Claimable(j, handler[h].retry)
    <3>1. Active(j)
      BY <2>2 DEF Claimable, Active, ActiveStatuses
    <3>. QED BY <1>4, <2>1, <2>2, <3>1, ActiveIsNotFinal, RowTypes DEF ClaimAttempt, FinalRows
  <2>. QED BY <1>1, <1>4, <2>2 DEF ClaimAttempt
<1>5. ASSUME OpenRun(h) PROVE FinalRows
  <2>1. j \in Jobs
    BY <1>3, <1>5 DEF OpenRun
  <2>2. CASE Owns(h)
    <3>1. Active(j)
      BY <2>2 DEF Owns, Active, ActiveStatuses
    <3>. QED BY <1>5, <2>1, <2>2, <3>1, ActiveIsNotFinal, RowTypes DEF OpenRun, FinalRows
  <2>. QED BY <1>1, <1>5, <2>2 DEF OpenRun
<1>6. ASSUME CommitResult(h) PROVE FinalRows
  <2>1. j \in Jobs
    BY <1>3, <1>6 DEF CommitResult
  <2>2. CASE Owns(h) /\ PersistResult(h)
    <3>1. Active(j)
      BY <2>2 DEF Owns, Active, ActiveStatuses
    <3>. QED BY <2>1, <2>2, <3>1, ActiveIsNotFinal, RowTypes DEF PersistResult, FinalRows
  <2>. QED BY <1>1, <1>6, <2>2 DEF CommitResult, dbVars
<1>7. ASSUME StopPrevious(h) PROVE FinalRows
  <2>1. j \in Jobs
    BY <1>3, <1>7 DEF StopPrevious
  <2>. QED BY <1>1, <1>7, <2>1, FailIsFinal DEF StopPrevious, dbVars
<1>8. ASSUME Settle(h) PROVE FinalRows
  <2>1. j \in Jobs
    BY <1>3, <1>8 DEF Settle
  <2>2. CASE Active(j) /\ job' = [job EXCEPT ![j].status = "RETRYING", ![j].completedAt = 0,
                                             ![j].seq = @ + 1]
    BY <2>1, <2>2, ActiveIsNotFinal, RowTypes DEF FinalRows
  <2>. QED BY <1>1, <1>8, <2>1, <2>2, FailIsFinal DEF Settle, dbVars
<1>. QED BY <1>2, <1>4, <1>5, <1>6, <1>7, <1>8 DEF HandlerStep

LEMMA ReaderFinal ==
  ASSUME TypeInv, Rows, NEW r \in Readers, ReaderStep(r)
  PROVE  FinalRows
<1>1. UNCHANGED job => FinalRows
  BY DEF FinalRows
<1>2. \A p \in {"fail", "mark"} : reader[r].pc = p => reader[r].job \in Jobs
  BY DEF TypeInv, TypeOK
<1>3. \A p \in {"fail", "mark"} : reader[r].pc = p /\ StillAsRead(r) => Active(reader[r].job)
  BY DEF Rows, ReadersSawActive, ReaderStatus, StillAsRead, Active
<1>4. ReadQueueRow(r) \/ JudgeGrace(r) \/ RepairFailed(r) => FinalRows
  BY <1>1 DEF ReadQueueRow, JudgeGrace, RepairFailed, dbVars
<1>5. FailUndelivered(r) => FinalRows
  BY <1>1, <1>2, <1>3, FailIsFinal DEF FailUndelivered, dbVars
<1>6. ASSUME MarkRetrying(r) PROVE FinalRows
  <2>1. CASE StillAsRead(r)
    BY <1>2, <1>3, <1>6, <2>1, ActiveIsNotFinal, RowTypes DEF MarkRetrying, FinalRows
  <2>. QED BY <1>1, <1>6, <2>1 DEF MarkRetrying
<1>. QED BY <1>4, <1>5, <1>6 DEF ReaderStep

LEMMA StepFinal ==
  ASSUME TypeInv, Rows, [Next]_vars, NEW j \in Jobs, Terminal(j)
  PROVE  CreditOnly(j)
<1>1. CASE FinalRows
  BY <1>1 DEF FinalRows, CreditOnly
<1>2. CASE UserRequest
  <2>1. ASSUME NEW k \in Jobs, NEW v, NEW s, CreateQueuedJob(k, v, s) PROVE FinalRows
    BY <2>1, OneJobChanges, ActiveIsNotFinal DEF CreateQueuedJob, FreshJob
  <2>2. ASSUME NEW v \in Versions, ConfirmScript(v) PROVE CreditOnly(j)
    <3>1. CASE \E k \in ResultJobs(v) : job' = [job EXCEPT ![k].result = v]
      <4>1. PICK k \in ResultJobs(v) : job' = [job EXCEPT ![k].result = v]
        BY <3>1
      <4>2. job[j] \in JobType /\ (job'[j] = job[j] \/ job'[j] = [job[j] EXCEPT !.result = v])
        BY <4>1, RowTypes DEF ResultJobs
      <4>. QED BY <4>2 DEF CreditOnly, JobType
    <3>. QED BY <2>2, <3>1 DEF ConfirmScript, CreditOnly
  <2>3. (\E v \in Versions, s \in Stages : UpdateStage(v, s)) => FinalRows
    BY DEF UpdateStage, FinalRows
  <2>. QED BY <1>1, <1>2, <2>1, <2>2, <2>3, ConstantFacts
       DEF UserRequest, Enqueue, RegenerateStage, ConfirmStage
<1>3. CASE UNCHANGED job
  BY <1>3 DEF CreditOnly
<1>. QED BY <1>1, <1>2, <1>3, HandlerFinal, ReaderFinal
     DEF Next, Deliver, StepFails, ReadJob, LoseDelivery, Crash, ReviewTrend, dbVars, vars

-----------------------------------------------------------------------------
(* The theorems. *)

\* The checks of the requests alone keep two jobs of a project from being active
\* at once (enqueue, regenerateStage, confirmStage), without the unique index.
THEOREM OneActiveJob == Spec => []AtMostOneActiveJob
<1>1. Rows => AtMostOneActiveJob
  BY DEF Rows, Drafts
<1>. QED BY <1>1, RowsHold, PTL

\* The draft under an active job is the one it was queued for, at a position
\* where its stage can run (assertStageCanRun never meets a draft moved on).
THEOREM JobsFitDrafts == Spec => []ActiveJobFitsDraft
<1>1. Rows => ActiveJobFitsDraft
  BY DEF Rows, Drafts
<1>. QED BY <1>1, RowsHold, PTL

\* A project that shows GENERATING has a job that will change it
\* (repairFailedStage, the cleanup and the commit of executeStage).
THEOREM NoProjectLeftGenerating == Spec => []GeneratingHasActiveJob
<1>1. Rows => GeneratingHasActiveJob
  BY DEF Rows
<1>. QED BY <1>1, RowsHold, PTL

\* Whoever ends a job leaves none of its runs open (repairFailedStage,
\* the commit of executeStage).
THEOREM NoRunLeftOpen == Spec => []EndedJobHasNoOpenRun
<1>1. Rows => EndedJobHasNoOpenRun
  BY DEF Rows, Outcomes
<1>. QED BY <1>1, RowsHold, PTL

\* Success is reported exactly for the jobs whose result was stored
\* (onCompleted in the transaction of the result).
THEOREM SuccessHasResult == Spec => []ResultIffSucceeded
<1>1. Rows => ResultIffSucceeded
  BY DEF Rows, Outcomes
<1>. QED BY <1>1, RowsHold, PTL

\* The search for runs by version, stage and time, in stopPreviouslyAttemptedJob
\* and repairFailedStage, finds the runs of that job and no others.
THEOREM WindowsAreExact == Spec => []WindowFindsOwnRuns
<1>1. TypeInv /\ Fence /\ Rows => WindowFindsOwnRuns
  <2> SUFFICES ASSUME TypeInv, Fence, Rows, NEW j \in Jobs
               PROVE  LET own == {r \in runs : r.job = j}
                      IN /\ Active(j) => WindowRuns(j) = own
                         /\ Terminal(j) =>
                              {r \in WindowRuns(j) : r.startedAt <= job[j].completedAt} = own
    BY DEF WindowFindsOwnRuns
  <2>1. \A r \in runs : r.job = j => r \in WindowRuns(j)
    BY DEF Fence, RunsInWindow, WindowRuns
  <2>2. \A r \in runs : r.startedAt \in Nat /\ job[j].queuedAt \in Nat /\ job[j].completedAt \in Nat
    BY RowTypes
  <2>3. ASSUME Active(j), NEW r \in WindowRuns(j) PROVE r.job = j
    BY <2>2, <2>3 DEF WindowRuns, Rows, RunsFitTimes
  <2>4. ASSUME Terminal(j), NEW r \in WindowRuns(j), r.startedAt <= job[j].completedAt
        PROVE  r.job = j
    BY <2>2, <2>4 DEF WindowRuns, Rows, RunsFitTimes
  <2>5. Terminal(j) => \A r \in runs : r.job = j => r.startedAt <= job[j].completedAt
    BY DEF Rows, RunsFitTimes
  <2>6. WindowRuns(j) \subseteq runs
    BY DEF WindowRuns
  <2>. QED BY <2>1, <2>3, <2>4, <2>5, <2>6
<1>. QED BY <1>1, RowsHold, PTL

\* No late handler, reader or repair writes to a job that has SUCCEEDED or
\* FAILED; only confirmStage adds the version it is credited with.
THEOREM OutcomesAreFinal == Spec => TerminalIsFinal
<1>1. TypeInv /\ Rows /\ [Next]_vars =>
        [\A j \in Jobs : Terminal(j) =>
           [job[j] EXCEPT !.result = 0] = [job'[j] EXCEPT !.result = 0]]_vars
  BY StepFinal DEF CreditOnly
<1>. QED BY <1>1, RowsHold, PTL DEF Spec, TerminalIsFinal

-----------------------------------------------------------------------------
(***************************************************************************)
(* Drafts, their content and their credit, for any number of handlers,     *)
(* readers, deliveries and failures.  The project shows the one staging    *)
(* draft; the attempt that owns a job knows where its draft stood before;  *)
(* the active job is the newest, so what it stores replaces older results  *)
(* only; a draft at the last stage has a result to be credited with; and   *)
(* who runs a stage again that has a result has paid with a regeneration.  *)
(***************************************************************************)

\* From the plan of a stage to the end of its cleanup.
PrevPCs == {"boundary", "generate", "provider", "commit", "cleanup"}

\* One draft at a time.
OneStaging == \A v, w \in Versions : Staging(v) /\ Staging(w) => v = w

\* The project generates or reviews its draft, at the stage the draft has reached.
ShowsDraft ==
  \A v \in Versions : Staging(v) =>
    /\ project.status \in {"GENERATING", "REVIEWING"}
    /\ project.status = "REVIEWING" => project.stage = version[v].stage

\* Whoever owns its attempt remembers where the draft stands.
PrevKnown ==
  \A h \in Handlers :
    handler[h].pc \in PrevPCs /\ Active(JobOf(h)) /\ job[JobOf(h)].attempt = Attempt(h)
      => handler[h].prev = version[job[JobOf(h)].version].stage

\* A version is there before its jobs.
JobsHaveVersions ==
  \A j \in Jobs : IF job[j].status = "ABSENT" THEN job[j].version = 0
                   ELSE version[job[j].version].status # "ABSENT"

\* Rows are allocated in order.
InOrder == \A v, w \in Versions :
             w < v /\ version[v].status # "ABSENT" => version[w].status # "ABSENT"

\* No job was queued after the active one.
ActiveIsNewest ==
  \A j, k \in Jobs : Active(j) /\ job[k].status # "ABSENT" => job[k].queuedAt <= job[j].queuedAt

\* confirmStage finds a job to credit.
LastResultKnown ==
  \A v \in Versions : Staging(v) /\ version[v].stage = NumStages => ResultJobs(v) # {}

Succeeded == {j \in Jobs : job[j].status = "SUCCEEDED"}
\* What a job was for, and what was obtained at all.
WorkOf(j) == <<job[j].version, job[j].stage>>
Obtained == {<<job[j].version, job[j].stage>> : j \in Succeeded}

\* Who runs a stage again that already had a result has paid with a regeneration.
Bought ==
  /\ \A j \in Succeeded :
       Staging(job[j].version) => job[j].stage <= version[job[j].version].stage
  /\ LocalUnlimited \/
       /\ project.regens <= RegenerationLimit
       /\ Cardinality(Succeeded) <= Cardinality(Obtained) + project.regens
       /\ \A j \in Jobs : Active(j) /\ WorkOf(j) \in Obtained =>
            Cardinality(Succeeded) + 1 <= Cardinality(Obtained) + project.regens

Records == /\ OneStaging /\ ShowsDraft /\ PrevKnown /\ JobsHaveVersions /\ InOrder
           /\ ActiveIsNewest /\ LastResultKnown /\ Bought
           /\ ContentFromLatestResult /\ PublishedVersionHasResult

\* A job that neither begins nor succeeds, and whose result is left alone.
WorkStays(j) ==
  /\ SameWork(j) /\ job'[j].result = job[j].result
  /\ job'[j].status = "ABSENT" <=> job[j].status = "ABSENT"
  /\ job'[j].status = "SUCCEEDED" <=> job[j].status = "SUCCEEDED"
  /\ job[j].status = "SUCCEEDED" => job'[j].completedAt = job[j].completedAt
  /\ Active(j)' => Active(j)

Plain == /\ UNCHANGED version /\ project'.regens = project.regens
         /\ \A j \in Jobs : WorkStays(j)

\* Nobody but PlanStage brings a handler behind the plan.
KeepsPrev ==
  \A h \in Handlers : handler'[h].pc \in PrevPCs =>
    /\ handler[h].pc \in PrevPCs
    /\ handler'[h].job = handler[h].job /\ handler'[h].retry = handler[h].retry
    /\ handler'[h].prev = handler[h].prev

AttemptsStay == \A j \in Jobs : Active(j)' => job'[j].attempt = job[j].attempt

LEMMA BooksFinite ==
  ASSUME TypeInv
  PROVE  /\ IsFiniteSet(Succeeded) /\ IsFiniteSet(Obtained)
         /\ Cardinality(Succeeded) \in Nat /\ Cardinality(Obtained) \in Nat
         /\ project.regens \in Nat /\ RegenerationLimit \in Nat
<1>1. IsFiniteSet(Jobs) /\ IsFiniteSet(Versions) /\ IsFiniteSet(Stages)
  BY ConstantFacts, FS_Interval DEF Jobs, Versions, Stages
<1>2. IsFiniteSet(Versions \X Stages)
  BY <1>1, FS_Product
<1>3. Succeeded \subseteq Jobs /\ Obtained \subseteq Versions \X Stages
  BY DEF TypeInv, TypeOK, Succeeded, Obtained
<1>4. IsFiniteSet(Succeeded) /\ IsFiniteSet(Obtained)
  BY <1>1, <1>2, <1>3, FS_Subset
<1>5. project.regens \in Nat /\ RegenerationLimit \in Nat
  BY RowTypes, JobsAssumption DEF ProjectType
<1>. QED BY <1>4, <1>5, FS_CardinalityType

\* No result and no regeneration is added.
BooksStay ==
  /\ \A j \in Jobs : /\ SameWork(j)
                     /\ job'[j].status = "SUCCEEDED" <=> job[j].status = "SUCCEEDED"
                     /\ Active(j)' => Active(j)
  /\ \A v \in Versions : /\ Staging(v)' => Staging(v)
                         /\ version'[v].stage = version[v].stage
  /\ project'.regens = project.regens

LEMMA BooksKept ==
  ASSUME TypeInv, Bought, BooksStay
  PROVE  Bought'
<1>1. Succeeded' = Succeeded /\ Obtained' = Obtained
  BY DEF Succeeded, Obtained, BooksStay, SameWork
<1>2. \A j \in Jobs : WorkOf(j)' = WorkOf(j)
  BY DEF WorkOf, BooksStay, SameWork
<1>3. \A j \in Succeeded : j \in Jobs /\ job[j].version \in Versions
  BY RowTypes DEF Succeeded
<1>. QED BY <1>1, <1>2, <1>3 DEF Bought, BooksStay, SameWork

LEMMA PlainRecords ==
  ASSUME TypeInv, Records, Plain, ShowsDraft', PrevKnown'
  PROVE  Records'
<1>1. OneStaging' /\ JobsHaveVersions' /\ InOrder' /\ ActiveIsNewest'
  BY DEF Records, Plain, WorkStays, SameWork, OneStaging, Staging, JobsHaveVersions, InOrder,
         ActiveIsNewest
<1>2. LastResultKnown'
  <2>1. \A v \in Versions : ResultJobs(v) \subseteq ResultJobs(v)'
    BY DEF ResultJobs, Plain, WorkStays, SameWork
  <2>. QED BY <2>1 DEF Records, LastResultKnown, Plain, Staging
<1>3. ContentFromLatestResult'
  <2> SUFFICES ASSUME NEW v \in Versions, NEW s \in Stages
               PROVE  LET c == version[v].content[s]
                          done == {j \in Jobs : /\ job'[j].status = "SUCCEEDED"
                                                /\ job'[j].version = v /\ job'[j].stage = s}
                      IN /\ c = 0 => done = {}
                         /\ c \in Jobs => /\ c \in done
                                          /\ \A k \in done : job'[k].queuedAt <= job'[c].queuedAt
    BY DEF ContentFromLatestResult, Plain
  <2>1. {j \in Jobs : /\ job'[j].status = "SUCCEEDED" /\ job'[j].version = v /\ job'[j].stage = s}
        = {j \in Jobs : /\ job[j].status = "SUCCEEDED" /\ job[j].version = v /\ job[j].stage = s}
    BY DEF Plain, WorkStays, SameWork
  <2>. QED BY <2>1 DEF Records, ContentFromLatestResult, Plain, WorkStays, SameWork
<1>4. PublishedVersionHasResult'
  <2> SUFFICES ASSUME NEW v \in Versions
               PROVE  LET credited == {j \in Jobs : job'[j].result = v}
                      IN /\ version[v].status \in {"ABSENT", "STAGING"} => credited = {}
                         /\ \A j, k \in credited : j = k
                         /\ \A j \in credited : /\ job'[j].status = "SUCCEEDED"
                                                /\ job'[j].version = v /\ job'[j].stage = NumStages
                         /\ (\E j \in Jobs : job'[j].version = v)
                              /\ version[v].status \in {"ACTIVE", "SUPERSEDED"}
                              => credited # {}
    BY DEF PublishedVersionHasResult, Plain
  <2>1. {j \in Jobs : job'[j].result = v} = {j \in Jobs : job[j].result = v}
    BY DEF Plain, WorkStays
  <2>. QED BY <2>1 DEF Records, PublishedVersionHasResult, Plain, WorkStays, SameWork
<1>5. Bought'
  BY BooksKept DEF Records, Plain, WorkStays, BooksStay, Staging
<1>. QED BY <1>1, <1>2, <1>3, <1>4, <1>5 DEF Records

\* A handler behind the plan still knows where the draft of its job stands.
LEMMA PrevKept ==
  ASSUME TypeInv, Records, Plain, KeepsPrev, AttemptsStay
  PROVE  PrevKnown'
<1>1. \A h \in Handlers : handler[h].pc \in PrevPCs => JobOf(h) \in Jobs
  BY HandlerFacts DEF PrevPCs
<1>. QED BY <1>1 DEF Records, PrevKnown, Plain, WorkStays, SameWork, KeepsPrev, AttemptsStay, JobOf,
                     Attempt

\* What leaves the drafts alone shows them as they were, or hides them.
LEMMA ShownKept ==
  ASSUME TypeInv, Rows, Records, UNCHANGED version
  PROVE  /\ UNCHANGED project => ShowsDraft'
         /\ project'.status = "GENERATING" => ShowsDraft'
         /\ \A j \in Jobs : Active(j) /\ project' = ProjectRepaired(j) => ShowsDraft'
         /\ \A j \in Jobs : Active(j) /\ project'.status = "REVIEWING"
                            /\ project'.stage = version[job[j].version].stage => ShowsDraft'
<1>1. /\ UNCHANGED project => ShowsDraft'
      /\ project'.status = "GENERATING" => ShowsDraft'
  BY DEF Records, ShowsDraft, Staging
<1>2. \A j \in Jobs : Active(j) =>
        /\ job[j].version \in Versions /\ Staging(job[j].version)
        /\ \A v \in Versions : Staging(v) => v = job[j].version
  BY RowTypes
  DEF Rows, Drafts, ActiveJobFitsDraft, Records, OneStaging, Active, ActiveStatuses
<1>3. ASSUME NEW j \in Jobs, Active(j), project'.status = "REVIEWING",
             project'.stage = version[job[j].version].stage
      PROVE  ShowsDraft'
  BY <1>2, <1>3 DEF ShowsDraft, Staging
<1>4. ASSUME NEW j \in Jobs, Active(j), project' = ProjectRepaired(j) PROVE ShowsDraft'
  <2>1. CASE UNCHANGED project
    BY <2>1, <1>1
  <2>2. CASE ~UNCHANGED project
    <3>1. project' = [project EXCEPT !.status = "REVIEWING",
                                     !.stage = StableStage(version[job[j].version])]
      BY <1>2, <1>4, <2>2 DEF ProjectRepaired
    <3>2. StableStage(version[job[j].version]) = version[job[j].version].stage
      BY <1>2, <1>4 DEF StableStage, Staging
    <3>. QED BY <3>1, <3>2, <1>3, <1>4, RowTypes DEF ProjectType
  <2>. QED BY <2>1, <2>2
<1>. QED BY <1>1, <1>3, <1>4

\* Whatever is written to one active job but a result.
LEMMA OneJobPlain ==
  ASSUME TypeInv, UNCHANGED version, project'.regens = project.regens, NEW j \in Jobs, Active(j),
         \A k \in Jobs : k # j => job'[k] = job[k],
         SameWork(j), job'[j].result = job[j].result,
         job'[j].status \in ActiveStatuses \cup {"FAILED"}
  PROVE  Plain
  BY DEF Plain, WorkStays, SameWork, Active, ActiveStatuses

LEMMA SameJobsPlain ==
  ASSUME UNCHANGED <<version, job>>, project'.regens = project.regens
  PROVE  Plain /\ AttemptsStay
  BY DEF Plain, WorkStays, SameWork, AttemptsStay, Active

\* The end of an active job.
LEMMA FailRecords ==
  ASSUME TypeInv, Rows, Records, NEW j \in Jobs, Active(j), FailJob(j), KeepsPrev
  PROVE  Records'
<1>1. /\ \A k \in Jobs : k # j => job'[k] = job[k]
      /\ SameWork(j) /\ job'[j].result = job[j].result /\ job'[j].status = "FAILED"
      /\ UNCHANGED version
  BY RowTypes DEF FailJob, SameWork, JobType
<1>2. Plain
  <2>1. project'.regens = project.regens
    BY RowTypes DEF FailJob, ProjectRepaired, ProjectType
  <2>. QED BY <1>1, <2>1, OneJobPlain
<1>3. AttemptsStay
  BY <1>1 DEF AttemptsStay, Active, ActiveStatuses
<1>4. ShowsDraft'
  BY <1>1, ShownKept DEF FailJob
<1>. QED BY <1>2, <1>3, <1>4, PrevKept, PlainRecords

\* A step that leaves project, versions and jobs alone.
LEMMA IdleRecords ==
  ASSUME TypeInv, Rows, Records, UNCHANGED <<project, version, job>>, KeepsPrev
  PROVE  Records'
  BY SameJobsPlain, PrevKept, ShownKept, PlainRecords

\* What a request does to the drafts when it queues a job.
DraftKept(w) == /\ version'[w].status = version[w].status
                /\ version'[w].stage = version[w].stage
                /\ version'[w].content = version[w].content
DraftAdded(w) == version[w].status = "ABSENT" /\ version'[w] \in {NewDraft, CapturedVersion}

\* A stage that has a result is run again for a regeneration.
Pays(v, s) ==
  \/ project'.regens = project.regens /\ (LocalUnlimited \/ <<v, s>> \notin Obtained)
  \/ project.regens < RegenerationLimit /\ project'.regens = project.regens + 1

LEMMA DraftFacts ==
  /\ NewDraft.status = "STAGING" /\ NewDraft.stage # NumStages
  /\ \A s \in Stages : NewDraft.content[s] = 0
  /\ CapturedVersion.status = "ACTIVE" /\ \A s \in Stages : CapturedVersion.content[s] = Edited
  /\ Edited \notin Jobs /\ Edited # 0 /\ 0 \notin Jobs /\ 0 \notin Versions
  BY ConstantFacts
  DEF NewDraft, NoVersion, Blank, CapturedVersion, Edited, Jobs, Versions, IDEA

\* A new job is the newest, of the one draft the project now generates.
LEMMA CreateRecords ==
  ASSUME TypeInv, Fence, Rows, Records, KeepsPrev, OneStaging', InOrder',
         NEW j \in Jobs, NEW v \in Versions, NEW s \in Stages, Creates(j, v, s),
         project'.status = "GENERATING", \A w \in Versions : DraftKept(w) \/ DraftAdded(w),
         Pays(v, s)
  PROVE  Records'
<1>1. /\ \A k \in Jobs : k # j => job'[k] = job[k]
      /\ job[j].status = "ABSENT" /\ job'[j].status = "QUEUED"
      /\ job'[j].version = v /\ job'[j].stage = s /\ job'[j].result = 0 /\ job'[j].queuedAt = clock + 1
      /\ \A k \in Jobs : ~Active(k)
      /\ Staging(v)'
  BY RowTypes DEF Creates, QueuedJob, NoActiveJob, Staging
<1>2. \A k \in Jobs : Active(k)' => k = j
  BY <1>1 DEF Active
<1>3. \A w \in Versions : DraftAdded(w) => \A k \in Jobs : job[k].version # w
  BY DraftFacts DEF Records, JobsHaveVersions, DraftAdded
<1>4. ShowsDraft'
  BY DEF ShowsDraft
<1>5. PrevKnown'
  <2>1. \A h \in Handlers : handler'[h].pc \in PrevPCs => JobOf(h)' \in Jobs /\ JobOf(h)' # j
    BY <1>1, HandlerFacts DEF KeepsPrev, PrevPCs, JobOf
  <2>. QED BY <1>2, <2>1 DEF PrevKnown
<1>6. JobsHaveVersions'
  <2>1. \A w \in Versions : version[w].status # "ABSENT" => version'[w].status # "ABSENT"
    BY DEF DraftKept, DraftAdded
  <2>. QED BY <1>1, <2>1, RowTypes DEF Records, JobsHaveVersions, Staging
<1>7. ActiveIsNewest'
  <2>1. \A k \in Jobs : job[k].status # "ABSENT" => job[k].queuedAt <= clock
    BY DEF Fence, RunsInWindow
  <2>. QED BY <1>1, <1>2, <2>1, RowTypes DEF ActiveIsNewest
<1>8. LastResultKnown'
  <2>1. \A w \in Versions : ResultJobs(w) \subseteq ResultJobs(w)'
    BY <1>1 DEF ResultJobs
  <2>2. \A w \in Versions : DraftAdded(w) => ~(Staging(w)' /\ version'[w].stage = NumStages)
    BY DraftFacts DEF DraftAdded, Staging
  <2>. QED BY <2>1, <2>2 DEF Records, LastResultKnown, DraftKept, Staging
<1>9. ContentFromLatestResult'
  <2> SUFFICES ASSUME NEW w \in Versions, NEW q \in Stages
               PROVE  LET c == version'[w].content[q]
                          done == {k \in Jobs : /\ job'[k].status = "SUCCEEDED"
                                                /\ job'[k].version = w /\ job'[k].stage = q}
                      IN /\ c = 0 => done = {}
                         /\ c \in Jobs => /\ c \in done
                                          /\ \A k \in done : job'[k].queuedAt <= job'[c].queuedAt
    BY DEF ContentFromLatestResult
  <2> DEFINE done == {k \in Jobs : /\ job[k].status = "SUCCEEDED"
                                   /\ job[k].version = w /\ job[k].stage = q}
  <2>1. {k \in Jobs : /\ job'[k].status = "SUCCEEDED"
                      /\ job'[k].version = w /\ job'[k].stage = q} = done
    BY <1>1
  <2>2. \A k \in done : job'[k] = job[k]
    BY <1>1
  <2>3. CASE DraftKept(w)
    BY <2>1, <2>2, <2>3 DEF Records, ContentFromLatestResult, DraftKept
  <2>4. CASE DraftAdded(w)
    <3>1. done = {}
      BY <2>4, <1>3
    <3>2. version'[w].content[q] \notin Jobs
      BY <2>4, DraftFacts DEF DraftAdded
    <3>. QED BY <2>1, <3>1, <3>2
  <2>. QED BY <2>3, <2>4
<1>10. PublishedVersionHasResult'
  <2> SUFFICES ASSUME NEW w \in Versions
               PROVE  LET credited == {k \in Jobs : job'[k].result = w}
                      IN /\ version'[w].status \in {"ABSENT", "STAGING"} => credited = {}
                         /\ \A i, k \in credited : i = k
                         /\ \A k \in credited : /\ job'[k].status = "SUCCEEDED"
                                                /\ job'[k].version = w /\ job'[k].stage = NumStages
                         /\ (\E k \in Jobs : job'[k].version = w)
                              /\ version'[w].status \in {"ACTIVE", "SUPERSEDED"}
                              => credited # {}
    BY DEF PublishedVersionHasResult
  <2> DEFINE credited == {k \in Jobs : job[k].result = w}
  <2>1. /\ version[w].status \in {"ABSENT", "STAGING"} => credited = {}
        /\ \A i, k \in credited : i = k
        /\ \A k \in credited : /\ job[k].status = "SUCCEEDED"
                               /\ job[k].version = w /\ job[k].stage = NumStages
        /\ (\E k \in Jobs : job[k].version = w) /\ version[w].status \in {"ACTIVE", "SUPERSEDED"}
             => credited # {}
    BY DEF Records, PublishedVersionHasResult
  <2>2. {k \in Jobs : job'[k].result = w} = credited
    BY <1>1, <2>1, DraftFacts
  <2>3. \A k \in credited : job'[k] = job[k]
    BY <1>1, <2>1
  <2>4. version'[w].status \in {"ACTIVE", "SUPERSEDED"} =>
          \A k \in Jobs : job'[k].version = w => job[k].version = w
    BY <1>1 DEF Staging
  <2>5. CASE DraftKept(w)
    BY <2>1, <2>2, <2>3, <2>4, <2>5 DEF DraftKept
  <2>6. CASE DraftAdded(w)
    BY <2>1, <2>2, <2>3, <2>4, <2>6, <1>3 DEF DraftAdded
  <2>. QED BY <2>5, <2>6
<1>11. Bought'
  <2>1. Succeeded' = Succeeded /\ Obtained' = Obtained /\ WorkOf(j)' = <<v, s>>
    BY <1>1 DEF Succeeded, Obtained, WorkOf
  <2>2. \A k \in Succeeded : job'[k] = job[k] /\ job[k].version \in Versions
    BY <1>1, RowTypes DEF Succeeded
  <2>3. \A k \in Succeeded :
          Staging(job[k].version)' => job[k].stage <= version'[job[k].version].stage
    BY <2>2, <1>3 DEF Records, Bought, DraftKept, Staging, Succeeded
  <2>. QED BY <2>1, <2>2, <2>3, <1>2, BooksFinite DEF Records, Bought, Pays, Staging
<1>. QED BY <1>4, <1>5, <1>6, <1>7, <1>8, <1>9, <1>10, <1>11 DEF Records

\* The result of the newest job replaces what the draft held for its stage.
LEMMA PersistRecords ==
  ASSUME TypeInv, Rows, Records, NEW h \in Handlers, NEW j \in Jobs, j = JobOf(h), Persists(h),
         KeepsPrev
  PROVE  Records'
<1>1. job[j].status = "RUNNING" /\ Active(j)
  BY DEF Persists, Owns, Active, ActiveStatuses
<1>2. PICK v \in Versions, s \in Stages :
        /\ v = job[j].version /\ s = job[j].stage /\ Staging(v)
        /\ \A w \in Versions : Staging(w) => w = v
  BY <1>1 DEF Rows, Drafts, ActiveJobFitsDraft, Records, OneStaging, TypeInv, TypeOK
<1>3. /\ \A k \in Jobs : k # j => job'[k] = job[k]
      /\ job'[j].status = "SUCCEEDED" /\ job'[j].completedAt = clock
      /\ SameWork(j) /\ job'[j].result = job[j].result
  BY RowTypes DEF Persists, PersistResult, SameWork, JobType
<1>4. \A k \in Jobs : ~Active(k)'
  BY <1>1, <1>3 DEF Active, ActiveStatuses, Rows, Drafts, AtMostOneActiveJob
<1>5. /\ \A w \in Versions : /\ version'[w].status = version[w].status
                             /\ w # v => version'[w] = version[w]
      /\ version'[v].stage = s
      /\ version'[v].content[s] = j
      /\ \A q \in Stages : q # s => version'[v].content[q] = version[v].content[q]
      /\ project'.stage = s
      /\ project'.status = "REVIEWING"
  BY <1>2, RowTypes, ZenonT(40) DEF Persists, PersistResult, VersionType, ProjectType
<1>6. OneStaging' /\ InOrder' /\ ShowsDraft'
  BY <1>2, <1>5 DEF Records, OneStaging, InOrder, ShowsDraft, Staging
<1>7. PrevKnown' /\ ActiveIsNewest'
  <2>1. \A i \in Handlers : handler'[i].pc \in PrevPCs => JobOf(i)' \in Jobs
    BY HandlerFacts DEF KeepsPrev, PrevPCs, JobOf
  <2>. QED BY <1>4, <2>1 DEF PrevKnown, ActiveIsNewest
<1>8. JobsHaveVersions'
  BY <1>1, <1>3, <1>5, RowTypes DEF Records, JobsHaveVersions, SameWork
<1>9. LastResultKnown'
  <2> SUFFICES ASSUME s = NumStages PROVE j \in ResultJobs(v)'
    BY <1>2, <1>5 DEF LastResultKnown, Staging
  <2>1. \A k \in Jobs : job[k].status = "SUCCEEDED" => job[k].completedAt <= clock
    BY DEF Rows, RunsFitTimes, Terminal, TerminalStatuses
  <2>2. /\ job'[j].version = v /\ job'[j].stage = s
        /\ \A k \in Jobs : job'[k].status = "SUCCEEDED" => job'[k].completedAt <= clock
    BY <1>2, <1>3, <2>1, RowTypes DEF SameWork
  <2>. QED BY <1>3, <2>2 DEF ResultJobs
<1>10. ContentFromLatestResult'
  <2> SUFFICES ASSUME NEW w \in Versions, NEW q \in Stages
               PROVE  LET c == version'[w].content[q]
                          done == {k \in Jobs : /\ job'[k].status = "SUCCEEDED"
                                                /\ job'[k].version = w /\ job'[k].stage = q}
                      IN /\ c = 0 => done = {}
                         /\ c \in Jobs => /\ c \in done
                                          /\ \A k \in done : job'[k].queuedAt <= job'[c].queuedAt
    BY DEF ContentFromLatestResult
  <2>1. CASE w = v /\ q = s
    <3>1. \A k \in Jobs : job'[k].status = "SUCCEEDED" => job'[k].queuedAt <= job'[j].queuedAt
      BY <1>1, <1>3, RowTypes DEF Records, ActiveIsNewest, SameWork
    <3>2. job'[j].version = v /\ job'[j].stage = s
      BY <1>2, <1>3 DEF SameWork
    <3>. QED BY <2>1, <3>1, <3>2, <1>3, <1>5, DraftFacts
  <2>2. CASE ~(w = v /\ q = s)
    <3> DEFINE done == {k \in Jobs : /\ job[k].status = "SUCCEEDED"
                                     /\ job[k].version = w /\ job[k].stage = q}
    <3>1. {k \in Jobs : /\ job'[k].status = "SUCCEEDED"
                        /\ job'[k].version = w /\ job'[k].stage = q} = done
      BY <2>2, <1>1, <1>2, <1>3 DEF SameWork
    <3>2. version'[w].content[q] = version[w].content[q]
      BY <2>2, <1>5
    <3>3. \A k \in done : job'[k] = job[k]
      BY <1>1, <1>3
    <3>. QED BY <3>1, <3>2, <3>3 DEF Records, ContentFromLatestResult
  <2>. QED BY <2>1, <2>2
<1>11. PublishedVersionHasResult'
  <2> SUFFICES ASSUME NEW w \in Versions
               PROVE  LET credited == {k \in Jobs : job'[k].result = w}
                      IN /\ version'[w].status \in {"ABSENT", "STAGING"} => credited = {}
                         /\ \A i, k \in credited : i = k
                         /\ \A k \in credited : /\ job'[k].status = "SUCCEEDED"
                                                /\ job'[k].version = w /\ job'[k].stage = NumStages
                         /\ (\E k \in Jobs : job'[k].version = w)
                              /\ version'[w].status \in {"ACTIVE", "SUPERSEDED"}
                              => credited # {}
    BY DEF PublishedVersionHasResult
  <2>1. {k \in Jobs : job'[k].result = w} = {k \in Jobs : job[k].result = w}
    BY <1>3
  <2>2. \A k \in Jobs : job'[k].version = job[k].version /\ job'[k].stage = job[k].stage
    BY <1>3 DEF SameWork
  <2>. QED BY <1>1, <1>3, <1>5, <2>1, <2>2 DEF Records, PublishedVersionHasResult
<1>12. Bought'
  <2>1. j \notin Succeeded /\ Succeeded' = Succeeded \cup {j}
    BY <1>1, <1>3 DEF Succeeded
  <2>2. /\ WorkOf(j) = <<v, s>>
        /\ \A k \in Jobs : WorkOf(k)' = WorkOf(k)
    BY <1>2, <1>3 DEF WorkOf, SameWork
  <2>3. Obtained' = Obtained \cup {<<v, s>>}
    <3>1. Obtained = {WorkOf(k) : k \in Succeeded}
      BY DEF Obtained, WorkOf
    <3>2. Obtained' = {WorkOf(k) : k \in Succeeded'}
      BY <1>3 DEF Obtained, WorkOf, Succeeded, SameWork
    <3>. QED BY <2>1, <2>2, <3>1, <3>2
  <2>4. /\ Cardinality(Succeeded') = Cardinality(Succeeded) + 1
        /\ Cardinality(Obtained') = IF <<v, s>> \in Obtained THEN Cardinality(Obtained)
                                    ELSE Cardinality(Obtained) + 1
    BY <2>1, <2>3, BooksFinite, FS_AddElement
  <2>5. project'.regens = project.regens
    BY RowTypes DEF Persists, PersistResult, ProjectType
  <2>6. version[v].stage <= s /\ version[v].stage \in Int /\ s \in Int
    <3>1. CanRun(version[v], s)
      BY <1>1, <1>2 DEF Rows, Drafts, ActiveJobFitsDraft
    <3>2. version[v].stage \in Int /\ s \in Nat /\ s >= 1
      BY <1>2, ConstantFacts, RowTypes DEF VersionType, Stages
    <3>. QED BY <3>1, <3>2 DEF CanRun, IDEA
  <2>7. ASSUME NEW k \in Succeeded', Staging(job[k].version)'
        PROVE  (job[k].stage <= version[job[k].version].stage)'
    <3>1. k \in Jobs /\ job'[k].version = job[k].version /\ job'[k].stage = job[k].stage
      BY <1>3, <2>7 DEF Succeeded, SameWork
    <3>2. job[k].version = v
      BY <1>2, <1>5, <2>1, <2>7, <3>1, RowTypes DEF Staging, Succeeded
    <3>3. CASE k = j
      BY <3>1, <3>2, <3>3, <1>2, <1>5, <2>6
    <3>4. CASE k # j
      <4>1. k \in Succeeded /\ job[k].stage <= version[v].stage /\ job[k].stage \in Int
        BY <3>1, <3>2, <3>4, <2>1, <1>2, ConstantFacts DEF Records, Bought, TypeInv, TypeOK, JobType
      <4>. QED BY <3>1, <3>2, <4>1, <1>5, <2>6
    <3>. QED BY <3>3, <3>4
  <2>. QED BY <2>2, <2>4, <2>5, <2>7, <1>1, <1>4, BooksFinite DEF Records, Bought
<1>. QED BY <1>6, <1>7, <1>8, <1>9, <1>10, <1>11, <1>12 DEF Records

LEMMA ConfirmScriptRecords ==
  ASSUME TypeInv, Rows, Records, NEW v \in Versions, ConfirmScript(v)
  PROVE  Records'
<1>1. /\ Staging(v) /\ \A w \in Versions : Staging(w) => w = v
      /\ \A k \in Jobs : ~Active(k)
  BY DEF ConfirmScript, Records, OneStaging, NoActiveJob
<1>2. PICK j \in ResultJobs(v) : job' = [job EXCEPT ![j].result = v]
  BY DEF ConfirmScript, Records, LastResultKnown
<1>3. /\ j \in Jobs /\ job[j].status = "SUCCEEDED" /\ job[j].version = v /\ job[j].stage = NumStages
      /\ job'[j].result = v
      /\ \A k \in Jobs : /\ job'[k].status = job[k].status /\ SameWork(k)
                         /\ k # j => job'[k] = job[k]
  BY <1>2, RowTypes DEF ResultJobs, SameWork, JobType
<1>4. \A w \in Versions :
        /\ version'[w].content = version[w].content
        /\ version[w].status # "ABSENT" <=> version'[w].status # "ABSENT"
        /\ w # v /\ version'[w].status \in {"ACTIVE", "SUPERSEDED"}
             => version[w].status \in {"ACTIVE", "SUPERSEDED"}
        /\ ~Staging(w)'
        /\ w # v /\ version'[w].status = "ABSENT" => version[w].status = "ABSENT"
  BY <1>1, RowTypes, ZenonT(40) DEF ConfirmScript, ActivatedVersions, Staging, VersionType
<1>5. version'[v].status = "ACTIVE"
  BY RowTypes DEF ConfirmScript, ActivatedVersions, VersionType
<1>6. \A k \in Jobs : ~Active(k)'
  BY <1>1, <1>3 DEF Active
<1>7. OneStaging' /\ InOrder' /\ ShowsDraft' /\ LastResultKnown' /\ ActiveIsNewest'
  BY <1>4, <1>6 DEF Records, OneStaging, InOrder, ShowsDraft, LastResultKnown, ActiveIsNewest
<1>8. PrevKnown'
  <2>1. \A h \in Handlers : handler'[h].pc \in PrevPCs => JobOf(h)' \in Jobs
    BY HandlerFacts DEF ConfirmScript, PrevPCs, JobOf
  <2>. QED BY <1>6, <2>1 DEF PrevKnown
<1>9. JobsHaveVersions'
  BY <1>3, <1>4, RowTypes DEF Records, JobsHaveVersions, SameWork
<1>10. ContentFromLatestResult'
  <2> SUFFICES ASSUME NEW w \in Versions, NEW q \in Stages
               PROVE  LET c == version'[w].content[q]
                          done == {k \in Jobs : /\ job'[k].status = "SUCCEEDED"
                                                /\ job'[k].version = w /\ job'[k].stage = q}
                      IN /\ c = 0 => done = {}
                         /\ c \in Jobs => /\ c \in done
                                          /\ \A k \in done : job'[k].queuedAt <= job'[c].queuedAt
    BY DEF ContentFromLatestResult
  <2>1. {k \in Jobs : job'[k].status = "SUCCEEDED" /\ job'[k].version = w /\ job'[k].stage = q}
        = {k \in Jobs : job[k].status = "SUCCEEDED" /\ job[k].version = w /\ job[k].stage = q}
    BY <1>3 DEF SameWork
  <2>. QED BY <2>1, <1>3, <1>4 DEF Records, ContentFromLatestResult, SameWork
<1>11. PublishedVersionHasResult'
  <2> SUFFICES ASSUME NEW w \in Versions
               PROVE  LET credited == {k \in Jobs : job'[k].result = w}
                      IN /\ version'[w].status \in {"ABSENT", "STAGING"} => credited = {}
                         /\ \A i, k \in credited : i = k
                         /\ \A k \in credited : /\ job'[k].status = "SUCCEEDED"
                                                /\ job'[k].version = w /\ job'[k].stage = NumStages
                         /\ (\E k \in Jobs : job'[k].version = w)
                              /\ version'[w].status \in {"ACTIVE", "SUPERSEDED"}
                              => credited # {}
    BY DEF PublishedVersionHasResult
  <2> DEFINE credited == {k \in Jobs : job[k].result = w}
  <2>1. /\ version[w].status \in {"ABSENT", "STAGING"} => credited = {}
        /\ \A i, k \in credited : i = k
        /\ \A k \in credited : /\ job[k].status = "SUCCEEDED"
                               /\ job[k].version = w /\ job[k].stage = NumStages
        /\ (\E k \in Jobs : job[k].version = w) /\ version[w].status \in {"ACTIVE", "SUPERSEDED"}
             => credited # {}
    BY DEF Records, PublishedVersionHasResult
  <2>2. CASE w = v
    <3>1. {k \in Jobs : job'[k].result = w} = {j}
      BY <2>1, <2>2, <1>1, <1>3 DEF Staging
    <3>. QED BY <2>2, <3>1, <1>3, <1>5 DEF SameWork
  <2>3. CASE w # v
    <3>1. {k \in Jobs : job'[k].result = w} = credited
      BY <2>1, <2>3, <1>3
    <3>2. /\ version'[w].status \in {"ABSENT", "STAGING"} => version[w].status = "ABSENT"
          /\ version'[w].status \in {"ACTIVE", "SUPERSEDED"} =>
               version[w].status \in {"ACTIVE", "SUPERSEDED"}
      BY <2>3, <1>4 DEF Staging
    <3>3. \A k \in Jobs : /\ job'[k].status = job[k].status
                          /\ job'[k].version = job[k].version /\ job'[k].stage = job[k].stage
      BY <1>3 DEF SameWork
    <3>. QED BY <2>1, <3>1, <3>2, <3>3
  <2>. QED BY <2>2, <2>3
<1>12. Bought'
  <2>1. \A w \in Versions : version'[w].stage = version[w].stage
    BY RowTypes DEF ConfirmScript, ActivatedVersions, VersionType
  <2>2. project'.regens = project.regens
    BY RowTypes DEF ConfirmScript, ProjectType
  <2>3. BooksStay
    BY <1>3, <1>4, <1>6, <2>1, <2>2 DEF BooksStay
  <2>. QED BY <2>3, BooksKept DEF Records
<1>. QED BY <1>7, <1>8, <1>9, <1>10, <1>11, <1>12 DEF Records

LEMMA UpdateStageRecords ==
  ASSUME TypeInv, Rows, Records, NEW v \in Versions, NEW s \in Stages, UpdateStage(v, s)
  PROVE  Records'
<1>1. /\ UNCHANGED <<project, job, handler>>
      /\ \A w \in Versions : /\ version'[w].status = version[w].status
                             /\ version'[w].stage = version[w].stage
      /\ \A w \in Versions, q \in Stages :
           version'[w].content[q] = version[w].content[q] \/ version'[w].content[q] = Edited
  BY RowTypes DEF UpdateStage, VersionType
<1>2. \A h \in Handlers : handler[h].pc \in PrevPCs => JobOf(h) \in Jobs
                                                       /\ job[JobOf(h)].status # "ABSENT"
  BY HandlerFacts DEF PrevPCs
<1>3. PrevKnown'
  BY <1>1, <1>2, RowTypes DEF Records, PrevKnown, Active, JobOf, Attempt
<1>4. OneStaging' /\ InOrder' /\ ShowsDraft' /\ ActiveIsNewest'
  BY <1>1 DEF Records, OneStaging, InOrder, ShowsDraft, ActiveIsNewest, Staging, Active
<1>5. JobsHaveVersions'
  BY <1>1, RowTypes DEF Records, JobsHaveVersions
<1>6. LastResultKnown'
  <2>1. \A w \in Versions : ResultJobs(w)' = ResultJobs(w)
    BY <1>1 DEF ResultJobs
  <2>. QED BY <1>1, <2>1 DEF Records, LastResultKnown, Staging
<1>7. ContentFromLatestResult'
  BY <1>1, DraftFacts DEF Records, ContentFromLatestResult
<1>8. PublishedVersionHasResult'
  BY <1>1 DEF Records, PublishedVersionHasResult
<1>9. Bought'
  BY <1>1, BooksKept DEF Records, BooksStay, SameWork, Staging, Active
<1>. QED BY <1>3, <1>4, <1>5, <1>6, <1>7, <1>8, <1>9 DEF Records

LEMMA RequestRecords ==
  ASSUME TypeInv, Fence, Rows, Records, UserRequest
  PROVE  Records'
<1>1. KeepsPrev
  BY DEF UserRequest, Enqueue, RegenerateStage, ConfirmStage, ConfirmScript, UpdateStage, KeepsPrev
<1>2. ASSUME NEW j \in Jobs, NEW v \in Versions, Enqueue(j, v) PROVE Records'
  <2>1. /\ version[v].status = "ABSENT" /\ version'[v] = NewDraft
        /\ \A w \in Versions : ~Staging(w)
        /\ \A w \in Versions \ {v} :
             \/ version'[w] = version[w]
             \/ version[w].status = "ABSENT" /\ version'[w] = CapturedVersion
    <3>1. version \in [Versions -> VersionType] /\ \A w \in Versions : ~Staging(w)
      BY <1>2, RowTypes DEF Enqueue
    <3>2. CASE NeedsCapture
      <4>1. /\ v - 1 \in Versions /\ version[v - 1].status = "ABSENT" /\ v - 1 # v
            /\ version' = [version EXCEPT ![v - 1] = CapturedVersion, ![v] = NewDraft]
        BY <1>2, <3>2 DEF Enqueue, FreshVersion, Versions
      <4>2. version[v].status = "ABSENT"
        BY <4>1 DEF Records, InOrder, Versions
      <4>. QED BY <3>1, <4>1, <4>2
    <3>3. CASE ~NeedsCapture
      BY <1>2, <3>1, <3>3 DEF Enqueue, FreshVersion
    <3>. QED BY <3>2, <3>3
  <2>2. \A w \in Versions : DraftKept(w) \/ DraftAdded(w)
    BY <2>1 DEF DraftKept, DraftAdded
  <2>3. project'.status = "GENERATING"
    BY <1>2, RowTypes DEF Enqueue, ProjectType
  <2>4. OneStaging'
    BY <2>1, DraftFacts DEF OneStaging, Staging
  <2>5. InOrder'
    <3>1. \A w \in Versions : w < v => version'[w].status # "ABSENT"
      <4>1. CASE NeedsCapture
        BY <1>2, <4>1, <2>1, DraftFacts, RowTypes DEF Enqueue, FreshVersion, Versions
      <4>2. CASE ~NeedsCapture
        BY <1>2, <4>2, <2>1, DraftFacts DEF Enqueue, FreshVersion
      <4>. QED BY <4>1, <4>2
    <3>2. \A w \in Versions : v < w => version'[w].status = "ABSENT"
      <4>1. \A w \in Versions : v < w => version[w].status = "ABSENT"
        BY <2>1 DEF Records, InOrder
      <4>2. \A w \in Versions : v < w => version'[w] = version[w]
        <5>1. CASE NeedsCapture
          BY <1>2, <5>1, RowTypes DEF Enqueue, Versions
        <5>2. CASE ~NeedsCapture
          BY <1>2, <5>2, RowTypes DEF Enqueue, Versions
        <5>. QED BY <5>1, <5>2
      <4>. QED BY <4>1, <4>2
    <3>3. version'[v].status # "ABSENT" /\ \A w \in Versions : w < v \/ w = v \/ v < w
      BY <2>1, DraftFacts DEF Versions
    <3>. QED BY <3>1, <3>2, <3>3 DEF InOrder, Versions
  <2>6. Pays(v, 1)
    <3>1. project'.regens = project.regens
      BY <1>2, RowTypes DEF Enqueue, ProjectType
    <3>2. <<v, 1>> \notin Obtained
      BY <2>1 DEF Records, JobsHaveVersions, Obtained, Succeeded
    <3>. QED BY <3>1, <3>2 DEF Pays
  <2>. QED BY <1>1, <1>2, <2>2, <2>3, <2>4, <2>5, <2>6, ConstantFacts, RequestCreates, CreateRecords
<1>3. ASSUME NEW j \in Jobs, NEW v \in Versions, NEW s \in Stages, RegenerateStage(j, v, s)
      PROVE  Records'
  <2>1. project'.status = "GENERATING" /\ UNCHANGED version
    BY <1>3, RowTypes DEF RegenerateStage, ProjectType
  <2>2. OneStaging' /\ InOrder'
    BY <2>1 DEF Records, OneStaging, InOrder, Staging
  <2>3. Pays(v, s)
    <3>1. CASE RetriesFirstStage(version[v], s)
      <4>1. <<v, s>> \notin Obtained
        <5>1. \A k \in Succeeded : job[k].version = v => job[k].stage <= 0
          BY <1>3, <3>1 DEF RegenerateStage, RetriesFirstStage, IDEA, Records, Bought
        <5>. QED BY <3>1, <5>1 DEF RetriesFirstStage, Obtained
      <4>2. project'.regens = project.regens
        BY <1>3, <3>1, RowTypes DEF RegenerateStage, ProjectType
      <4>. QED BY <4>1, <4>2 DEF Pays
    <3>2. CASE LocalUnlimited
      BY <1>3, <3>2, RowTypes DEF RegenerateStage, ProjectType, Pays
    <3>3. CASE ~(RetriesFirstStage(version[v], s) \/ LocalUnlimited)
      BY <1>3, <3>3, RowTypes DEF RegenerateStage, ProjectType, Pays
    <3>. QED BY <3>1, <3>2, <3>3
  <2>. QED BY <1>1, <1>3, <2>1, <2>2, <2>3, RequestCreates, CreateRecords DEF DraftKept
<1>4. ASSUME NEW j \in Jobs, NEW v \in Versions, NEW s \in Stages, ConfirmStage(j, v, s)
      PROVE  Records'
  <2>1. \A w \in Versions : DraftKept(w)
    BY <1>4, RowTypes DEF ConfirmStage, DraftKept, VersionType
  <2>2. project'.status = "GENERATING"
    BY <1>4, RowTypes DEF ConfirmStage, ProjectType
  <2>3. OneStaging' /\ InOrder'
    BY <2>1 DEF Records, OneStaging, InOrder, Staging, DraftKept
  <2>4. Pays(v, NextStage(s))
    <3>1. project'.regens = project.regens
      BY <1>4, RowTypes DEF ConfirmStage, ProjectType
    <3>2. \A k \in Succeeded : job[k].version = v => job[k].stage <= s
      BY <1>4 DEF ConfirmStage, Records, Bought
    <3>3. NextStage(s) = s + 1 /\ s \in Nat
      BY <1>4, StageAssumption DEF ConfirmStage, NextStage, Stages
    <3>. QED BY <3>1, <3>2, <3>3 DEF Pays, Obtained
  <2>. QED BY <1>1, <1>4, <2>1, <2>2, <2>3, <2>4, RequestCreates, CreateRecords
<1>. QED BY <1>2, <1>3, <1>4, ConfirmScriptRecords, UpdateStageRecords DEF UserRequest

LEMMA MoveKeepsPrev ==
  ASSUME TypeInv, NEW h \in Handlers
  PROVE  /\ \A p : p \notin PrevPCs \/ handler[h].pc \in PrevPCs => (Goto(h, p) => KeepsPrev)
         /\ \A p, e : p \notin PrevPCs \/ handler[h].pc \in PrevPCs => (Throw(h, p, e) => KeepsPrev)
         /\ \A p : p \notin PrevPCs => (Leave(h, p) => KeepsPrev)
         /\ UNCHANGED handler => KeepsPrev
<1>1. handler \in [Handlers -> HandlerType]
  BY RowTypes
<1>2. ASSUME NEW p, p \notin PrevPCs \/ handler[h].pc \in PrevPCs, Goto(h, p) PROVE KeepsPrev
  BY <1>1, <1>2 DEF Goto, KeepsPrev, HandlerType
<1>3. ASSUME NEW p, NEW e, p \notin PrevPCs \/ handler[h].pc \in PrevPCs, Throw(h, p, e)
      PROVE  KeepsPrev
  BY <1>1, <1>3 DEF Throw, KeepsPrev, HandlerType
<1>4. ASSUME NEW p, p \notin PrevPCs, Leave(h, p) PROVE KeepsPrev
  BY <1>1, <1>4 DEF Leave, HandlerAt, KeepsPrev
<1>5. UNCHANGED handler => KeepsPrev
  BY DEF KeepsPrev
<1>. QED BY <1>2, <1>3, <1>4, <1>5

LEMMA EnvironmentRecords ==
  ASSUME TypeInv, Rows, Records
  PROVE  /\ \A h \in Handlers, j \in Jobs : Deliver(h, j) => Records'
         /\ \A h \in Handlers : StepFails(h) => Records'
         /\ \A j \in Jobs : LoseDelivery(j) => Records'
         /\ Crash => Records'
         /\ ReviewTrend => Records'
<1>1. ASSUME NEW h \in Handlers, NEW j \in Jobs, Deliver(h, j) PROVE Records'
  <2>1. KeepsPrev
    BY <1>1, RowTypes DEF Deliver, HandlerAt, KeepsPrev, PrevPCs
  <2>. QED BY <1>1, <2>1, IdleRecords DEF Deliver, dbVars
<1>2. ASSUME NEW h \in Handlers, StepFails(h) PROVE Records'
  <2>1. KeepsPrev
    <3>1. CASE handler' = [handler EXCEPT ![h] = IdleHandler]
      BY <3>1, RowTypes DEF IdleHandler, HandlerAt, KeepsPrev, PrevPCs
    <3>2. /\ \A p \in {"nack", "ack", "settle"} : p \notin PrevPCs
          /\ \A p \in {"boundary", "commit"} : p \in PrevPCs
      BY DEF PrevPCs
    <3>. QED BY <1>2, <3>1, <3>2, MoveKeepsPrev DEF StepFails
  <2>. QED BY <1>2, <2>1, IdleRecords DEF StepFails, dbVars
<1>3. \A j \in Jobs : LoseDelivery(j) => Records'
  BY IdleRecords DEF LoseDelivery, dbVars, KeepsPrev
<1>4. ASSUME Crash PROVE Records'
  <2>1. KeepsPrev
    BY <1>4 DEF Crash, IdleHandler, HandlerAt, KeepsPrev, PrevPCs
  <2>. QED BY <1>4, <2>1, IdleRecords DEF Crash, dbVars
<1>5. ReviewTrend => Records'
  BY IdleRecords DEF ReviewTrend, dbVars, KeepsPrev
<1>. QED BY <1>1, <1>2, <1>3, <1>4, <1>5

LEMMA ReaderRecords ==
  ASSUME TypeInv, Rows, Records, NEW r \in Readers
  PROVE  /\ \A j \in Jobs : ReadJob(r, j) => Records'
         /\ ReaderStep(r) => Records'
<1>1. UNCHANGED handler => KeepsPrev
  BY DEF KeepsPrev
<1>2. \A p \in {"fail", "mark"} : reader[r].pc = p /\ StillAsRead(r) =>
        reader[r].job \in Jobs /\ Active(reader[r].job)
  BY DEF TypeInv, TypeOK, Rows, ReadersSawActive, ReaderStatus, StillAsRead, Active
<1>3. \A j \in Jobs : ReadJob(r, j) => Records'
  BY <1>1, IdleRecords DEF ReadJob, dbVars
<1>4. ReadQueueRow(r) \/ JudgeGrace(r) => Records'
  BY <1>1, IdleRecords DEF ReadQueueRow, JudgeGrace, dbVars
<1>5. FailUndelivered(r) => Records'
  BY <1>1, <1>2, IdleRecords, FailRecords DEF FailUndelivered, dbVars
<1>6. ASSUME MarkRetrying(r) PROVE Records'
  <2>1. CASE StillAsRead(r)
    <3>1. PICK j \in Jobs : j = reader[r].job /\ Active(j)
      BY <1>2, <1>6, <2>1 DEF MarkRetrying
    <3>2. /\ \A k \in Jobs : k # j => job'[k] = job[k]
          /\ SameWork(j) /\ job'[j].result = job[j].result /\ job'[j].status = "RETRYING"
          /\ job'[j].attempt = job[j].attempt
      BY <1>6, <2>1, <3>1, RowTypes DEF MarkRetrying, SameWork, JobType
    <3>3. Plain
      BY <1>6, <3>1, <3>2, OneJobPlain DEF MarkRetrying, ActiveStatuses
    <3>4. AttemptsStay
      BY <3>2 DEF AttemptsStay
    <3>. QED BY <1>1, <1>6, <3>3, <3>4, PrevKept, ShownKept, PlainRecords DEF MarkRetrying
  <2>2. CASE ~StillAsRead(r)
    BY <1>1, <1>6, <2>2, IdleRecords DEF MarkRetrying
  <2>. QED BY <2>1, <2>2
<1>7. ASSUME RepairFailed(r) PROVE Records'
  <2>1. UNCHANGED <<version, job, handler>> /\ reader[r].job \in Jobs
    BY <1>7 DEF RepairFailed, TypeInv, TypeOK
  <2>2. ShowsDraft'
    <3>1. CASE UNCHANGED project
      BY <2>1, <3>1, ShownKept
    <3>2. CASE ~UNCHANGED project
      <4>1. /\ project' = ProjectRepaired(reader[r].job) /\ project.status = "GENERATING"
            /\ \A k \in Jobs \ {reader[r].job} : ~Active(k)
        BY <1>7, <3>2 DEF RepairFailed, ProjectRepaired
      <4>2. Active(reader[r].job)
        BY <4>1 DEF Rows, GeneratingHasActiveJob, NoActiveJob
      <4>. QED BY <2>1, <4>1, <4>2, ShownKept
    <3>. QED BY <3>1, <3>2
  <2>3. project'.regens = project.regens
    BY <1>7, RowTypes DEF RepairFailed, ProjectRepaired, ProjectType
  <2>. QED BY <1>1, <2>1, <2>2, <2>3, SameJobsPlain, PrevKept, PlainRecords
<1>. QED BY <1>3, <1>4, <1>5, <1>6, <1>7 DEF ReaderStep

\* A claim raises the attempt above that of every other handler of the job.
LEMMA ClaimRecords ==
  ASSUME TypeInv, Fence, Rows, Records, NEW h \in Handlers, ClaimAttempt(h)
  PROVE  Records'
<1>1. KeepsPrev /\ UNCHANGED <<project, version>>
  <2>1. \A p \in {"trend", "nack", "ack"} : p \notin PrevPCs
    BY DEF PrevPCs
  <2>. QED BY <2>1, MoveKeepsPrev DEF ClaimAttempt
<1>2. PICK j \in Jobs : j = JobOf(h) /\ Attempt(h) \in Nat /\ handler[h].retry \in Nat
  BY HandlerFacts DEF ClaimAttempt
<1>3. CASE Claimable(j, handler[h].retry)
  <2>1. Active(j) /\ job[j].attempt < Attempt(h)
    BY <1>2, <1>3, RowTypes DEF Claimable, Active, ActiveStatuses, Attempt, JobType
  <2>2. /\ \A k \in Jobs : k # j => job'[k] = job[k]
        /\ SameWork(j) /\ job'[j].result = job[j].result /\ job'[j].status = "RUNNING"
        /\ job'[j].attempt = Attempt(h)
    BY <1>2, <1>3, RowTypes DEF ClaimAttempt, SameWork, JobType
  <2>3. Plain
    BY <1>1, <2>1, <2>2, OneJobPlain DEF ActiveStatuses
  <2>4. ASSUME NEW i \in Handlers, handler'[i].pc \in PrevPCs, Active(JobOf(i))',
               (job[JobOf(i)].attempt = Attempt(i))'
        PROVE  (handler[i].prev = version[job[JobOf(i)].version].stage)'
    <3>1. /\ handler[i].pc \in PrevPCs /\ JobOf(i)' = JobOf(i) /\ Attempt(i)' = Attempt(i)
          /\ handler'[i].prev = handler[i].prev
          /\ JobOf(i) \in Jobs /\ Attempt(i) \in Nat
      BY <1>1, <2>4, HandlerFacts DEF KeepsPrev, JobOf, Attempt, PrevPCs
    <3>2. JobOf(i) # j
      <4>1. JobOf(i) = j => Attempt(i) <= job[j].attempt
        BY <3>1 DEF Fence, OneHandlerPerAttempt, Claimed, ClaimedPCs, PrevPCs
      <4>2. job[j].attempt \in Nat
        BY RowTypes DEF JobType
      <4>. QED BY <2>1, <2>2, <2>4, <3>1, <4>1, <4>2, <1>2
    <3>3. job'[JobOf(i)] = job[JobOf(i)]
      BY <2>2, <3>1, <3>2
    <3>. QED BY <1>1, <2>4, <3>1, <3>3 DEF Records, PrevKnown, Active
  <2>5. PrevKnown'
    BY <2>4 DEF PrevKnown
  <2>. QED BY <1>1, <2>3, <2>5, ShownKept, PlainRecords
<1>4. CASE ~Claimable(j, handler[h].retry)
  BY <1>1, <1>2, <1>4, IdleRecords DEF ClaimAttempt
<1>. QED BY <1>3, <1>4

LEMMA PlanRecords ==
  ASSUME TypeInv, Rows, Records, NEW h \in Handlers, PlanStage(h)
  PROVE  Records'
<1>1. UNCHANGED <<project, version, job>>
  BY DEF PlanStage, dbVars
<1>2. CASE Throw(h, "settle", "retryable")
  BY <1>1, <1>2, MoveKeepsPrev, IdleRecords DEF PrevPCs
<1>3. CASE handler' = [handler EXCEPT ![h].pc = "boundary",
                                      ![h].prev = version[job[JobOf(h)].version].stage]
  <2>1. /\ handler'[h].prev = version[job[JobOf(h)].version].stage /\ handler'[h].job = JobOf(h)
        /\ \A i \in Handlers : i # h => handler'[i] = handler[i]
    BY <1>3, RowTypes DEF HandlerType, JobOf
  <2>2. PrevKnown'
    BY <1>1, <2>1 DEF Records, PrevKnown, Active, JobOf, Attempt
  <2>. QED BY <1>1, <2>2, SameJobsPlain, ShownKept, PlainRecords
<1>. QED BY <1>2, <1>3 DEF PlanStage

LEMMA HandlerRecords ==
  ASSUME TypeInv, Fence, Rows, Records, NEW h \in Handlers, HandlerStep(h)
  PROVE  Records'
<1>1. handler[h].pc # "idle" => JobOf(h) \in Jobs
  BY HandlerFacts
<1>2. /\ \A p \in {"claim", "nack", "ack", "settle", "trend", "stop", "plan"} : p \notin PrevPCs
      /\ \A p \in {"boundary", "generate", "provider", "commit", "cleanup"} : p \in PrevPCs
  BY DEF PrevPCs
<1>3. LoadJob(h) \/ CheckTrend(h) \/ CallProvider(h) \/ ProviderAnswers(h) => Records'
  BY <1>2, MoveKeepsPrev, IdleRecords DEF LoadJob, CheckTrend, CallProvider, ProviderAnswers, dbVars
<1>4. ASSUME Acknowledge(h) PROVE Records'
  <2>1. KeepsPrev
    BY <1>4, RowTypes DEF Acknowledge, IdleHandler, HandlerAt, KeepsPrev, PrevPCs
  <2>. QED BY <1>4, <2>1, IdleRecords DEF Acknowledge, dbVars
<1>5. StopPrevious(h) => Records'
  BY <1>1, <1>2, MoveKeepsPrev, IdleRecords, FailRecords DEF StopPrevious, dbVars
<1>6. ASSUME OpenRun(h) PROVE Records'
  <2>1. CASE Owns(h)
    <3>1. PICK j \in Jobs : j = JobOf(h)
      BY <1>1, <1>6 DEF OpenRun
    <3>2. Active(j)
      BY <2>1, <3>1 DEF Owns, Active, ActiveStatuses
    <3>3. /\ \A k \in Jobs : k # j => job'[k] = job[k]
          /\ SameWork(j) /\ job'[j].result = job[j].result /\ job'[j].status = job[j].status
          /\ job'[j].attempt = job[j].attempt
          /\ UNCHANGED version
          /\ project'.status = "GENERATING" /\ project'.regens = project.regens
      <4>1. /\ job' = [job EXCEPT ![j].seq = @ + 1] /\ UNCHANGED version
            /\ project' = [project EXCEPT !.status = "GENERATING", !.stage = job[j].stage]
        BY <1>6, <2>1, <3>1 DEF OpenRun
      <4>. QED BY <4>1, RowTypes DEF SameWork, JobType, ProjectType
    <3>4. KeepsPrev
      <4>1. CASE handler' = [handler EXCEPT ![h].pc = "generate", ![h].run = clock + 1]
        BY <1>6, <4>1, RowTypes DEF OpenRun, KeepsPrev, PrevPCs, HandlerType
      <4>2. CASE Throw(h, "cleanup", "retryable")
        BY <1>2, <1>6, <4>2, MoveKeepsPrev DEF OpenRun
      <4>. QED BY <1>6, <2>1, <4>1, <4>2 DEF OpenRun
    <3>5. Plain
      BY <3>2, <3>3, OneJobPlain DEF Active
    <3>6. AttemptsStay
      BY <3>3 DEF AttemptsStay
    <3>. QED BY <3>3, <3>4, <3>5, <3>6, PrevKept, ShownKept, PlainRecords
  <2>2. CASE ~Owns(h)
    BY <1>2, <1>6, <2>2, MoveKeepsPrev, IdleRecords DEF OpenRun
  <2>. QED BY <2>1, <2>2
<1>7. ASSUME CommitResult(h) PROVE Records'
  <2>1. KeepsPrev
    BY <1>2, <1>7, MoveKeepsPrev DEF CommitResult
  <2>2. KeepsRun
    BY <1>7, MoveKeepsRun DEF CommitResult, CallPCs
  <2>3. CASE Owns(h) /\ PersistResult(h)
    BY <1>1, <1>7, <2>1, <2>2, <2>3, PersistRecords DEF CommitResult, Persists
  <2>4. CASE UNCHANGED dbVars
    BY <2>1, <2>4, IdleRecords DEF dbVars
  <2>. QED BY <1>7, <2>3, <2>4 DEF CommitResult
<1>8. ASSUME CleanUp(h) PROVE Records'
  <2>1. KeepsPrev /\ UNCHANGED <<version, job>>
    BY <1>2, <1>8, MoveKeepsPrev DEF CleanUp
  <2>2. ShowsDraft'
    <3>1. CASE Owns(h)
      <4>1. /\ JobOf(h) \in Jobs /\ Active(JobOf(h))
            /\ handler[h].prev = version[job[JobOf(h)].version].stage
        BY <1>1, <1>2, <1>8, <3>1
        DEF CleanUp, Owns, Active, ActiveStatuses, Records, PrevKnown
      <4>2. project'.status = "REVIEWING" /\ project'.stage = handler[h].prev
        BY <1>8, <3>1, RowTypes DEF CleanUp, ProjectType
      <4>. QED BY <2>1, <4>1, <4>2, ShownKept
    <3>2. CASE ~Owns(h)
      BY <1>8, <2>1, <3>2, ShownKept DEF CleanUp
    <3>. QED BY <3>1, <3>2
  <2>3. project'.regens = project.regens
    BY <1>8, RowTypes DEF CleanUp, ProjectType
  <2>. QED BY <2>1, <2>2, <2>3, SameJobsPlain, PrevKept, PlainRecords
<1>9. ASSUME Settle(h) PROVE Records'
  <2>1. KeepsPrev
    BY <1>2, <1>9, MoveKeepsPrev DEF Settle
  <2>2. PICK j \in Jobs : j = JobOf(h)
    BY <1>1, <1>9 DEF Settle
  <2>3. CASE UNCHANGED dbVars
    BY <2>1, <2>3, IdleRecords DEF dbVars
  <2>4. CASE Active(j) /\ FailJob(j)
    BY <2>1, <2>4, FailRecords
  <2>5. CASE /\ Active(j) /\ UNCHANGED <<project, version, runs>>
             /\ job' = [job EXCEPT ![j].status = "RETRYING", ![j].completedAt = 0, ![j].seq = @ + 1]
    <3>1. /\ \A k \in Jobs : k # j => job'[k] = job[k]
          /\ SameWork(j) /\ job'[j].result = job[j].result /\ job'[j].status = "RETRYING"
          /\ job'[j].attempt = job[j].attempt
      BY <2>5, RowTypes DEF SameWork, JobType
    <3>2. Plain
      BY <2>5, <3>1, OneJobPlain DEF ActiveStatuses
    <3>3. AttemptsStay
      BY <3>1 DEF AttemptsStay
    <3>. QED BY <2>1, <2>5, <3>2, <3>3, PrevKept, ShownKept, PlainRecords
  <2>. QED BY <1>9, <2>2, <2>3, <2>4, <2>5 DEF Settle
<1>. QED BY <1>3, <1>4, <1>5, <1>6, <1>7, <1>8, <1>9, ClaimRecords, PlanRecords DEF HandlerStep

LEMMA InitRecords == Init => Records
<1> SUFFICES ASSUME Init PROVE Records
  OBVIOUS
<1>1. /\ \A j \in Jobs : job[j] = NoJob /\ ~Active(j)
      /\ \A v \in Versions : version[v] = NoVersion
      /\ NoJob.status = "ABSENT" /\ NoJob.version = 0 /\ NoJob.result = 0
      /\ NoVersion.status = "ABSENT"
      /\ \A s \in Stages : NoVersion.content[s] = 0
  BY DEF Init, NoJob, NoVersion, Blank, Active, ActiveStatuses
<1>2. OneStaging /\ ShowsDraft /\ JobsHaveVersions /\ InOrder /\ ActiveIsNewest /\ LastResultKnown
  BY <1>1 DEF OneStaging, ShowsDraft, JobsHaveVersions, InOrder, ActiveIsNewest, LastResultKnown,
              Staging
<1>3. PrevKnown
  BY DEF Init, PrevKnown, IdleHandler, HandlerAt, PrevPCs
<1>4. ContentFromLatestResult
  BY <1>1, DraftFacts DEF ContentFromLatestResult
<1>5. PublishedVersionHasResult
  BY <1>1, DraftFacts DEF PublishedVersionHasResult
<1>6. Bought
  <2>1. Succeeded = {} /\ Obtained = {}
    BY <1>1 DEF Succeeded, Obtained
  <2>2. project.regens = 0 /\ RegenerationLimit \in Nat
    BY JobsAssumption DEF Init
  <2>. QED BY <1>1, <2>1, <2>2, FS_EmptySet DEF Bought
<1>. QED BY <1>2, <1>3, <1>4, <1>5, <1>6 DEF Records

LEMMA StepRecords == TypeInv /\ Fence /\ Rows /\ Records /\ [Next]_vars => Records'
<1> SUFFICES ASSUME TypeInv, Fence, Rows, Records, [Next]_vars PROVE Records'
  OBVIOUS
<1>1. CASE Next
  BY <1>1, RequestRecords, HandlerRecords, EnvironmentRecords, ReaderRecords DEF Next
<1>2. CASE UNCHANGED vars
  BY <1>2, IdleRecords DEF vars, dbVars, KeepsPrev
<1>. QED BY <1>1, <1>2

LEMMA RecordsHolds == Spec => [](Rows /\ Records)
<1>1. TypeInv /\ Fence /\ Rows /\ Records /\ [Next]_vars => Records'
  BY StepRecords
<1>. QED BY <1>1, InitRecords, RowsHold, PTL DEF Spec

\* Without an active job the writer is asked to review exactly the stage the
\* draft stands at (repairFailedStage and executeStage's catch put it back).
THEOREM IdleProjectShowsDraft == Spec => []IdleProjectMatchesDraft
<1>1. Rows /\ Records => IdleProjectMatchesDraft
  BY DEF Rows, GeneratingHasActiveJob, Records, ShowsDraft, IdleProjectMatchesDraft
<1>. QED BY <1>1, RecordsHolds, PTL

\* A late answer never replaces a newer result or an edit (the commit of
\* executeStage, updateStage).
THEOREM ContentIsLatest == Spec => []ContentFromLatestResult
<1>1. Records => ContentFromLatestResult
  BY DEF Records
<1>. QED BY <1>1, RecordsHolds, PTL

\* Publishing credits one SUCCEEDED job of the last stage (confirmStage).
THEOREM PublishedIsCredited == Spec => []PublishedVersionHasResult
<1>1. Records => PublishedVersionHasResult
  BY DEF Records
<1>. QED BY <1>1, RecordsHolds, PTL

\* A second result of a stage is paid with a regeneration: neither a retry nor
\* confirming again buys one (regenerateStage, confirmStage).
THEOREM RepetitionIsPaid == Spec => []RepeatedResultsBounded
<1>1. TypeInv /\ Records => RepeatedResultsBounded
  <2> SUFFICES ASSUME TypeInv, Bought PROVE RepeatedResultsBounded
    BY DEF Records
  <2>1. LocalUnlimited \/ Cardinality(Succeeded) <= Cardinality(Obtained) + RegenerationLimit
    BY BooksFinite DEF Bought
  <2>. QED BY <2>1 DEF Succeeded, Obtained, RepeatedResultsBounded
<1>. QED BY <1>1, RowsHold, RecordsHolds, PTL

-----------------------------------------------------------------------------
(***************************************************************************)
(* The generation jobs implement PaidStage.  A step that begins or ends no *)
(* job, opens no run and calls nobody is a stutter; a request that queues  *)
(* a job is Submit, the transaction before the provider Grant, the call    *)
(* Pay, the commit of a result Finish, and whoever makes a job FAILED      *)
(* takes GiveUp.                                                           *)
(***************************************************************************)

PaidPCs == {"provider", "commit"}

\* Whoever waits for an answer, or has it, has called for it.
CallBeforeCommit ==
  \A h \in Handlers : handler[h].pc \in PaidPCs => JobOf(h) \in Jobs /\ calls[JobOf(h)] > 0

PaidInv == TypeInv /\ Fence /\ Rows /\ CallBeforeCommit

-----------------------------------------------------------------------------
(* The call precedes the commit. *)

\* Nobody but CallProvider brings a handler to its answer.
KeepsCall ==
  \A h \in Handlers : handler'[h].pc \in PaidPCs =>
    handler[h].pc \in PaidPCs /\ handler'[h].job = handler[h].job

LEMMA QuietCall ==
  CallBeforeCommit /\ KeepsCall /\ UNCHANGED calls => CallBeforeCommit'
  BY DEF CallBeforeCommit, KeepsCall, JobOf

LEMMA MoveKeepsCall ==
  ASSUME TypeInv, NEW h \in Handlers
  PROVE  /\ \A p : p \notin PaidPCs \/ handler[h].pc \in PaidPCs => (Goto(h, p) => KeepsCall)
         /\ \A p, e : p \notin PaidPCs => (Throw(h, p, e) => KeepsCall)
         /\ \A p : p \notin PaidPCs => (Leave(h, p) => KeepsCall)
<1>1. handler \in [Handlers -> HandlerType]
  BY RowTypes
<1>2. ASSUME NEW p, p \notin PaidPCs \/ handler[h].pc \in PaidPCs, Goto(h, p) PROVE KeepsCall
  BY <1>1, <1>2 DEF Goto, KeepsCall, HandlerType
<1>3. ASSUME NEW p, NEW e, p \notin PaidPCs, Throw(h, p, e) PROVE KeepsCall
  BY <1>1, <1>3 DEF Throw, KeepsCall, HandlerType
<1>4. ASSUME NEW p, p \notin PaidPCs, Leave(h, p) PROVE KeepsCall
  BY <1>1, <1>4 DEF Leave, HandlerAt, KeepsCall
<1>. QED BY <1>2, <1>3, <1>4

LEMMA HandlerCalls ==
  ASSUME TypeInv, CallBeforeCommit, NEW h \in Handlers, HandlerStep(h)
  PROVE  CallBeforeCommit'
<1>1. handler \in [Handlers -> HandlerType] /\ calls \in [Jobs -> Nat]
  BY DEF TypeInv, TypeOK
<1>2. \A p \in {"claim", "nack", "ack", "settle", "cleanup", "trend", "stop", "plan", "generate"} :
        p \notin PaidPCs
  BY DEF PaidPCs
<1>3. ASSUME LoadJob(h) \/ CheckTrend(h) \/ ClaimAttempt(h) PROVE CallBeforeCommit'
  <2>1. KeepsCall
    BY <1>2, <1>3, MoveKeepsCall DEF LoadJob, CheckTrend, ClaimAttempt
  <2>. QED BY <1>3, <2>1, QuietCall DEF LoadJob, CheckTrend, ClaimAttempt
<1>4. ASSUME StopPrevious(h) \/ CommitResult(h) PROVE CallBeforeCommit'
  <2>1. KeepsCall
    BY <1>2, <1>4, MoveKeepsCall DEF StopPrevious, CommitResult
  <2>. QED BY <1>4, <2>1, QuietCall DEF StopPrevious, CommitResult
<1>5. ASSUME CleanUp(h) \/ Settle(h) PROVE CallBeforeCommit'
  <2>1. KeepsCall
    BY <1>2, <1>5, MoveKeepsCall DEF CleanUp, Settle
  <2>. QED BY <1>5, <2>1, QuietCall DEF CleanUp, Settle
<1>6. ASSUME PlanStage(h) \/ OpenRun(h) \/ Acknowledge(h) PROVE CallBeforeCommit'
  <2>1. \A p : handler' = [handler EXCEPT ![h].pc = "boundary", ![h].prev = p] => KeepsCall
    BY <1>1 DEF KeepsCall, PaidPCs, HandlerType
  <2>2. \A t : handler' = [handler EXCEPT ![h].pc = "generate", ![h].run = t] => KeepsCall
    BY <1>1 DEF KeepsCall, PaidPCs, HandlerType
  <2>3. handler' = [handler EXCEPT ![h] = IdleHandler] => KeepsCall
    BY <1>1 DEF IdleHandler, HandlerAt, KeepsCall, PaidPCs
  <2>4. KeepsCall
    BY <1>2, <1>6, <2>1, <2>2, <2>3, MoveKeepsCall DEF PlanStage, OpenRun, Acknowledge
  <2>. QED BY <1>6, <2>4, QuietCall DEF PlanStage, OpenRun, Acknowledge
<1>7. ASSUME ProviderAnswers(h) PROVE CallBeforeCommit'
  <2>1. KeepsCall
    BY <1>2, <1>7, MoveKeepsCall DEF ProviderAnswers, PaidPCs
  <2>. QED BY <1>7, <2>1, QuietCall DEF ProviderAnswers
<1>8. ASSUME CallProvider(h) PROVE CallBeforeCommit'
  <2>1. JobOf(h) \in Jobs
    BY <1>8, HandlerFacts DEF CallProvider
  <2>2. \A j \in Jobs : calls'[j] >= calls[j] /\ calls'[JobOf(h)] > 0
    BY <1>1, <1>8, <2>1 DEF CallProvider
  <2>3. ASSUME NEW i \in Handlers, handler'[i].pc \in PaidPCs
        PROVE  handler'[i].job \in Jobs /\ calls'[handler'[i].job] > 0
    <3>1. CASE i = h
      BY <1>1, <1>8, <2>1, <2>2, <3>1 DEF CallProvider, Goto, JobOf, HandlerType
    <3>2. CASE i # h
      <4>1. handler'[i] = handler[i]
        BY <1>1, <1>8, <3>2 DEF CallProvider, Goto
      <4>2. handler[i].job \in Jobs /\ calls[handler[i].job] > 0
        BY <2>3, <4>1 DEF CallBeforeCommit, JobOf
      <4>3. /\ calls[handler[i].job] \in Nat /\ calls'[handler[i].job] \in Nat
            /\ calls'[handler[i].job] >= calls[handler[i].job]
        BY <1>1, <1>8, <2>1, <2>2, <4>2 DEF CallProvider
      <4>. QED BY <4>1, <4>2, <4>3
    <3>. QED BY <3>1, <3>2
  <2>. QED BY <2>3 DEF CallBeforeCommit, JobOf
<1>. QED BY <1>3, <1>4, <1>5, <1>6, <1>7, <1>8 DEF HandlerStep

LEMMA StepCalls == TypeInv /\ CallBeforeCommit /\ [Next]_vars => CallBeforeCommit'
<1> SUFFICES ASSUME TypeInv, CallBeforeCommit, [Next]_vars PROVE CallBeforeCommit'
  OBVIOUS
<1>1. handler \in [Handlers -> HandlerType]
  BY RowTypes
<1>2. UNCHANGED <<handler, calls>> => CallBeforeCommit'
  BY DEF CallBeforeCommit, JobOf
<1>3. UserRequest => CallBeforeCommit'
  BY <1>2 DEF UserRequest, Enqueue, RegenerateStage, ConfirmStage, ConfirmScript, UpdateStage
<1>4. ASSUME NEW r \in Readers
      PROVE  ReaderStep(r) \/ (\E j \in Jobs : ReadJob(r, j)) => CallBeforeCommit'
  BY <1>2 DEF ReaderStep, ReadJob, ReadQueueRow, JudgeGrace, FailUndelivered, MarkRetrying,
              RepairFailed
<1>5. ASSUME NEW h \in Handlers, NEW j \in Jobs, Deliver(h, j) PROVE CallBeforeCommit'
  <2>1. KeepsCall
    BY <1>1, <1>5 DEF Deliver, HandlerAt, KeepsCall, PaidPCs
  <2>. QED BY <1>5, <2>1, QuietCall DEF Deliver
<1>6. ASSUME NEW h \in Handlers, StepFails(h) PROVE CallBeforeCommit'
  <2>1. handler' = [handler EXCEPT ![h] = IdleHandler] => KeepsCall
    BY <1>1 DEF IdleHandler, HandlerAt, KeepsCall, PaidPCs
  <2>2. \A p \in {"nack", "ack", "settle", "cleanup"} : p \notin PaidPCs
    BY DEF PaidPCs
  <2>3. KeepsCall
    BY <1>6, <2>1, <2>2, MoveKeepsCall DEF StepFails
  <2>. QED BY <1>6, <2>3, QuietCall DEF StepFails
<1>7. Crash => CallBeforeCommit'
  BY DEF Crash, IdleHandler, HandlerAt, CallBeforeCommit, PaidPCs
<1>8. (\E j \in Jobs : LoseDelivery(j)) \/ ReviewTrend \/ UNCHANGED vars => CallBeforeCommit'
  BY <1>2 DEF LoseDelivery, ReviewTrend, vars
<1>. QED BY <1>3, <1>4, <1>5, <1>6, <1>7, <1>8, HandlerCalls DEF Next

-----------------------------------------------------------------------------
(* The steps of PaidStage, in terms of PhaseOf and PermitOf. *)

PhasesStay == \A j \in Jobs : PhaseOf(j)' = PhaseOf(j)
PermitsStay == \A j \in Jobs : PermitOf(j)' = PermitOf(j)
OnlyPhase(j, p) == PhaseOf(j)' = p /\ \A k \in Jobs \ {j} : PhaseOf(k)' = PhaseOf(k)
OnlyPermit(j, p) == PermitOf(j)' = p /\ \A k \in Jobs \ {j} : PermitOf(k)' = PermitOf(k)

Stutter == UNCHANGED <<[j \in Jobs |-> PhaseOf(j)], [j \in Jobs |-> PermitOf(j)]>>
PaidStep == Paid!Next \/ Stutter

LEMMA AbstractSteps ==
  /\ PhasesStay /\ PermitsStay => PaidStep
  /\ \A j \in Jobs :
       /\ /\ PhaseOf(j) = "absent" /\ (\A k \in Jobs : PhaseOf(k) # "open")
          /\ OnlyPhase(j, "open") /\ PermitsStay
          => PaidStep
       /\ /\ PhaseOf(j) = "open" /\ PermitOf(j) = "none"
          /\ OnlyPermit(j, "granted") /\ PhasesStay
          => PaidStep
       /\ PermitOf(j) = "granted" /\ OnlyPermit(j, "spent") /\ PhasesStay => PaidStep
       /\ /\ PhaseOf(j) = "open" /\ PermitOf(j) = "spent"
          /\ OnlyPhase(j, "done") /\ PermitsStay
          => PaidStep
       /\ PhaseOf(j) = "open" /\ OnlyPhase(j, "failed") /\ PermitsStay => PaidStep
<1>1. PhasesStay /\ PermitsStay => PaidStep
  BY DEF PhasesStay, PermitsStay, PaidStep, Stutter
<1>2. ASSUME NEW j \in Jobs, PhaseOf(j) = "absent", \A k \in Jobs : PhaseOf(k) # "open",
             OnlyPhase(j, "open"), PermitsStay
      PROVE  Paid!Submit(j)
  BY <1>2 DEF Paid!Submit, OnlyPhase, PermitsStay
<1>3. ASSUME NEW j \in Jobs, PhaseOf(j) = "open", PermitOf(j) = "none",
             OnlyPermit(j, "granted"), PhasesStay
      PROVE  Paid!Grant(j)
  BY <1>3 DEF Paid!Grant, OnlyPermit, PhasesStay
<1>4. ASSUME NEW j \in Jobs, PermitOf(j) = "granted", OnlyPermit(j, "spent"), PhasesStay
      PROVE  Paid!Pay(j)
  BY <1>4 DEF Paid!Pay, OnlyPermit, PhasesStay
<1>5. ASSUME NEW j \in Jobs, PhaseOf(j) = "open", PermitOf(j) = "spent",
             OnlyPhase(j, "done"), PermitsStay
      PROVE  Paid!Finish(j)
  BY <1>5 DEF Paid!Finish, OnlyPhase, PermitsStay
<1>6. ASSUME NEW j \in Jobs, PhaseOf(j) = "open", OnlyPhase(j, "failed"), PermitsStay
      PROVE  Paid!GiveUp(j)
  BY <1>6 DEF Paid!GiveUp, OnlyPhase, PermitsStay
<1>. QED BY <1>1, <1>2, <1>3, <1>4, <1>5, <1>6 DEF PaidStep, Paid!Next

\* Phases follow the status, permits the runs and the calls.
LEMMA PhaseFacts ==
  ASSUME TypeInv, TypeInv', NEW j \in Jobs
  PROVE  /\ job[j].status = "ABSENT" => PhaseOf(j) = "absent"
         /\ Active(j) <=> PhaseOf(j) = "open"
         /\ Active(j)' => PhaseOf(j)' = "open"
         /\ job'[j].status = "SUCCEEDED" => PhaseOf(j)' = "done"
         /\ job'[j].status = "FAILED" => PhaseOf(j)' = "failed"
         /\ job'[j].status = job[j].status => PhaseOf(j)' = PhaseOf(j)
<1>1. job[j].status \in JobStatus /\ job'[j].status \in JobStatus
  BY DEF TypeInv, TypeOK, JobType
<1>. QED BY <1>1 DEF PhaseOf, Active, JobStatus, ActiveStatuses, TerminalStatuses

LEMMA PermitFacts ==
  /\ RunsQuiet /\ UNCHANGED calls => PermitsStay
  /\ UNCHANGED <<runs, calls>> => PermitsStay
<1>1. ASSUME RunsQuiet, UNCHANGED calls PROVE PermitsStay
  <2>1. \A j \in Jobs : (\E r \in runs' : r.job = j) <=> \E r \in runs : r.job = j
    BY <1>1 DEF RunsQuiet, SameRun
  <2>. QED BY <1>1, <2>1 DEF PermitsStay, PermitOf
<1>. QED BY <1>1 DEF PermitsStay, PermitOf

\* A step that leaves every job as active or inactive as it was.
LEMMA QuietPaid ==
  ASSUME TypeInv, TypeInv', JobsStay, RunsQuiet, UNCHANGED calls
  PROVE  PaidStep
<1>1. \A j \in Jobs : Active(j) /\ job'[j].status \in ActiveStatuses => Active(j)'
  BY DEF Active
<1>2. PhasesStay
  BY <1>1, PhaseFacts DEF PhasesStay, JobsStay
<1>. QED BY <1>2, PermitFacts, AbstractSteps

LEMMA IdlePaid ==
  ASSUME UNCHANGED <<job, runs, calls>>
  PROVE  PaidStep
<1>1. PhasesStay
  BY DEF PhasesStay, PhaseOf, Active
<1>. QED BY <1>1, PermitFacts, AbstractSteps

LEMMA CreatePaid ==
  ASSUME TypeInv, TypeInv', NoActiveJob, NEW j \in Jobs, NEW v \in Versions, NEW s \in Stages,
         CreateQueuedJob(j, v, s), UNCHANGED <<runs, calls>>
  PROVE  PaidStep
<1>1. /\ job[j].status = "ABSENT" /\ job'[j].status = "QUEUED"
      /\ \A k \in Jobs \ {j} : job'[k] = job[k]
  BY RowTypes DEF CreateQueuedJob, FreshJob, QueuedJob
<1>2. Active(j)'
  BY <1>1 DEF Active, ActiveStatuses
<1>3. PhaseOf(j) = "absent" /\ \A k \in Jobs : PhaseOf(k) # "open"
  BY <1>1, PhaseFacts DEF NoActiveJob
<1>4. OnlyPhase(j, "open")
  BY <1>1, <1>2, PhaseFacts DEF OnlyPhase
<1>. QED BY <1>3, <1>4, PermitFacts, AbstractSteps

LEMMA FailPaid ==
  ASSUME TypeInv, TypeInv', NEW j \in Jobs, Active(j), FailJob(j), UNCHANGED calls
  PROVE  PaidStep
<1>1. job'[j].status = "FAILED" /\ \A k \in Jobs \ {j} : job'[k] = job[k]
  BY RowTypes DEF FailJob, JobType
<1>2. PhaseOf(j) = "open" /\ OnlyPhase(j, "failed")
  BY <1>1, PhaseFacts DEF OnlyPhase
<1>3. PermitsStay
  BY RowTypes, RunsClosedQuiet, PermitFacts DEF FailJob
<1>. QED BY <1>2, <1>3, AbstractSteps

\* The run that is opened is the job's first, so its permit is new.
LEMMA OpenPaid ==
  ASSUME TypeInv, TypeInv', Fence, NEW h \in Handlers, NEW j \in Jobs, j = JobOf(h), OpenRun(h),
         Owns(h)
  PROVE  PaidStep
<1>1. Active(j) /\ ~HasRun(j) /\ ~(calls[j] > 0)
  BY DEF OpenRun, Owns, Active, ActiveStatuses, Fence, NoRunBeforeBoundary, RunBeforeCall
<1>2. \A k \in Jobs : job'[k].status = job[k].status
  BY RowTypes DEF OpenRun, JobType
<1>3. runs' = runs \cup {NewRun(h, clock + 1)} /\ NewRun(h, clock + 1).job = j
  BY DEF OpenRun, NewRun
<1>4. PhaseOf(j) = "open" /\ PhasesStay
  BY <1>1, <1>2, PhaseFacts DEF PhasesStay
<1>5. PermitOf(j) = "none"
  BY <1>1 DEF PermitOf, HasRun
<1>6. UNCHANGED calls
  BY DEF OpenRun
<1>7. OnlyPermit(j, "granted")
  BY <1>1, <1>3, <1>6 DEF OnlyPermit, PermitOf
<1>. QED BY <1>4, <1>5, <1>7, AbstractSteps

\* The call spends the permit its run is.
LEMMA CallPaid ==
  ASSUME TypeInv, Fence, NEW h \in Handlers, NEW j \in Jobs, j = JobOf(h), CallProvider(h)
  PROVE  PaidStep
<1>1. HasRun(j) /\ calls[j] = 0
  BY DEF CallProvider, Fence, RunBeforeCall
<1>2. calls \in [Jobs -> Nat]
  BY DEF TypeInv, TypeOK
<1>3. calls'[j] = 1 /\ \A k \in Jobs \ {j} : calls'[k] = calls[k]
  BY <1>1, <1>2 DEF CallProvider
<1>4. UNCHANGED <<job, runs>>
  BY DEF CallProvider, dbVars
<1>5. PhasesStay
  BY <1>4 DEF PhasesStay, PhaseOf, Active
<1>6. PermitOf(j) = "granted"
  BY <1>1 DEF PermitOf, HasRun
<1>7. OnlyPermit(j, "spent")
  BY <1>3, <1>4 DEF OnlyPermit, PermitOf
<1>. QED BY <1>5, <1>6, <1>7, AbstractSteps

LEMMA PersistPaid ==
  ASSUME TypeInv, TypeInv', CallBeforeCommit, NEW h \in Handlers, NEW j \in Jobs, j = JobOf(h),
         handler[h].pc = "commit", Owns(h), PersistResult(h), UNCHANGED <<calls, clock>>
  PROVE  PaidStep
<1>1. job'[j].status = "SUCCEEDED" /\ \A k \in Jobs \ {j} : job'[k] = job[k]
  BY RowTypes DEF PersistResult, JobType
<1>2. Active(j)
  BY DEF Owns, Active, ActiveStatuses
<1>3. PhaseOf(j) = "open" /\ OnlyPhase(j, "done")
  BY <1>1, <1>2, PhaseFacts DEF OnlyPhase
<1>4. PermitOf(j) = "spent"
  BY DEF CallBeforeCommit, PaidPCs, PermitOf
<1>5. PermitsStay
  BY PersistQuiet, PermitFacts
<1>. QED BY <1>3, <1>4, <1>5, AbstractSteps

-----------------------------------------------------------------------------
(* Every action is one of them. *)

LEMMA RequestPaid ==
  ASSUME TypeInv, TypeInv', Rows, UserRequest
  PROVE  PaidStep
<1>1. ASSUME NEW j \in Jobs, NEW v \in Versions, Enqueue(j, v) PROVE PaidStep
  <2>1. NoActiveJob
    BY <1>1, RowTypes
    DEF Enqueue, Rows, Drafts, ActiveJobFitsDraft, NoActiveJob, Active, ActiveStatuses
  <2>. QED BY <1>1, <2>1, ConstantFacts, CreatePaid DEF Enqueue
<1>2. ASSUME NEW j \in Jobs, NEW v \in Versions, NEW s \in Stages, RegenerateStage(j, v, s)
      PROVE  PaidStep
  BY <1>2, CreatePaid DEF RegenerateStage
<1>3. ASSUME NEW j \in Jobs, NEW v \in Versions, NEW s \in Stages, ConfirmStage(j, v, s)
      PROVE  PaidStep
  BY <1>3, ConstantFacts, CreatePaid DEF ConfirmStage
<1>4. ASSUME NEW v \in Versions, ConfirmScript(v) PROVE PaidStep
  <2>1. JobsStay
    <3>1. CASE UNCHANGED job
      BY <3>1, UnchangedRows
    <3>2. CASE \E j \in ResultJobs(v) : job' = [job EXCEPT ![j].result = v]
      BY <3>2, RowTypes DEF ResultJobs, JobsStay, SameWork, FinalStays, JobType
    <3>. QED BY <1>4, <3>1, <3>2 DEF ConfirmScript
  <2>. QED BY <1>4, <2>1, UnchangedQuiet, QuietPaid DEF ConfirmScript
<1>5. (\E v \in Versions, s \in Stages : UpdateStage(v, s)) => PaidStep
  BY IdlePaid DEF UpdateStage
<1>. QED BY <1>1, <1>2, <1>3, <1>4, <1>5 DEF UserRequest

LEMMA HandlerPaid ==
  ASSUME TypeInv, TypeInv', Fence, CallBeforeCommit, NEW h \in Handlers, HandlerStep(h)
  PROVE  PaidStep
<1>1. PICK j : j = JobOf(h)
  OBVIOUS
<1>2. handler[h].pc # "idle" => j \in Jobs
  BY <1>1, HandlerFacts
<1>3. LoadJob(h) \/ CheckTrend(h) \/ ProviderAnswers(h) \/ PlanStage(h) \/ Acknowledge(h) => PaidStep
  BY IdlePaid DEF LoadJob, CheckTrend, ProviderAnswers, PlanStage, Acknowledge, dbVars
<1>4. ASSUME ClaimAttempt(h) PROVE PaidStep
  <2>1. CASE Claimable(j, handler[h].retry)
    <3>1. j \in Jobs /\ Active(j)
      BY <1>2, <1>4, <2>1 DEF ClaimAttempt, Claimable, Active, ActiveStatuses
    <3>2. JobsStay
      BY <1>1, <1>4, <2>1, <3>1, RowTypes
      DEF ClaimAttempt, JobType, JobsStay, SameWork, FinalStays, Active, Terminal,
          ActiveStatuses, TerminalStatuses
    <3>. QED BY <1>4, <3>2, UnchangedQuiet, QuietPaid DEF ClaimAttempt
  <2>2. CASE ~Claimable(j, handler[h].retry)
    BY <1>1, <1>4, <2>2, IdlePaid DEF ClaimAttempt
  <2>. QED BY <2>1, <2>2
<1>5. ASSUME StopPrevious(h) PROVE PaidStep
  <2>1. j \in Jobs
    BY <1>2, <1>5 DEF StopPrevious
  <2>2. CASE FailJob(j) /\ Active(j)
    BY <1>5, <2>1, <2>2, FailPaid DEF StopPrevious
  <2>3. CASE UNCHANGED dbVars
    BY <1>5, <2>3, IdlePaid DEF StopPrevious, dbVars
  <2>. QED BY <1>1, <1>5, <2>2, <2>3 DEF StopPrevious
<1>6. ASSUME OpenRun(h) PROVE PaidStep
  <2>1. CASE Owns(h)
    BY <1>1, <1>2, <1>6, <2>1, OpenPaid DEF OpenRun
  <2>2. CASE ~Owns(h)
    BY <1>6, <2>2, IdlePaid DEF OpenRun
  <2>. QED BY <2>1, <2>2
<1>7. CallProvider(h) => PaidStep
  BY <1>1, <1>2, CallPaid DEF CallProvider
<1>8. ASSUME CommitResult(h) PROVE PaidStep
  <2>1. CASE Owns(h) /\ PersistResult(h)
    BY <1>1, <1>2, <1>8, <2>1, PersistPaid DEF CommitResult
  <2>2. CASE UNCHANGED dbVars
    BY <1>8, <2>2, IdlePaid DEF CommitResult, dbVars
  <2>. QED BY <1>8, <2>1, <2>2 DEF CommitResult
<1>9. ASSUME CleanUp(h) PROVE PaidStep
  <2>1. CASE Owns(h)
    <3> DEFINE Closed(q) == IF q.startedAt = handler[h].run /\ q.status = "RUNNING"
                            THEN [q EXCEPT !.status = "FAILED"] ELSE q
    <3>1. runs' = {Closed(q) : q \in runs}
      BY <1>9, <2>1 DEF CleanUp
    <3>2. \A q \in runs : SameRun(q, Closed(q)) /\ SameRun(Closed(q), q)
      BY RowTypes DEF RunType, SameRun
    <3>3. RunsQuiet
      <4> HIDE DEF Closed
      <4>. QED BY <3>1, <3>2 DEF RunsQuiet
    <3>. QED BY <1>9, <3>3, UnchangedRows, QuietPaid DEF CleanUp
  <2>2. CASE ~Owns(h)
    BY <1>9, <2>2, IdlePaid DEF CleanUp
  <2>. QED BY <2>1, <2>2
<1>10. ASSUME Settle(h) PROVE PaidStep
  <2>1. j \in Jobs
    BY <1>2, <1>10 DEF Settle
  <2>2. CASE FailJob(j) /\ Active(j)
    BY <1>10, <2>1, <2>2, FailPaid DEF Settle
  <2>3. CASE UNCHANGED dbVars
    BY <1>10, <2>3, IdlePaid DEF Settle, dbVars
  <2>4. CASE /\ Active(j) /\ UNCHANGED <<project, version, runs>>
             /\ job' = [job EXCEPT ![j].status = "RETRYING", ![j].completedAt = 0, ![j].seq = @ + 1]
    <3>1. JobsStay
      BY <2>1, <2>4, RowTypes
      DEF JobType, JobsStay, SameWork, FinalStays, Active, Terminal, ActiveStatuses, TerminalStatuses
    <3>. QED BY <1>10, <2>4, <3>1, UnchangedQuiet, QuietPaid DEF Settle
  <2>. QED BY <1>1, <1>10, <2>2, <2>3, <2>4 DEF Settle
<1>. QED BY <1>3, <1>4, <1>5, <1>6, <1>7, <1>8, <1>9, <1>10 DEF HandlerStep

LEMMA ReaderPaid ==
  ASSUME TypeInv, TypeInv', Rows, NEW r \in Readers, ReaderStep(r)
  PROVE  PaidStep
<1>1. \A p \in {"fail", "mark", "repair"} : reader[r].pc = p => reader[r].job \in Jobs
  BY DEF TypeInv, TypeOK
<1>2. \A p \in {"fail", "mark"} : reader[r].pc = p /\ StillAsRead(r) => Active(reader[r].job)
  BY DEF Rows, ReadersSawActive, ReaderStatus, StillAsRead, Active
<1>3. ReadQueueRow(r) \/ JudgeGrace(r) => PaidStep
  BY IdlePaid DEF ReadQueueRow, JudgeGrace, dbVars
<1>4. FailUndelivered(r) => PaidStep
  BY <1>1, <1>2, IdlePaid, FailPaid DEF FailUndelivered, dbVars
<1>5. ASSUME MarkRetrying(r) PROVE PaidStep
  <2>1. CASE StillAsRead(r)
    <3>1. reader[r].job \in Jobs /\ Active(reader[r].job)
      BY <1>1, <1>2, <1>5, <2>1 DEF MarkRetrying
    <3>2. JobsStay
      BY <1>5, <2>1, <3>1, RowTypes
      DEF MarkRetrying, JobType, JobsStay, SameWork, FinalStays, Active, Terminal,
          ActiveStatuses, TerminalStatuses
    <3>. QED BY <1>5, <3>2, UnchangedQuiet, QuietPaid DEF MarkRetrying
  <2>2. CASE ~StillAsRead(r)
    BY <1>5, <2>2, IdlePaid DEF MarkRetrying
  <2>. QED BY <2>1, <2>2
<1>6. ASSUME RepairFailed(r) PROVE PaidStep
  <2>1. RunsQuiet
    BY <1>1, <1>6, RowTypes, RunsClosedQuiet, UnchangedQuiet DEF RepairFailed
  <2>. QED BY <1>6, <2>1, UnchangedRows, QuietPaid DEF RepairFailed
<1>. QED BY <1>3, <1>4, <1>5, <1>6 DEF ReaderStep

LEMMA StepPaid == PaidInv /\ TypeInv' /\ [Next]_vars => PaidStep
<1> SUFFICES ASSUME TypeInv, TypeInv', Fence, Rows, CallBeforeCommit, [Next]_vars PROVE PaidStep
  BY DEF PaidInv
<1>1. ASSUME (\E h \in Handlers, j \in Jobs : Deliver(h, j)) \/ (\E h \in Handlers : StepFails(h))
        \/ (\E r \in Readers, j \in Jobs : ReadJob(r, j)) \/ (\E j \in Jobs : LoseDelivery(j))
        \/ Crash \/ ReviewTrend \/ UNCHANGED vars
      PROVE  PaidStep
  BY <1>1, IdlePaid DEF Deliver, StepFails, ReadJob, LoseDelivery, Crash, ReviewTrend, vars, dbVars
<1>. QED BY <1>1, RequestPaid, HandlerPaid, ReaderPaid DEF Next

LEMMA InitPaid == Init => CallBeforeCommit /\ Paid!Init
<1>1. Init => CallBeforeCommit
  BY DEF Init, IdleHandler, HandlerAt, CallBeforeCommit, PaidPCs
<1>2. ASSUME Init, NEW j \in Jobs PROVE PhaseOf(j) = "absent" /\ PermitOf(j) = "none"
  <2>1. job[j].status = "ABSENT" /\ calls[j] = 0 /\ runs = {} /\ ~Active(j)
    BY <1>2 DEF Init, NoJob, Active, ActiveStatuses
  <2>. QED BY <2>1 DEF PhaseOf, PermitOf
<1>3. Init => Paid!Init
  BY <1>2 DEF Paid!Init
<1>. QED BY <1>1, <1>3

\* Deliveries, retries, crashes and reconciling readers, of any number of
\* handlers, implement the protocol of PaidStage: one open job, one permit,
\* one payment, and no success without it (process, executeStage).
THEOREM Refinement == Spec => ImplementsPaidStage
<1>1. Init => PaidInv /\ Paid!Init
  BY InitType, InitFence, InitRows, InitPaid DEF PaidInv
<1>2. PaidInv /\ [Next]_vars => PaidInv'
  BY StepType, StepFence, StepRows, StepCalls DEF PaidInv
<1>3. PaidInv /\ [Next]_vars => PaidStep
  BY StepType, StepPaid DEF PaidInv
<1>4. PaidStep => [Paid!Next]_<<[j \in Jobs |-> PhaseOf(j)], [j \in Jobs |-> PermitOf(j)]>>
  BY DEF PaidStep, Stutter
<1>. QED BY <1>1, <1>2, <1>3, <1>4, PTL DEF Spec, ImplementsPaidStage, Paid!Spec

=============================================================================
