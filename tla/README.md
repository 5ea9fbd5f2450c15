# IDEA_to_Script — TLA+ models and proofs

IDEA_to_Script turns an idea into a screenplay in six stages (premise, characters, locations,
beats, scenes, script). A writer reviews every stage; each stage costs a paid call to a model
provider. The API (`apps/api`, NestJS on PostgreSQL) queues one *generation job* per stage through
pg-boss, a worker in the same process runs it, and the browser follows it over server-sent events.

The hard part is not any single function. It is that jobs are redelivered, that awaits of several
handlers and requests interleave, that a commit can succeed without its answer arriving, and that a
paid call must not happen twice nor its result be lost or overwritten. That part came first; around
it stand models of what lets a generation begin (tickets, quotas, accounts), of what it asks of the
provider, of how the browser follows it, and of the trends that feed it.

## 1. Inventory

| Component (source) | State | Operations | Interacts with | Hard behaviour | What makes it correct |
|---|---|---|---|---|---|
| Stage workflow (`generation.types.ts`, `generation.service.ts`) | position of a draft: `currentStage`, `confirmedStage` | `nextStage`, `assertStageCanRun`, guards of edit, confirm, regenerate | jobs | sequences of legal requests | a queued job always fits its draft |
| Generation queue (`generation-queue.service.ts`, pg-boss) | queue rows, retry counts | enqueue in the caller's transaction, deliver, complete, fail, expire | jobs, worker | redelivery while the first handler still runs | a row ends; a lost delivery comes again |
| Generation jobs (`generation-jobs.service.ts`, `generation.service.ts`) | Project, GenerationVersion, GenerationJob, GenerationRun rows | `enqueue`, `regenerateStage`, `confirmStage`, `updateStage`, `activateDraft`, `process`, `executeStage`, reconciliation | queue, provider, database, slots, trends | interleaving handlers, lost acknowledgements, crashes, stale snapshots | one paid call per job, final outcomes, rows consistent with each other |
| Event streams (`generation-jobs.service.ts`, SSE part) | streams with cursors, one timer, one poll in progress | subscribe, poll, deliver, close | jobs, browsers | clients come and go during a poll | every event once and in order; never a lost wake-up |
| Transaction gate (`abuse-protection.service.ts`) | slot counter, waiting calls | acquire, release with hand-over, timeout, retry | requests that create, queue, confirm or regenerate | hand-over against timeout; a regeneration queues while it holds a slot | no leaked slot, no forgotten waiter, every request answered |
| Challenges, tickets, quotas (`abuse-protection.service.ts`) | maps in memory, quota rows | challenge, authorize, consume, reserve | gate, jobs, projects | check before an await, partial failure, a transaction inside a transaction, restart | counters equal the reservations that committed; a ticket is counted once |
| Projects and retention (`projects.service.ts`, `project-retention.service.ts`) | Project rows and what hangs on them | create, delete, cleanup | jobs, streams | deletion against a queued job | no active job loses its project |
| Accounts (`auth.service.ts`, `auth-throttle.service.ts`, `password.service.ts`, `reset-user-password.cli.ts`) | users, sessions, old visitors, throttle rows, hashing slots | register, login, logout, reset, cleanup | all requests | login against reset, registration against cleanup, slot hand-over | no usable session of an old password |
| LLM client and agent (`llm.service.ts`, `premise-agent.service.ts`, `apps/agent`) | step, budgets, tool calls, draft in memory | request with fallback; steps, tools, retry, submit | provider, run rows | a stream that fails after a submission; a provider that never answers | an accepted draft ends the calls; the recorded cost is the paid one |
| Trends (`trends.service.ts`, `trends/sources`) | stored parts, memory of each source, a refresh in flight, the sources' own limits | refresh, list, cleanup, fetch | jobs (risk of the linked topic) | readers that write back stale memory, restart, waits asked for by providers | nothing is asked before its time |
| Web client (`useGenerationJob.ts`, `App.tsx`) | watch, stream, timer, poll; page, session, requests under way | watch, poll, settle; navigate, sign in, ask for a job | event streams, jobs | late answers of pages that are gone | one transport; the page generates for a cause and not for ever |

Prompts, schemas, rendering, the mock generator, presentation, deployment and backup scripts keep
no state that these properties depend on. `PROJECT.json` lists every component with its status, and
under `hazards` the places where the code is hard to test.

## 2. Modules

```
StageWorkflow   GenerationQueue
        \          /
       GenerationJobs            PaidStage (abstract)
             |                        ^
      GenerationSafety ---implements--+
        |            \
GenerationJobsProofs  MCGenerationJobs

TransactionGate    EventStreams             ProjectAccess            AccountSessions
  GateProofs         MC, EventStreamsProofs   MC, ProjectAccessProofs  MC, AccountSessionsProofs

ProviderCalls             WebClient            TrendRefresh      SourceFetch
  MC, ProviderCallsProofs   WebClientProofs          | \             |
                                                    MC  TrendProofs--+
```

The component modules meet where one takes what the other shows: the jobs of `EventStreams`,
`ProjectAccess` and `WebClient` are rows that begin, end or are given up as in `GenerationJobs`; the
paid call of `GenerationJobs` is one execution of `ProviderCalls`; a fetch of `TrendRefresh` is one of
`SourceFetch`; the assumption of `WebClient` that a job ends is `ActiveJobEnds`, and of `TrendRefresh`
that a fetch ends is `FetchEnds`.

**StageWorkflow** — a stage is its position 1..`NumStages`; the guards on a draft's position.

**GenerationQueue** — the queue rows of one project. pg-boss is a library: its transitions come from
the options the service passes (`policy: 'singleton'` with the project as key, `retryLimit`,
heartbeat, expiry) and from what the job service relies on. Two facts matter: completing a row
carries no delivery token, so a late handler may complete the row of a newer delivery; and a row
whose heartbeat ran out is delivered again while its old handler may still run.

**GenerationJobs** — one project. Variables are the rows (`project`, `version`, `job`, `runs`), the
queue, where every execution of `process()` stands (`handler`), where every reconciling request
stands with the snapshot it read (`reader`), the trend's risk, a logical clock, and two counters:
`calls` (history) and `faults` (a bound). A database transaction is one step; between two awaits
anything may happen. The correspondence, in program order:

| `handler[h].pc` | Code | Action |
|---|---|---|
| `load` | `process`: find the job, take a slot | `LoadJob` |
| `claim` | `claimAttempt` | `ClaimAttempt` |
| `trend` | `assertTrendGenerationAllowed` | `CheckTrend` |
| `stop` | `stopPreviouslyAttemptedJob` | `StopPrevious` |
| `plan` | `executeStage`: read draft, `assertStageCanRun` | `PlanStage` |
| `boundary` | `executeStage`: transaction that creates the Run | `OpenRun` |
| `generate`, `provider` | `generateStage`: the paid request and its answer | `CallProvider`, `ProviderAnswers` |
| `commit` | `executeStage`: result transaction with `onCompleted` | `CommitResult` |
| `cleanup` | `executeStage`: catch | `CleanUp` |
| `settle` | `process`: catch | `Settle` |
| `ack`, `nack` | the handler returned or threw | `Acknowledge` |

Readers (`get`, `getActiveForProject`, the SSE poll) take a snapshot (`ReadJob`), look at the queue
row (`ReadQueueRow`), judge the grace period (`JudgeGrace`) and write with a compare-and-set on
status, attempt and event number (`FailUndelivered`, `MarkRetrying`, `RepairFailed`). The writer's
requests are `Enqueue`, `RegenerateStage`, `ConfirmStage`, `ConfirmScript` and `UpdateStage`.
Failures: a step without effect (`StepFails`), a commit whose answer is lost (inside the action),
a lost heartbeat (`LoseDelivery`), the death of the process (`Crash`).

**GenerationSafety** — the properties, the refinement mapping and the fairness.

**PaidStage** — the abstract promise: jobs open one at a time, one permit to pay per job, granted
only while the job is open, done only if paid. The mapping takes the Run row as the permit and the
call as its spending. A granted permit may still be spent after the job was given up, because a
request that has left cannot be recalled; this is exactly what the code does.

**TransactionGate** — `runSerializableTransaction`. A promise that was resolved and whose
continuation has not run yet is the place `granted`; a newcomer may run in between. The release
hands the slot to the first waiter without touching the counter. A request makes one call (`Outer`);
a regeneration that carries a ticket makes a second one (`Inner`, by `Nest`) from the callback of the
first and keeps its slot until the second has ended. `MayCommit`, `MayConflict` and `MayFail` say what
the inner call leaves open to the transaction around it; the next attempt of the outer call makes
its inner call anew (`Left`). The worker's transaction that stores a result
(`generation.service.ts:249-292`) does not go through the gate and is no call.

**EventStreams** — the SSE part of the job service: any number of streams, one timer, one poll. An
event is its sequence number, a job row is its status and last event. Awaits of a poll: the jobs,
the reconciliation of each job (in any order), the events. `stream.after` is where the client
asked to begin; `got` is history.

**ProjectAccess** — `AbuseProtectionService` without the gate, `ProjectsService`, and the cleanup of
projects. `window`, `used` and `tickets` are its maps; an entry of the last two is a record of its key, its
expiry and its place in the order of insertion, since a full map drops its first entry (`Newest`) and
setting a key again keeps its place (`Put`). The maps
die with the process (`Restart`), while `project` and `quota` are rows. A request is two steps where the
code awaits: `BeginAuthorize` looks the challenge up, `FinishAuthorize` marks it used and issues the
ticket; `ConsumeTicket` removes the ticket, for `enqueue` and for `regenerateStage`. For the first,
`Reserve` is the serializable transaction that raises the four counters and queues the job, or refuses as
a whole (`RequestFails`). For the second they are two: `OpenReservation` raises the counters and leaves
their transaction open, `Regenerate` commits the job in the transaction of the callback, and only then
`CommitReservation` commits the counters. In between the outer transaction may run into its time limit
(`ReservationExpires`), conflict and begin again, callback included (`RetryReservation`), fail, or die with
the process; the job stays. The rows an open reservation has raised are locked (`OpenReservations`).
`SelectExpired` and
`DeleteSelected` are the two halves of one DELETE at READ COMMITTED: the second evaluates its condition
again on the rows it locks. `QueueFollowing` is a confirmation, which takes no ticket.

**AccountSessions** — a browser's request goes through `Begin` (throttle), `FindUser`/`FindName`, the
hashing pool (`Enter`, `WaitTimesOut`, `Leave`), `Upgrade`/`Rehashed` for outdated hashes, and the
transaction: `ClaimUser` compares the hash and locks the row, `CommitLogin` creates the session;
`ResolveLegacyVisitor` and `CreateUser` for a registration. The reset tool is a process of its own with a
transaction of two steps (`ResetPassword`, `RevokeSessions`). `lock` is the row lock a statement of
another transaction waits for. The daily cleanup drops ended sessions and orphaned visitors
(`SelectOrphans`, `DeleteOrphans`).

**ProviderCalls** — one execution of a stage as the provider sees it. An agent (`AgentRuntime.run`)
begins a call within its budgets (`BeginCall`, `ContextTooLarge`), runs the tool calls of the answer
(`CallTool`), ends the step (`EndStep`, with loop detection), fails and is retried unless the failed
stream changed the run (`CallFails`, `Replayable`, `DelayEnds`), or is aborted by its timer
(`TimesOut`). A JSON request (`LlmService.generateJson`) asks with the response format and, when that
is rejected, once without (`RejectsFormat`). `SaveResult`, `ResultUnusable`, `SaveFailure` write the
row of the run as `executeStage` and the repair do.

**TrendRefresh** — one refresh in flight: `Refreshed`/`TimerFires` start it, `CheckSource` asks the
database what is due (`IsDue`), `BeginSourceAttempt` fetches one source after the other in the order of
the service's list (`IsFirst`), `FetchDelivers`, `FetchFails`, `BeginStore`, `Commit` and `StoreFails` end in the memory of the source (`CompleteStored`,
`CompleteEmpty`, `DeferSourceRetry`). A reader (`List`, `RefreshManual`) takes the memory of a source,
awaits the database (`ReadSnapshots`) and writes the memory back (`WriteStatus`), which may overwrite
what a refresh wrote meanwhile. A restart is a behaviour that begins with an empty memory over rows
that earlier processes stored; `Init` has them all.

**SourceFetch** — the adapters of `trends/sources` and `fetchJson`. A fetch goes from board to board
(`OpenBoard`), waits where the adapter does (`Send`), and a request ends by any answer (`RequestEnds`,
one operator per adapter). `window` is X's rate-limit window, `pace` and `hold` Qianfan's interval and
`nextRequestNotBeforeAt`, `wait` the delay of `fetchJson`; all are countdowns. `closed`, `since` and
`told` are what the provider said, kept independently of what the adapter remembers.

**WebClient** — `useGenerationJob` (`Watch`, `Prepare`, `StopGenerating`, `StartPolling`, `Settle`) and
the state of `App.tsx` around it: routes, sign-in with its return, loading and creating a project, and
requests for a job, whose answers come whatever page is shown by then (`AskAnswered`, `AskFails`). The
hook's token is the `live` of a poll: `stopTransport` makes the polls of earlier watches stale. The
server is a table of jobs.

Operators called *Variant …* stand before the definition they vary. They describe plausible
mistakes, are used by no specification, and serve to show that each property can fail.

## 3. Runs

| Run | Bounds | Question |
|---|---|---|
| `faults` | 1 stage, 2 jobs, 1 retry, 2 handlers, 1 reader, trend of changing risk, 2 failures | Do the rows stay consistent and outcomes final with overlapping handlers, readers and any two failures? |
| `redelivery` | 1 job, 2 retries, 2 handlers, 2 slots, 1 reader, 3 failures, fairness | Is a job paid at most once; does it implement `PaidStage`; does it end? |
| `lifecycle` | 2 stages, 5 jobs, 3 versions, 1 regeneration, trend of changing risk, no failures | Do the requests keep one active job that fits its draft, the credit and the regeneration limit? |
| `overlap` | 2 jobs, 2 handlers, 1 failure | Expected violation, see section 6. |
| `gate` | 3 requests, 2 of them regenerations, 2 slots, 2 places, 2 attempts, fairness; deadlock checked | Are slots and waiters accounted for through hand-over, timeout, retry and nested calls, in order, and does every request get an answer? |
| `streams` | 2 streams, 2 jobs, 2 events, batches of 1, fairness | Every event once and in order; complete only after the last; is the wake-up never lost; does the stream of an ended job close? |
| `projects` | 2 visitors, projects, challenges and requests; limits of 1 and 2; 2 ticks of one day and the start of the next; 2 attempts; 1 restart | Do the counters agree with the reservations that committed; is a ticket counted once, and when may it queue two jobs; is a used solution remembered; is an active job's project safe? |
| `accounts` | 2 browsers, 2 names, 2 passwords, 1 old visitor, 1 hashing slot with 1 place, 2 sessions, 1 reset | Does a usable session fit the password; does a claimed visitor stay; does the pool count? |
| `agent` | 1 agent of 2 steps, 2 attempts, 3 calls, 3 tool calls; 2 JSON requests; fairness | Does an accepted draft end the calls; is the recorded cost the paid one; do the budgets hold; does every execution end? |
| `trends` | 2 sources (one of 2 parts), TTL 2, back-off 1 up to 2, 1 reader, 4 moments | Is a source asked again before its time, by whichever path? |
| `client` | 2 projects, 2 jobs, 1 pending request for a job altogether, fairness | Is a job followed on one way; does the page generate for a cause, and not for ever? |
| `sources` | every kind of source, 2 boards, 2 batches, interval 2, waits 0, 2 and 4 against a cap of 3, fairness; deadlock checked | Are X's window, Qianfan's interval and the wait before a second attempt kept; does every fetch end? |

Why these bounds are enough. *Jobs:* every conflict in the code is between an attempt and *one* older
actor (the previous handler, the previous job of the same stage, one stale reader), so two jobs, two
handlers and one reader meet all of them, and two slots let the handlers overlap; two retries let a job
that its second delivery stopped come a third time. Two failures combine (a lost heartbeat, then a lost
acknowledgement of the cleanup); three were used where one job suffices. Two stages distinguish the
guards of first, middle and last stage (the first is never last); three versions let a published
version be superseded, also one captured from content older than versions. *Gate:* three requests make up
to five calls for two slots and two places: some call finds the queue full, and both slots can be held by
regenerations that queue. With one slot no regeneration ends otherwise than by that wait's timer, which
is a theorem (section 6); the other theorems hold for any numbers too.
*Streams:* two jobs in batches of one let a client come, go and wait in a different batch than the one
being read; the refusal at `StreamLimit` does not occur with two streams. *Projects:* the second
reservation of a day is refused (the limit of the address lies behind that of the day and is not the one
that refuses), lives and days differ, and two requests overlap in each pair of awaits; the map
of used solutions holds one, so that a second honoured solution drops the first. Two tickets let a first
generation be followed by a regeneration; a reservation that waits for the rows of a regeneration about to
commit needs a third ticket, and only the theorem `QuotasAreKept` covers it.
*Accounts:* one browser hashes while the other waits; the third counter of the throttle (`all`) is not
exceeded. *Agent:* each budget can be the one that ends a run; the loop detector needs three equal tool
calls. *Trends:* two sources let one fail while the other stores; four moments let a snapshot expire,
and let a source be asked again after the doubled rest of a second failure in a row. *Client:* one
pending request for a job altogether, whichever page sent it, one live poll and any number of polls left
behind; two projects give a late answer a page to hit that is not its own. Two requests at once exceed
the time of a run; the theorems hold for any number. *Sources:*
waits below, at and above what a retry agrees to; two boards make the second meet the limits of the
first.

`MaxJobs`, `MaxVersions`, `MaxFaults`, `MaxEvents`, `MaxTickets`, `MaxClock`, `MaxRestarts`,
`MaxSessions`, `MaxResets`, `CallsPerStep` and `MaxTime` are bounds of the models, not of the code.
Symmetry is used in runs without liveness only. `CHECK_DEADLOCK FALSE` stands where the bounded system
really stops: all jobs created and ended, all streams closed, time at its bound.

The type invariants stand in no run of their own: they are proved for every module.

### Fairness

*Jobs.* pg-boss keeps polling (delivery is weakly fair) and its maintenance expires rows nobody
works on (weakly fair; expiring a row under work is a failure and not fair). Every await of a handler
ends: provider calls end by `CallsEnd`, statements have timeouts. A job that the queue gave up is ended
only by a client that reads it; the property assumes a client that keeps reading (strongly fair, because
the job may move on between two reads) and that the grace period ends. Without such a client the job
stays active; that is the code's behaviour, and why the assumption is stated.
*Gate.* Continuations and back-off timers run, transactions end, and the timers of nested calls fire: when
regenerations hold every slot while they queue for one more, nothing else ends it (without this assumption
`RequestEnds` fails). Of the timers of other waiters nothing is assumed. *Streams.* Timers fire and queries end. *Provider.* The provider may never answer: weakly fair
are only the timers (`TimesOut`, `RequestTimesOut`), the rejection of a request that was aborted, and what
the event loop runs. *Client.* An open stream of an ended job says so, timers fire, requests for a job
are answered or fail, jobs end, and of polls sent again and again some are answered (strongly fair:
each may be lost). *Sources.* Time passes, the process takes its steps, and a request ends by its
answer or by `AbortSignal.timeout`. `ProjectAccess`, `AccountSessions` and `TrendRefresh` state safety
only: nothing in them has to happen.

## 4. Proofs

Checked with TLAPS for every value of the constants. Assumptions are the named `ASSUME`s of the modules:
constants are naturals or Booleans; the pipeline has a stage; slots, attempts, limits, batches and the
length of a day are at least one; a source stores at least one part, some source is enabled (with none
nothing is ever asked), and observations are kept at least as long as they are fresh; `None` is no job. Three
are facts of the code the proofs need: a used solution is remembered at least as long as its challenge lives
(`ChallengeLife <= UsedLife`: five minutes against ten, `abuse-protection.service.ts:193` and `:231`); a
process has finitely many streams; and `NoOne` and the reset tool are none of the browsers, names and hashes.

**Generation jobs** (`GenerationJobsProofs`). Four invariants, each proved with those before it: `TypeInv`, `Fence`,
`Rows`, `Records`. Every safety invariant
of `GenerationSafety` that holds is a theorem; `NoOverlap` does not hold (section 6).

- `TypeCorrect`. `TypeOK` is not inductive: a delivery may raise the retry count
  only because a row in state `retry` is below the limit (`RetryBelowLimit`), and a run gets a draft and a
  stage only because whoever works on a job works on one that exists (`RowsExist`). `TypeInv` adds the two.
- `PaidOnce`: `AtMostOnePaidCall`. The argument is the one the code relies on without
  stating it. (1) A claimed attempt has one handler and is never newer than the job's
  (`OneHandlerPerAttempt`): every delivery has a retry count of its own and the claim compares it. (2) A
  handler between its look for earlier runs and its own run, whose attempt is still the job's, finds that no
  run has appeared meanwhile (`NoRunBeforeBoundary`). (3) Runs of a job lie in its time window
  (`RunsInWindow`), so that the query does not overlook them. (4) A call needs a run, and a run is opened
  once (`RunBeforeCall`). Their conjunction is `Fence`.
- The invariant `Rows` says that the four kinds of rows agree. Every action is of
  one of five kinds (it begins no job, ends none and opens no run; it creates a job; it makes one FAILED;
  it persists a result; it opens a run), with one lemma per kind that `Rows` survives it. Requests create
  a job only when none is active (`Drafts`; `enqueue` looks at the staging draft only, which suffices
  because an active job has one: `ActiveJobFitsDraft` is needed for `AtMostOneActiveJob` and conversely). A
  job has one run, named by its time, and its handler knows it (`RunsKnown`), so the commit completes
  exactly that run. Runs of others lie before a job was queued or after it ended (`RunsFitTimes`), so the
  search by version, stage and time is exact. Readers compare a snapshot that was active
  (`ReadersSawActive`), so they never overwrite an outcome. Theorems: `OneActiveJob`, `JobsFitDrafts`,
  `NoProjectLeftGenerating`, `NoRunLeftOpen`, `SuccessHasResult`, `WindowsAreExact` and, for the action
  property `TerminalIsFinal`, `OutcomesAreFinal`. No unique index is assumed.
- `Records` adds the drafts and the results. There is one staging draft, and the project
  generates it or shows the stage it has reached (`OneStaging`, `ShowsDraft`); for `executeStage`'s catch,
  which writes back a stage read before the call, this needs that whoever still owns its attempt read the
  stage where the draft stands (`PrevKnown`: another claim would have raised the attempt, and nobody else
  moves a draft under an active job). The active job is the newest (`ActiveIsNewest`), so the content
  it stores is the latest. A staging draft at the last stage has a SUCCEEDED job with the latest end
  (`LastResultKnown`, carried as an invariant), so `confirmStage` always finds one to credit.
  That a capture takes two fresh versions needs that rows are allocated in order (`InOrder`).
  For `RepeatedResultsBounded`, `Bought` bounds the results by the distinct stages obtained plus
  `regens`, with one to spare while a job runs a stage again. Theorems:
  `IdleProjectShowsDraft`, `ContentIsLatest`, `PublishedIsCredited`, `RepetitionIsPaid`.
- `Refinement`: `Spec => ImplementsPaidStage`. Initial states map to initial states, and
  each step maps to a step of `PaidStage` or a stutter: creating a job is `Submit` (none is open, by
  `Rows`), the Run row `Grant` (the job has none, by `Fence`), the request `Pay`, the commit `Finish`
  (whoever commits has called: `CallBeforeCommit`), failing a job `GiveUp`.

**Transaction gate.** `GateKeeps`, `NobodyForgotten`, `GateIsFair` (the action property `NoOvertaking`).
The first invariants are inductive with `WaitersAreWaiting` and `AttemptsLeft` (`CountInv`), and with
`NestedInside`: an inner call exists only while the call around it holds its slot, which is why a release may
forget it. Lemmas state what `Append`, `Tail` and `RemoveAt` keep of a queue without duplicates and how a
release changes the holders. `OneSlotAdmitsNone` (`OneSlotRefusesRegenerations`) by `NeverInside`: with one
slot its only holder is the outer call, so the inner call never passes beyond the queue, and the outer one
commits only after it.

**Event streams.** `StreamsAreWoken`, `EventsArriveInOrder`, `CompleteStreamsHaveAll`, `TypeCorrect`.
`OneWakeUp` is inductive with `TypeOK`: every step that opens or closes a stream or ends a poll looks at the
timer in the same step. For the order, `Delivered` says that a client has got exactly the
events between where it began and its cursor; a delivery appends the events from the cursor on, because
the query begins after the *lowest* cursor of the job's streams, which is not above this one. `SnapshotHolds`
says that what a poll has read of an ended job, and of its events after that, stays true until the job is deleted:
the job is read before its events, so a completed stream has all of them.

**Project access.** `QuotasAreKept`: the counters count the reservations that committed, by day and by
visitor. `CountersFit` is that equation, `StartsFit` ties reservations to jobs (what is counted has queued a
job; a job not counted is a regeneration's), and `OpenFits` says that the one reservation whose rows are
locked still fits its limits when it commits, since nobody raises them meanwhile. `TicketsAreSpentOnce` needs
`TicketsAreApart`: a ticket is in the map, with one request, or spent, never in two of these, and the
jobs it queued were queued in attempts before the one its request is in. It does not say that a ticket
queues one job, because that is false for a regeneration that is retried (section 6); it bounds the jobs by the
attempts, one each, and leaves no exception for first generations. `ActiveProjectsStay` needs `SelectedAreIdle`: what the
cleanup has selected is expired and idle, and stays so, because nobody sees an expired project any more and
so nobody queues a job for it; and a request that already holds a ticket looks at the project again.
`SolutionsAreRemembered`: the map is ordered by
place and by the life of the challenges alike (`UsedMap`), and a challenge was issued before it was
honoured (`IssuedLately`), so the entry a full map drops is one that runs out first. The proof showed that the
property checked before was weaker than what holds: it now says that a forgotten solution means a map full of
entries that all outlive its challenge.

**Accounts.** `PoolIsExact` from `PoolInv`: the queue has no request twice, and hand-over and timeout take a
request out of the queue in the step that changes its state. `SessionsFitPasswords` from `RowsHeld` and
`SessionsInv`: between the comparison of the hash and the new session the login holds the row's lock, and so
does the reset between the new hash and the revocation; without either lock the property fails.
`VisitorsStay`: the reference from a user keeps its visitor, whatever the cleanup had selected.

**Provider calls.** `ProviderTypeCorrect`, `DraftEndsCalls`, `StaysWithinBudget`, `RecordsPaidCost`. An
accepted draft leaves the agent in an answer whose failure is final, because `before < mutating` from then
on (`DraftOK`); the calls of a step are those of its attempts begun (`BudgetOK`, an inequality with
a product of parameters); what was asked is what the runtime counted, until the row is closed (`AgentOK`,
`LlmOK`).

**Web client.** `ClientTypeCorrect`, `FollowsOneWay`, `GeneratesForACause`. `HookOK`: a stream excludes
timer and live polls, a timer excludes live polls, of live polls there is one.

**Trends** (`TrendProofs`). `RefreshTypeCorrect`, and the two action properties of the refresh.
`SnapshotsStayFresh` (`StoredSnapshotObeysTtl`) by `ChosenAreStale`: a source is asked some time after the
database said it was due, and is still due then, because only this refresh stores, and only once nothing
is left to ask; time and cleanup make a source no fresher. `FailuresRest` (`FailedSourceBacksOff`)
by `RetriesKept`: a source that failed keeps a retry time that is not below the end of its rest. A refresh
drops that time only when it has passed, and the attempt writes its own over one that was dropped; a
refresh that dies between the two leaves a source whose rest is over. Of the adapters
`FetchTypeCorrect` and `RequestsWait` (the action property `WaitsAsTold`) by `LimitsKeepUp`: what the
source remembers never runs out before what it was told. That covers X's window, Qianfan's interval, and a
second attempt for the same board, whose wait counts up to the cap; it says nothing of the first request for
the next board or tab, which the code sends without regard to a last 429.

No safety property that holds is left to the model checker alone. Out of the prover's reach: liveness
under fairness and ENABLED (`ActiveJobEnds`, `RequestEnds`, `StreamCloses`, `CallsEnd`, `GeneratingEnds`,
`FetchEnds`), and induction over data.

## 5. What the models leave out

- One API process runs all handlers and streams (the generation slots and streams live in its memory).
  A crash ends all of them at once.
- A database transaction is atomic where it is serializable. The repair of a failed job and the
  reconciliation run at READ COMMITTED, where a subquery could miss a job queued at that moment; in
  `ProjectAccess` and `AccountSessions` statements at READ COMMITTED are steps of their own.
- The unique indexes (one active job, one staging draft per project) are left out on purpose:
  `OneActiveJob` and `OneStaging` show that the requests do not need them.
- Timestamps of jobs are a logical clock: two events in the same millisecond are ordered. A run and the
  failure of its job may carry equal values, as in the code's `lte`.
- A reader whose database call fails has no effect and is a stuttering step.
- Expiry and deletion of the project occur in `ProjectAccess`, not in `GenerationJobs`; a row deleted from
  the queue (`!queued`, after seven days) is treated like a row given up, which it is by then.
- `EventStreams`: the per-visitor limit is merged into one `StreamLimit`; a client does not claim to
  have seen events that do not exist; heartbeats and shutdown are left out. Reconciliation is the
  outcome `GenerationJobs` shows it to have: nothing, a fresher snapshot, or the end of the job.
- `ProjectAccess`: visitors share one address; the days lie in one month; the local mode without project
  limits, and an enqueue transaction that straddles the project's expiry, are left out. The wait for a
  slot of the gate is in `TransactionGate` only: here a reservation may take its steps at any time.
- `AccountSessions`: one throttle window; its three statements are one step; session renewal, the visitor
  cookie's signature and CSRF checks are left out.
- `ProviderCalls`: tokens and context size may hit their limit at any check. The AI SDK (external) turns
  an error of a tool into a part of the answer. `PremiseAgentService` passes no abort signal, so only the
  runtime's own timer aborts. A failed agent records no cost, which the repository's audit knows; the
  invariant says so.
- `TrendRefresh`: scores, policy and brief texts, the manual refresh's cooldown and the placeholders of
  YouTube. `SourceFetch`: one source per behaviour, no restart (X's window lives in memory, a restart
  forgets it), attempts of at most two, so the back-off is one constant; the DNS and address check of the
  feed is one refusal.
- `WebClient`: the sample page, saving of stages and scenes, removal of a project, a stream that hangs
  without breaking.
- Texts, telemetry and prompts.

### Not modelled

Prompts, schemas, rendering and the mock generator are pure functions of text. HTTP access rules and
health checks are stateless. The React components render and hold typed text; their requests go through
`App.tsx`. The backup and deployment scripts work on files and containers outside the application; the
order of the two renames in `scripts/backup-postgres.sh` is theirs alone.

## 6. Finding and observations

`overlap`: after a heartbeat is lost during the provider call, the redelivery ends the job, the writer
regenerates the stage, and a second job of the project calls the provider while the first call is
still in flight. `docs/P1-GENERATION-QUEUE-THROUGHPUT.md:53` says two jobs of a project cannot execute at
the same time. Rows stay correct (`faults`, and the theorems about `Rows`), because the late answer is dropped by the
attempt fence.

Seen while modelling, without a run of their own; the models contain the behaviour:

- **Regenerating with a ticket nests two serializable transactions.** `regenerateStage` hands
  `consumeGenerationTicket` an operation that is itself a `runSerializableTransaction`
  (`generation-jobs.service.ts:151` and `:194-195`), and the operation runs inside the one of
  `reserveRealGeneration` (`abuse-protection.service.ts:338-383`), or of `:281` for the demo provider. It ignores the transaction it is given.
  - The request holds a slot while it queues for another. With one slot, the default of
    `.env.example:46` and `docker-compose.prod.yml:71`, every such regeneration ends when the timer of
    `abuse-protection.service.ts:423` rejects it (theorem `OneSlotAdmitsNone`), and blocks the gate
    until then; with more slots, as many regenerations at once do the same. The slot does not cover one `$transaction` attempt only, as
    `docs/P1-CONCURRENT-TRANSACTION-RETRY.md:48` says (「槽位只覆盖一次 `$transaction` 尝试」).
  - With more slots the job commits before the counters. When their transaction then conflicts, runs into
    its time limit or dies with the process, the job stays, uncounted; after a conflict the retry runs the operation
    again, and the ticket may queue a second job once the first has ended. Line 65 of that document says that a failure
    rolls everything back and that a ticket is not used twice
    (「事务内部失败会整体回滚，重试执行完整回调，不会重复落盘，也不能重复使用票据」). That holds for first generations;
    `QuotasCountGrants` and `TicketGrantsOnce` say what is left for regenerations.
- A Qianfan tab whose last attempt gets a 429 does not note the wait it asked for (only an attempt that is
  followed by another does, `HoldAfter`); the next tab is asked after the interval
  (`qianfan-baidu-trend.source.ts:141-144`). A wait above thirty seconds is cut to thirty.
- An empty success is remembered in memory only, and memory counts only for parts without a stored
  snapshot: with an older snapshot stored, the source is asked again at the next refresh
  (`trends.service.ts:36`). `docs/TREND_MONITORING.md:70` says an empty success obeys the TTL;
  `StoredSnapshotObeysTtl` is stated for what is stored.
- A project that expires while a job the queue gave up is still active stays: the cleanup skips it and
  nobody reads the job any more (`project-retention.service.ts:23`).
- The answer to a request for a job may arrive when another project is open; the page then follows
  that job (`App.tsx:383`). `saveScene` stores the project it gets without comparing ids
  (`App.tsx:430`). When `getProject` fails after a confirmation, the job it queued is not watched
  until the page is opened again (`App.tsx:413`).

## 7. What could follow

1. The assumptions that one component's model makes of another (a job ends, a fetch is one step, a paid
   call is one execution) as refinements between the modules, where today they are named in section 2.
2. Deletion and expiry of the project inside `GenerationJobs`, so that the handlers' reads of missing
   rows are explored with it.
