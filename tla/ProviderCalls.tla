---------------------------- MODULE ProviderCalls ----------------------------
(***************************************************************************)
(* What one execution of a stage asks of the model provider: a single      *)
(* JSON request with one fallback (LlmService), or the agent of the        *)
(* premise stage with its steps, tools, retries and budgets (AgentRuntime, *)
(* AgentToolRegistry, AgentBudgetManager, PremiseAgent), and the cost that *)
(* executeStage writes to the row of the run.                              *)
(*                                                                         *)
(* Texts, tokens and durations are abstract: a limit on tokens or on the   *)
(* context may be hit at any check of it.  A tool call is its signature.   *)
(***************************************************************************)
EXTENDS Naturals, Sequences, FiniteSets, SequencesExt

CONSTANTS AgentRuns, LlmRuns,  \* executions of a stage, by the runtime they use
          Drafts,              \* what the agent may submit
          NoDraft,
          MaxSteps, MaxAttempts,     \* maxSteps, maxProviderAttemptsPerStep
          MaxCalls, MaxToolCalls,    \* maxTotalProviderCalls, maxToolCalls
          CallsPerStep               \* bound: tool calls in one answer

Runs == AgentRuns \cup LlmRuns

ASSUME ProviderAssumption ==
  /\ {MaxSteps, MaxAttempts, MaxCalls, MaxToolCalls} \subseteq Nat \ {0}
  /\ CallsPerStep \in Nat
  /\ AgentRuns \cap LlmRuns = {} /\ NoDraft \notin Drafts

VARIABLES agent,    \* the state of each AgentRuntime.run
          llm,      \* the state of each LlmService.generateJson
          formats,  \* structuredOutputSupported # false, of the process
          asked,    \* requests the execution has sent
          row       \* its GenerationRun

vars == <<agent, llm, formats, asked, row>>

NewAgent == [at |-> "step", step |-> 1, attempt |-> 1, calls |-> 0, tools |-> 0,
             mutating |-> 0, before |-> 0, draft |-> NoDraft, answer |-> <<>>,
             history |-> <<>>, aborted |-> FALSE]
NewLlm == [at |-> "start", calls |-> 0]
OpenRow == [status |-> "RUNNING", calls |-> 0, draft |-> NoDraft]

\* "validate" is read-only; a submission changes the run; "wrong" fails the tool's schema.
Signatures == {"validate", "wrong"} \cup Drafts

AgentStates ==
  [at : {"step", "stream", "delay", "submitted", "failed", "over"},
   step : 1..MaxSteps, attempt : 1..MaxAttempts, calls : 0..MaxCalls, tools : 0..MaxToolCalls,
   mutating : Nat, before : Nat, draft : Drafts \cup {NoDraft},
   answer : Seq(Signatures), history : Seq(Signatures), aborted : BOOLEAN]
LlmStates == [at : {"start", "structured", "plain", "answered", "failed", "over"}, calls : 0..2]
Rows == [status : {"RUNNING", "COMPLETED", "FAILED", "CLOSED"}, calls : Nat, draft : Drafts \cup {NoDraft}]

TypeOK ==
  /\ agent \in [AgentRuns -> AgentStates]
  /\ llm \in [LlmRuns -> LlmStates]
  /\ formats \in BOOLEAN
  /\ asked \in [Runs -> Nat]
  /\ row \in [Runs -> Rows]

Init ==
  /\ agent = [r \in AgentRuns |-> NewAgent]
  /\ llm = [r \in LlmRuns |-> NewLlm]
  /\ formats = TRUE
  /\ asked = [r \in Runs |-> 0]
  /\ row = [r \in Runs |-> OpenRow]

-----------------------------------------------------------------------------
(* The agent: AgentRuntime.run, one action per await.                        *)

Set(r, state) == agent' = [agent EXCEPT ![r] = state]

\* The transcript dies with the run.
Ended(a, at) == [a EXCEPT !.at = at, !.answer = <<>>, !.history = <<>>]

Failed(r) == Set(r, Ended(agent[r], "failed"))

\* Variant for CallsWithinBudget: one request more than the total.
InBudgetAfter(a) == a.calls <= MaxCalls

InBudget(a) == a.calls < MaxCalls

\* fitMessages, beginProviderCall, executeStep: the request is sent with the tools as they stand.
BeginCall(r) ==
  /\ agent[r].at = "step"
  /\ IF InBudget(agent[r])
     THEN /\ Set(r, [agent[r] EXCEPT !.at = "stream", !.calls = @ + 1, !.answer = <<>>,
                                     !.before = agent[r].mutating])
          /\ asked' = [asked EXCEPT ![r] = @ + 1]
     ELSE Failed(r) /\ UNCHANGED asked
  /\ UNCHANGED <<llm, formats, row>>

\* The estimate of the context exceeds its limit, also after old results are compacted.
ContextTooLarge(r) ==
  /\ agent[r].at = "step" /\ agent[r].attempt = 1
  /\ Failed(r)
  /\ UNCHANGED <<llm, formats, asked, row>>

\* A tool executed while the answer arrives: only the first submission is accepted. A refused call
\* and a failing one are answered with an error, which is part of the answer all the same.
CallTool(r, c) ==
  LET refused == agent[r].tools >= MaxToolCalls \/ c = "wrong" IN
  /\ agent[r].at = "stream" /\ Len(agent[r].answer) < CallsPerStep
  /\ Set(r, [agent[r] EXCEPT
        !.answer = Append(@, c),
        !.tools = IF refused THEN @ ELSE @ + 1,
        !.mutating = IF ~refused /\ c \in Drafts THEN @ + 1 ELSE @,
        !.draft = IF ~refused /\ c \in Drafts /\ @ = NoDraft THEN c ELSE @])
  /\ UNCHANGED <<llm, formats, asked, row>>

\* AgentLoopDetector.record of the last call: it is the third of its kind. (The second rule, six
\* calls to and fro, never decides: the fifth of them is already the third of its kind.)
Stuck(h) == Cardinality({i \in 1..Len(h) : h[i] = h[Len(h)]}) >= 3

LoopIn(h, answer) == \E k \in 1..Len(answer) : Stuck(h \o SubSeq(answer, 1, k))

\* The answer is complete: a loop fails the run, a submission ends it before any budget is asked
\* again; without one, tokens, an answer without calls or the last step stop it.
EndStep(r) ==
  LET a == agent[r] IN
  /\ a.at = "stream"
  /\ \/ /\ LoopIn(a.history, a.answer)
        /\ Failed(r)
     \/ /\ ~LoopIn(a.history, a.answer) /\ a.draft # NoDraft
        /\ Set(r, Ended(a, "submitted"))
     \/ /\ a.draft = NoDraft
        /\ Failed(r)
     \/ /\ ~LoopIn(a.history, a.answer) /\ a.draft = NoDraft
        /\ a.answer # <<>> /\ a.step < MaxSteps
        /\ Set(r, [a EXCEPT !.at = "step", !.step = @ + 1, !.attempt = 1,
                            !.history = @ \o a.answer, !.answer = <<>>])
  /\ UNCHANGED <<llm, formats, asked, row>>

\* Variant for AcceptedDraftEndsCalls: whatever its tools have done.
AnyReplayable(a) == TRUE

Replayable(a) == a.mutating = a.before

\* executeWithRetry's catch, in its order: a limit of the harness and an abort end the run, and so
\* does a call whose tools have changed the draft; only then the error may be retried.
CallFails(r, retryable) ==
  LET a == agent[r] IN
  /\ a.at = "stream"
  /\ IF a.aborted \/ ~Replayable(a) \/ ~retryable \/ a.attempt = MaxAttempts
     THEN Failed(r)
     ELSE Set(r, [a EXCEPT !.at = "delay"])
  /\ UNCHANGED <<llm, formats, asked, row>>

DelayEnds(r) ==
  /\ agent[r].at = "delay"
  /\ Set(r, [agent[r] EXCEPT !.at = "step", !.attempt = @ + 1])
  /\ UNCHANGED <<llm, formats, asked, row>>

\* Variant for CallsEnd: the signal does not reach the request.
TimesOutUnheard(r) ==
  LET a == agent[r] IN
  /\ a.at \in {"step", "delay"} /\ ~a.aborted
  /\ Set(r, [a EXCEPT !.aborted = TRUE, !.at = IF @ = "delay" THEN "failed" ELSE @])
  /\ UNCHANGED <<llm, formats, asked, row>>

\* The timer of the run aborts the request or the delay; the request notices on its next read.
TimesOut(r) ==
  LET a == agent[r] IN
  /\ a.at \in {"step", "stream", "delay"} /\ ~a.aborted
  /\ Set(r, [a EXCEPT !.aborted = TRUE, !.at = IF @ = "delay" THEN "failed" ELSE @])
  /\ UNCHANGED <<llm, formats, asked, row>>

-----------------------------------------------------------------------------
(* The JSON request: LlmService.generateJson and request.                    *)

SetLlm(r, state) == llm' = [llm EXCEPT ![r] = state]

SendRequest(r) ==
  /\ llm[r].at = "start"
  /\ SetLlm(r, [llm[r] EXCEPT !.at = IF formats THEN "structured" ELSE "plain"])
  /\ asked' = [asked EXCEPT ![r] = @ + 1]
  /\ UNCHANGED <<agent, formats, row>>

InRequest(r) == llm[r].at \in {"structured", "plain"}

\* Every call is observed once, with its outcome; none of the failures is retried.
Answered(r, state) ==
  /\ InRequest(r)
  /\ SetLlm(r, [at |-> state, calls |-> llm[r].calls + 1])
  /\ UNCHANGED <<agent, formats, asked, row>>

\* Variant for RecordedCostWasPaid: the rejected request is not observed.
RejectsFormatFree(r) ==
  /\ llm[r].at = "structured"
  /\ SetLlm(r, [llm[r] EXCEPT !.at = "plain"])
  /\ formats' = FALSE
  /\ asked' = [asked EXCEPT ![r] = @ + 1]
  /\ UNCHANGED <<agent, row>>

\* A provider that rejects response_format is asked once more without it, and never again with it.
RejectsFormat(r) ==
  /\ llm[r].at = "structured"
  /\ SetLlm(r, [at |-> "plain", calls |-> llm[r].calls + 1])
  /\ formats' = FALSE
  /\ asked' = [asked EXCEPT ![r] = @ + 1]
  /\ UNCHANGED <<agent, row>>

RequestTimesOut(r) == Answered(r, "failed")

-----------------------------------------------------------------------------
(* The row of the run: executeStage after generateStage.                     *)

HasResult(r) == IF r \in AgentRuns THEN agent[r].at = "submitted" ELSE llm[r].at = "answered"
HasFailed(r) == IF r \in AgentRuns THEN agent[r].at = "failed" ELSE llm[r].at = "failed"

Over(r) ==
  IF r \in AgentRuns THEN Set(r, Ended(agent[r], "over")) /\ UNCHANGED llm
                     ELSE SetLlm(r, [llm[r] EXCEPT !.at = "over"]) /\ UNCHANGED agent

\* runTelemetry and runScalarTelemetry: an agent's own count, else the calls that were observed.
CallCount(r) == IF r \in AgentRuns THEN agent[r].calls ELSE llm[r].calls
ObservedCalls(r) == IF r \in AgentRuns THEN 0 ELSE llm[r].calls

Write(r, status, calls, draft) ==
  row' = [row EXCEPT ![r] = [status |-> status, calls |-> calls, draft |-> draft]]

\* The result is saved, with the cost; an attempt that has lost its job saves the cost alone, its
\* row is closed by the new owner.
SaveResult(r) ==
  /\ HasResult(r)
  /\ \/ Write(r, "COMPLETED", CallCount(r), IF r \in AgentRuns THEN agent[r].draft ELSE NoDraft)
     \/ Write(r, "CLOSED", CallCount(r), NoDraft)
  /\ Over(r)
  /\ UNCHANGED <<formats, asked>>

\* The answer does not fit the stage, or its transaction fails for good.
ResultUnusable(r) ==
  /\ HasResult(r)
  /\ IF r \in AgentRuns THEN Failed(r) /\ UNCHANGED llm
     ELSE SetLlm(r, [llm[r] EXCEPT !.at = "failed"]) /\ UNCHANGED agent
  /\ UNCHANGED <<formats, asked, row>>

\* The cleanup writes the calls that were observed; without the job, or when it fails, the row is
\* closed without them (stopPreviouslyAttemptedJob, repairFailedStage).
SaveFailure(r) ==
  /\ HasFailed(r)
  /\ \/ Write(r, "FAILED", ObservedCalls(r), NoDraft)
     \/ Write(r, "CLOSED", 0, NoDraft)
  /\ Over(r)
  /\ UNCHANGED <<formats, asked>>

-----------------------------------------------------------------------------
AgentStep(r) ==
  BeginCall(r) \/ ContextTooLarge(r) \/ DelayEnds(r)

AgentNext(r) ==
  \/ AgentStep(r) \/ EndStep(r) \/ TimesOut(r)
  \/ \E c \in Signatures : CallTool(r, c)
  \/ \E retryable \in BOOLEAN : CallFails(r, retryable)

LlmNext(r) ==
  \/ SendRequest(r) \/ RejectsFormat(r) \/ RequestTimesOut(r)
  \/ Answered(r, "answered")

Save(r) == SaveResult(r) \/ ResultUnusable(r) \/ SaveFailure(r)

Next ==
  \/ \E r \in AgentRuns : AgentNext(r)
  \/ \E r \in LlmRuns : LlmNext(r)
  \/ \E r \in Runs : Save(r)

Spec == Init /\ [][Next]_vars

\* The provider may never answer. Timers fire, an aborted request is rejected and the event loop
\* runs what is due.
FairSpec ==
  /\ Spec
  /\ \A r \in AgentRuns : /\ WF_vars(AgentStep(r)) /\ WF_vars(TimesOut(r))
                          /\ WF_vars(agent[r].aborted /\ CallFails(r, FALSE))
  /\ \A r \in LlmRuns : WF_vars(SendRequest(r)) /\ WF_vars(RequestTimesOut(r))
  /\ \A r \in Runs : WF_vars(Save(r))

-----------------------------------------------------------------------------
(* Properties.                                                               *)

\* Once the agent has accepted a draft it asks the provider nothing more: neither a retry of the
\* stream that failed after the submission nor a further step (AgentRuntime.executeWithRetry, run).
AcceptedDraftEndsCalls ==
  [][\A r \in AgentRuns : agent[r].draft # NoDraft => asked'[r] = asked[r]]_vars

\* The cost in the row of a run is the number of requests it sent: for every completed run, for a
\* late result, and for every failure of a JSON request that the execution itself records. (A
\* failed agent records none; the code's audit knows that.)
RecordedCostWasPaid ==
  \A r \in Runs :
    \/ row[r].calls = asked[r]
    \/ row[r].status \in {"RUNNING", "CLOSED"} /\ row[r].calls = 0
    \/ row[r].status = "FAILED" /\ r \in AgentRuns

\* The budgets hold together: requests stay within the total and within the attempts of the steps
\* begun, and a JSON stage asks twice only when the first format was rejected.
CallsWithinBudget ==
  /\ \A r \in AgentRuns : asked[r] <= MaxCalls /\ asked[r] <= agent[r].step * MaxAttempts
  /\ \A r \in LlmRuns : asked[r] <= 2 /\ (asked[r] = 2 => ~formats)

\* Every execution ends with its row closed, although the provider may never answer.
CallsEnd == \A r \in Runs : <>[](row[r].status # "RUNNING")
=============================================================================
