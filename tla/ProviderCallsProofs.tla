------------------------- MODULE ProviderCallsProofs -------------------------
(***************************************************************************)
(* The agent asks nothing more once it has accepted a draft, requests stay *)
(* within their budgets and the recorded cost is the paid one, for any     *)
(* number of executions, steps, attempts, tools and drafts.                *)
(***************************************************************************)
EXTENDS ProviderCalls, TLAPS

\* An accepted draft leaves only an answer that may complete or fail, and whose failure is final.
DraftOK(a) ==
  /\ a.before <= a.mutating
  /\ a.draft # NoDraft => /\ a.at \in {"stream", "submitted", "failed", "over"}
                          /\ a.at = "stream" => a.before < a.mutating

\* The requests of a step are those of its attempts begun.
BudgetOK(a) ==
  /\ a.calls <= (a.step - 1) * MaxAttempts + (IF a.at = "step" THEN a.attempt - 1 ELSE a.attempt)
  /\ a.at = "delay" => a.attempt < MaxAttempts

AgentOK(r) == /\ DraftOK(agent[r]) /\ BudgetOK(agent[r])
              /\ asked[r] = agent[r].calls
              /\ agent[r].at = "over" \/ row[r] = OpenRow

LlmOK(r) ==
  /\ llm[r].at = "start" => llm[r].calls = 0 /\ asked[r] = 0
  /\ llm[r].at = "structured" => llm[r].calls = 0 /\ asked[r] = 1
  /\ llm[r].at = "plain" => llm[r].calls <= 1 /\ asked[r] = llm[r].calls + 1
  /\ llm[r].at \in {"answered", "failed", "over"} => asked[r] = llm[r].calls
  /\ asked[r] <= 2 /\ (asked[r] = 2 => ~formats)
  /\ llm[r].at = "over" \/ row[r] = OpenRow

Recorded(r) ==
  \/ row[r].calls = asked[r]
  \/ row[r].status \in {"RUNNING", "CLOSED"} /\ row[r].calls = 0
  \/ row[r].status = "FAILED" /\ r \in AgentRuns

Inv == /\ TypeOK
       /\ \A r \in AgentRuns : AgentOK(r)
       /\ \A r \in LlmRuns : LlmOK(r)
       /\ \A r \in Runs : Recorded(r)

-----------------------------------------------------------------------------
(* One execution moves at a time.                                           *)

\* A run that ends keeps its counts and its draft.
LEMMA EndedKeeps ==
  ASSUME NEW a \in AgentStates, NEW at \in {"submitted", "failed", "over"}
  PROVE  /\ Ended(a, at) \in AgentStates
         /\ Ended(a, at).at = at /\ Ended(a, at).calls = a.calls
         /\ Ended(a, at).step = a.step /\ Ended(a, at).attempt = a.attempt
         /\ Ended(a, at).mutating = a.mutating /\ Ended(a, at).before = a.before
         /\ Ended(a, at).draft = a.draft
<1>1. <<>> \in Seq(Signatures)
  OBVIOUS
<1>2. Ended(a, at) \in AgentStates
  BY <1>1 DEF AgentStates, Ended
<1>3. /\ Ended(a, at).at = at /\ Ended(a, at).calls = a.calls
      /\ Ended(a, at).step = a.step /\ Ended(a, at).attempt = a.attempt
      /\ Ended(a, at).mutating = a.mutating /\ Ended(a, at).before = a.before
      /\ Ended(a, at).draft = a.draft
  BY DEF AgentStates, Ended
<1> QED
  BY <1>2, <1>3

\* A step of one agent that leaves its row open keeps the invariant when it keeps the agent's part.
LEMMA AgentFrame ==
  ASSUME Inv, NEW r \in AgentRuns, agent[r].at # "over",
         NEW a \in AgentStates, Set(r, a), NEW n \in Nat, asked' = [asked EXCEPT ![r] = n],
         UNCHANGED <<llm, formats, row>>,
         DraftOK(a), BudgetOK(a), n = a.calls, a.at # "over"
  PROVE  Inv'
<1>1. TypeOK'
  BY DEF Inv, TypeOK, Set, Runs
<1>2. ASSUME NEW q \in AgentRuns PROVE AgentOK(q)'
  <2>1. CASE q = r
    BY <2>1 DEF Inv, TypeOK, Set, Runs, AgentOK
  <2>2. CASE q # r
    <3>1. agent'[q] = agent[q] /\ asked'[q] = asked[q] /\ row'[q] = row[q]
      BY <2>2 DEF Inv, TypeOK, Set, Runs
    <3> QED
      BY <3>1 DEF Inv, AgentOK
  <2> QED
    BY <2>1, <2>2
<1>3. ASSUME NEW q \in LlmRuns PROVE LlmOK(q)'
  <2>1. q # r /\ asked'[q] = asked[q]
    BY ProviderAssumption DEF Inv, TypeOK, Runs
  <2> QED
    BY <2>1 DEF Inv, LlmOK
<1>4. ASSUME NEW q \in Runs PROVE Recorded(q)'
  <2>1. CASE q = r
    BY <2>1 DEF Inv, AgentOK, OpenRow, Recorded
  <2>2. CASE q # r
    BY <2>2 DEF Inv, TypeOK, Recorded
  <2> QED
    BY <2>1, <2>2
<1> QED
  BY <1>1, <1>2, <1>3, <1>4 DEF Inv

\* The same for a JSON request, which may also learn that formats are rejected.
LEMMA LlmFrame ==
  ASSUME Inv, NEW r \in LlmRuns, llm[r].at # "over",
         NEW a \in LlmStates, SetLlm(r, a), NEW n \in Nat, asked' = [asked EXCEPT ![r] = n],
         formats' = formats \/ formats' = FALSE,
         UNCHANGED <<agent, row>>, LlmOK(r)'
  PROVE  Inv'
<1>1. TypeOK'
  BY DEF Inv, TypeOK, SetLlm, Runs
<1>2. ASSUME NEW q \in AgentRuns PROVE AgentOK(q)'
  <2>1. q # r /\ asked'[q] = asked[q]
    BY ProviderAssumption DEF Inv, TypeOK, Runs
  <2> QED
    BY <2>1 DEF Inv, AgentOK
<1>3. ASSUME NEW q \in LlmRuns PROVE LlmOK(q)'
  <2>1. CASE q = r
    BY <2>1
  <2>2. CASE q # r
    <3>1. llm'[q] = llm[q] /\ asked'[q] = asked[q]
      BY <2>2 DEF Inv, TypeOK, SetLlm, Runs
    <3> QED
      BY <3>1 DEF Inv, TypeOK, LlmOK
  <2> QED
    BY <2>1, <2>2
<1>4. ASSUME NEW q \in Runs PROVE Recorded(q)'
  <2>1. CASE q = r
    BY <2>1 DEF Inv, LlmOK, OpenRow, Recorded
  <2>2. CASE q # r
    BY <2>2 DEF Inv, TypeOK, Recorded
  <2> QED
    BY <2>1, <2>2
<1> QED
  BY <1>1, <1>2, <1>3, <1>4 DEF Inv

\* An execution that is over has a row that records its cost.
LEMMA OverKeeps ==
  ASSUME Inv, NEW r \in Runs, HasResult(r) \/ HasFailed(r),
         NEW w \in Rows, row' = [row EXCEPT ![r] = w], Over(r),
         UNCHANGED <<formats, asked>>,
         \/ w.calls = asked[r]
         \/ w.status = "CLOSED" /\ w.calls = 0
         \/ w.status = "FAILED" /\ r \in AgentRuns
  PROVE  Inv'
<1>1. ASSUME NEW q \in Runs PROVE Recorded(q)'
  BY DEF Inv, TypeOK, Recorded
<1>2. CASE r \in AgentRuns
  <2>1. UNCHANGED llm /\ agent' = [agent EXCEPT ![r] = Ended(agent[r], "over")] /\ agent[r] \in AgentStates
    BY <1>2 DEF Inv, TypeOK, Over, Set
  <2>2. Ended(agent[r], "over") \in AgentStates
    BY <2>1, EndedKeeps
  <2>3. TypeOK'
    BY <2>1, <2>2 DEF Inv, TypeOK
  <2>4. agent[r].at \in {"submitted", "failed"}
    BY <1>2 DEF HasResult, HasFailed
  <2>5. ASSUME NEW q \in AgentRuns PROVE AgentOK(q)'
    <3>1. CASE q = r
      <4>1. /\ agent'[q].at = "over" /\ agent'[q].calls = agent[q].calls
            /\ agent'[q].step = agent[q].step /\ agent'[q].attempt = agent[q].attempt
            /\ agent'[q].mutating = agent[q].mutating /\ agent'[q].before = agent[q].before
            /\ agent'[q].draft = agent[q].draft
        BY <2>1, <3>1, EndedKeeps DEF Inv, TypeOK
      <4> QED
        BY <2>4, <3>1, <4>1 DEF Inv, AgentOK, DraftOK, BudgetOK
    <3>2. CASE q # r
      BY <2>1, <3>2 DEF Inv, TypeOK, AgentOK
    <3> QED
      BY <3>1, <3>2
  <2>6. ASSUME NEW q \in LlmRuns PROVE LlmOK(q)'
    <3>1. q # r
      BY <1>2, ProviderAssumption
    <3> QED
      BY <2>1, <3>1 DEF Inv, TypeOK, LlmOK
  <2> QED
    BY <1>1, <2>3, <2>5, <2>6 DEF Inv
<1>3. CASE r \notin AgentRuns
  <2>1. /\ r \in LlmRuns /\ UNCHANGED agent /\ llm[r].at \in {"answered", "failed"}
        /\ llm' = [llm EXCEPT ![r] = [llm[r] EXCEPT !.at = "over"]]
    BY <1>3 DEF Runs, Over, SetLlm, HasResult, HasFailed
  <2>2. TypeOK'
    BY <2>1 DEF Inv, TypeOK, LlmStates
  <2>3. ASSUME NEW q \in LlmRuns PROVE LlmOK(q)'
    <3>1. CASE q = r
      <4>1. llm'[q].at = "over" /\ llm'[q].calls = llm[q].calls
        BY <2>1, <3>1 DEF Inv, TypeOK, LlmStates
      <4> QED
        BY <2>1, <3>1, <4>1 DEF Inv, LlmOK
    <3>2. CASE q # r
      BY <2>1, <3>2 DEF Inv, TypeOK, LlmOK
    <3> QED
      BY <3>1, <3>2
  <2>4. ASSUME NEW q \in AgentRuns PROVE AgentOK(q)'
    <3>1. q # r /\ agent'[q] = agent[q] /\ row'[q] = row[q] /\ asked'[q] = asked[q]
      BY <1>3, <2>1 DEF Inv, TypeOK, Runs
    <3> QED
      BY <3>1 DEF Inv, AgentOK
  <2> QED
    BY <1>1, <2>2, <2>3, <2>4 DEF Inv
<1> QED
  BY <1>2, <1>3

-----------------------------------------------------------------------------
(* The steps of an agent.                                                   *)

\* A step without a request.
LEMMA QuietAgent ==
  ASSUME Inv, NEW r \in AgentRuns, agent[r].at # "over",
         NEW a \in AgentStates, Set(r, a), UNCHANGED <<llm, formats, asked, row>>,
         DraftOK(a), BudgetOK(a), a.calls = agent[r].calls, a.at # "over"
  PROVE  Inv'
<1>1. asked[r] \in Nat /\ asked' = [asked EXCEPT ![r] = asked[r]] /\ asked[r] = a.calls
  BY DEF Inv, TypeOK, Runs, AgentOK
<1> QED
  BY <1>1, AgentFrame

\* A run that fails or submits.
LEMMA EndingAgent ==
  ASSUME Inv, NEW r \in AgentRuns, agent[r].at \in {"step", "stream", "submitted"},
         NEW at \in {"submitted", "failed"},
         Set(r, Ended(agent[r], at)), UNCHANGED <<llm, formats, asked, row>>
  PROVE  Inv'
<1>1. agent[r] \in AgentStates /\ DraftOK(agent[r]) /\ BudgetOK(agent[r])
  BY DEF Inv, TypeOK, AgentOK
<1> DEFINE a == Ended(agent[r], at)
<1>2. /\ a \in AgentStates /\ a.at = at /\ a.calls = agent[r].calls
      /\ a.step = agent[r].step /\ a.attempt = agent[r].attempt
      /\ a.mutating = agent[r].mutating /\ a.before = agent[r].before /\ a.draft = agent[r].draft
  BY <1>1, EndedKeeps
<1> HIDE DEF a
<1>3. DraftOK(a)
  BY <1>1, <1>2 DEF DraftOK
<1>4. BudgetOK(a)
  <2> DEFINE done == (agent[r].step - 1) * MaxAttempts
  <2>1. agent[r].step \in Nat /\ MaxAttempts \in Nat /\ agent[r].attempt \in Nat /\ agent[r].calls \in Nat
    BY <1>1, ProviderAssumption DEF AgentStates
  <2>2. done \in Int
    BY <2>1
  <2>3. agent[r].calls <= done + (IF agent[r].at = "step" THEN agent[r].attempt - 1 ELSE agent[r].attempt)
    BY <1>1 DEF BudgetOK
  <2> HIDE DEF done
  <2>4. agent[r].calls <= done + agent[r].attempt
    BY <2>1, <2>2, <2>3
  <2> QED
    BY <1>2, <2>4 DEF done, BudgetOK
<1>5. Set(r, a) /\ a.at # "over" /\ agent[r].at # "over"
  BY <1>2 DEF a
<1> QED
  BY <1>2, <1>3, <1>4, <1>5, QuietAgent

\* A request is sent within the total and while no draft is accepted.
LEMMA BeginCallKeeps ==
  ASSUME Inv, NEW r \in AgentRuns, BeginCall(r)
  PROVE  Inv'
<1>1. agent[r] \in AgentStates /\ agent[r].at = "step" /\ DraftOK(agent[r]) /\ BudgetOK(agent[r])
  BY DEF Inv, TypeOK, AgentOK, BeginCall
<1>2. CASE InBudget(agent[r])
  <2> DEFINE a == [agent[r] EXCEPT !.at = "stream", !.calls = @ + 1, !.answer = <<>>,
                                   !.before = agent[r].mutating]
  <2>1. <<>> \in Seq(Signatures)
    OBVIOUS
  <2>2. agent[r].calls + 1 \in 0..MaxCalls
    <3>1. agent[r].calls \in Nat /\ MaxCalls \in Nat
      BY <1>1, ProviderAssumption DEF AgentStates
    <3>2. agent[r].calls < MaxCalls
      BY <1>2 DEF InBudget
    <3> HIDE DEF a
    <3> QED
      BY <3>1, <3>2
  <2>3. a \in AgentStates
    BY <1>1, <2>1, <2>2 DEF AgentStates
  <2>4. /\ a.at = "stream" /\ a.calls = agent[r].calls + 1 /\ a.before = agent[r].mutating
        /\ a.mutating = agent[r].mutating /\ a.draft = agent[r].draft
        /\ a.step = agent[r].step /\ a.attempt = agent[r].attempt
    BY <1>1 DEF AgentStates
  <2>5. /\ Set(r, a) /\ asked' = [asked EXCEPT ![r] = asked[r] + 1]
        /\ UNCHANGED <<llm, formats, row>>
    BY <1>2 DEF BeginCall
  <2>6. asked[r] + 1 \in Nat /\ asked[r] + 1 = a.calls
    BY <2>4 DEF Inv, TypeOK, AgentOK, Runs
  <2> HIDE DEF a
  <2>7. DraftOK(a)
    BY <1>1, <2>4 DEF DraftOK, AgentStates
  <2>8. BudgetOK(a)
    <3> DEFINE done == (agent[r].step - 1) * MaxAttempts
    <3>1. /\ agent[r].step \in Nat /\ MaxAttempts \in Nat /\ agent[r].attempt \in Nat
          /\ agent[r].calls \in Nat
      BY <1>1, ProviderAssumption DEF AgentStates
    <3>2. done \in Int
      BY <3>1
    <3>3. agent[r].calls <= done + (agent[r].attempt - 1)
      BY <1>1 DEF BudgetOK
    <3> HIDE DEF done
    <3>4. agent[r].calls + 1 <= done + agent[r].attempt
      BY <3>1, <3>2, <3>3
    <3> QED
      BY <2>4, <3>4 DEF done, BudgetOK
  <2> QED
    BY <1>1, <2>3, <2>4, <2>5, <2>6, <2>7, <2>8, AgentFrame
<1>3. CASE ~InBudget(agent[r])
  BY <1>1, <1>3, EndingAgent DEF BeginCall, Failed
<1> QED
  BY <1>2, <1>3

\* A tool accepts a first draft and counts the submission, whatever the answer holds.
LEMMA CallToolKeeps ==
  ASSUME Inv, NEW r \in AgentRuns, NEW c \in Signatures, CallTool(r, c)
  PROVE  Inv'
<1> DEFINE refused == agent[r].tools >= MaxToolCalls \/ c = "wrong"
           a == [agent[r] EXCEPT
                   !.answer = Append(@, c),
                   !.tools = IF refused THEN @ ELSE @ + 1,
                   !.mutating = IF ~refused /\ c \in Drafts THEN @ + 1 ELSE @,
                   !.draft = IF ~refused /\ c \in Drafts /\ @ = NoDraft THEN c ELSE @]
<1>1. agent[r] \in AgentStates /\ agent[r].at = "stream" /\ DraftOK(agent[r]) /\ BudgetOK(agent[r])
  BY DEF Inv, TypeOK, AgentOK, CallTool
<1>2. Append(agent[r].answer, c) \in Seq(Signatures)
  BY <1>1 DEF AgentStates
<1>3. a \in AgentStates
  <2>1. /\ agent[r].tools \in 0..MaxToolCalls /\ MaxToolCalls \in Nat
        /\ agent[r].mutating \in Nat /\ agent[r].draft \in Drafts \cup {NoDraft}
    BY <1>1, ProviderAssumption DEF AgentStates
  <2>2. /\ (IF refused THEN agent[r].tools ELSE agent[r].tools + 1) \in 0..MaxToolCalls
        /\ (IF ~refused /\ c \in Drafts THEN agent[r].mutating + 1 ELSE agent[r].mutating) \in Nat
        /\ (IF ~refused /\ c \in Drafts /\ agent[r].draft = NoDraft THEN c ELSE agent[r].draft)
             \in Drafts \cup {NoDraft}
    BY <2>1
  <2> HIDE DEF refused
  <2> QED
    BY <1>1, <1>2, <2>2 DEF AgentStates
<1>4. /\ a.at = "stream" /\ a.calls = agent[r].calls /\ a.before = agent[r].before
      /\ a.step = agent[r].step /\ a.attempt = agent[r].attempt
      /\ \/ a.mutating = agent[r].mutating /\ a.draft = agent[r].draft
         \/ a.mutating = agent[r].mutating + 1
  BY <1>1 DEF AgentStates
<1>5. Set(r, a) /\ UNCHANGED <<llm, formats, asked, row>>
  BY DEF CallTool
<1> HIDE DEF a
<1>6. DraftOK(a)
  BY <1>1, <1>4 DEF DraftOK, AgentStates
<1>7. BudgetOK(a)
  BY <1>1, <1>4 DEF BudgetOK, AgentStates
<1> QED
  BY <1>1, <1>3, <1>4, <1>5, <1>6, <1>7, QuietAgent

\* A further step begins only without a draft, with the attempts of one step more.
LEMMA EndStepKeeps ==
  ASSUME Inv, NEW r \in AgentRuns, EndStep(r)
  PROVE  Inv'
<1>1. agent[r] \in AgentStates /\ agent[r].at = "stream" /\ DraftOK(agent[r]) /\ BudgetOK(agent[r])
  BY DEF Inv, TypeOK, AgentOK, EndStep
<1>2. CASE Failed(r) \/ Set(r, Ended(agent[r], "submitted"))
  BY <1>1, <1>2, EndingAgent DEF EndStep, Failed
<1> DEFINE a == [agent[r] EXCEPT !.at = "step", !.step = @ + 1, !.attempt = 1,
                                 !.history = @ \o agent[r].answer, !.answer = <<>>]
<1>3. CASE agent[r].draft = NoDraft /\ agent[r].step < MaxSteps /\ Set(r, a)
  <2>1. <<>> \in Seq(Signatures) /\ agent[r].history \o agent[r].answer \in Seq(Signatures)
    BY <1>1 DEF AgentStates
  <2>2. agent[r].step + 1 \in 1..MaxSteps /\ 1 \in 1..MaxAttempts
    <3>1. agent[r].step \in 1..MaxSteps
      BY <1>1 DEF AgentStates
    <3> QED BY <1>3, <3>1, ProviderAssumption
  <2>3. a \in AgentStates
    BY <1>1, <2>1, <2>2 DEF AgentStates
  <2>4. /\ a.at = "step" /\ a.calls = agent[r].calls /\ a.before = agent[r].before
        /\ a.mutating = agent[r].mutating /\ a.draft = NoDraft
        /\ a.step = agent[r].step + 1 /\ a.attempt = 1
    BY <1>1, <1>3 DEF AgentStates
  <2>5. Set(r, a) /\ UNCHANGED <<llm, formats, asked, row>>
    BY <1>3 DEF EndStep
  <2> HIDE DEF a
  <2>6. DraftOK(a)
    BY <1>1, <2>4 DEF DraftOK
  <2>7. BudgetOK(a)
    <3>1. \A s, m \in Nat : (s - 1) * m + m = s * m /\ (s + 1) - 1 = s
      OBVIOUS
    <3>2. /\ agent[r].step \in Nat /\ MaxAttempts \in Nat /\ agent[r].attempt \in 1..MaxAttempts
          /\ agent[r].calls \in Nat
      BY <1>1, ProviderAssumption DEF AgentStates
    <3>3. agent[r].calls <= (agent[r].step - 1) * MaxAttempts + agent[r].attempt
      BY <1>1 DEF BudgetOK
    <3> DEFINE done == (agent[r].step - 1) * MaxAttempts
    <3>4. done \in Int /\ done + MaxAttempts = agent[r].step * MaxAttempts
      BY <3>1, <3>2
    <3>5. agent[r].calls <= done + agent[r].attempt
      BY <3>3
    <3> HIDE DEF done
    <3>6. agent[r].calls <= agent[r].step * MaxAttempts
      BY <3>2, <3>4, <3>5
    <3>7. agent[r].calls <= (a.step - 1) * MaxAttempts + (a.attempt - 1)
      BY <2>4, <3>2, <3>6
    <3> QED
      BY <2>4, <3>7 DEF BudgetOK
  <2> QED
    BY <1>1, <2>3, <2>4, <2>5, <2>6, <2>7, QuietAgent
<1> QED
  BY <1>2, <1>3 DEF EndStep

\* An attempt is repeated only when its tools have accepted no draft.
LEMMA CallFailsKeeps ==
  ASSUME Inv, NEW r \in AgentRuns, NEW retryable \in BOOLEAN, CallFails(r, retryable)
  PROVE  Inv'
<1>1. agent[r] \in AgentStates /\ agent[r].at = "stream" /\ DraftOK(agent[r]) /\ BudgetOK(agent[r])
  BY DEF Inv, TypeOK, AgentOK, CallFails
<1> DEFINE a == [agent[r] EXCEPT !.at = "delay"]
<1>2. CASE Failed(r)
  BY <1>1, <1>2, EndingAgent DEF CallFails, Failed
<1>3. CASE Replayable(agent[r]) /\ agent[r].attempt # MaxAttempts /\ Set(r, a)
  <2>1. a \in AgentStates
    BY <1>1 DEF AgentStates
  <2>2. /\ a.at = "delay" /\ a.calls = agent[r].calls /\ a.before = agent[r].before
        /\ a.mutating = agent[r].mutating /\ a.draft = agent[r].draft
        /\ a.step = agent[r].step /\ a.attempt = agent[r].attempt
    BY <1>1 DEF AgentStates
  <2>3. Set(r, a) /\ UNCHANGED <<llm, formats, asked, row>>
    BY <1>3 DEF CallFails
  <2> HIDE DEF a
  <2>4. DraftOK(a)
    BY <1>1, <1>3, <2>2 DEF DraftOK, Replayable, AgentStates
  <2>5. BudgetOK(a)
    BY <1>1, <1>3, <2>2, ProviderAssumption DEF BudgetOK, AgentStates
  <2> QED
    BY <1>1, <2>1, <2>2, <2>3, <2>4, <2>5, QuietAgent
<1> QED
  BY <1>2, <1>3 DEF CallFails

\* The delay leads to the next attempt of the same step.
LEMMA DelayEndsKeeps ==
  ASSUME Inv, NEW r \in AgentRuns, DelayEnds(r)
  PROVE  Inv'
<1>1. agent[r] \in AgentStates /\ agent[r].at = "delay" /\ DraftOK(agent[r]) /\ BudgetOK(agent[r])
  BY DEF Inv, TypeOK, AgentOK, DelayEnds
<1> DEFINE a == [agent[r] EXCEPT !.at = "step", !.attempt = @ + 1]
<1>2. agent[r].attempt + 1 \in 1..MaxAttempts
  <2>1. agent[r].attempt < MaxAttempts
    BY <1>1 DEF BudgetOK
  <2>2. agent[r].attempt \in 1..MaxAttempts /\ MaxAttempts \in Nat
    BY <1>1, ProviderAssumption DEF AgentStates
  <2> QED
    BY <2>1, <2>2
<1>3. a \in AgentStates
  BY <1>1, <1>2 DEF AgentStates
<1>4. /\ a.at = "step" /\ a.calls = agent[r].calls /\ a.before = agent[r].before
      /\ a.mutating = agent[r].mutating /\ a.draft = agent[r].draft
      /\ a.step = agent[r].step /\ a.attempt = agent[r].attempt + 1
  BY <1>1 DEF AgentStates
<1>5. Set(r, a) /\ UNCHANGED <<llm, formats, asked, row>>
  BY DEF DelayEnds
<1> HIDE DEF a
<1>6. DraftOK(a)
  BY <1>1, <1>4 DEF DraftOK
<1>7. BudgetOK(a)
  BY <1>1, <1>2, <1>4, ProviderAssumption DEF BudgetOK, AgentStates
<1> QED
  BY <1>1, <1>3, <1>4, <1>5, <1>6, <1>7, QuietAgent

\* The timer of the run changes neither its counts nor its draft.
LEMMA TimesOutKeeps ==
  ASSUME Inv, NEW r \in AgentRuns, TimesOut(r)
  PROVE  Inv'
<1>1. /\ agent[r] \in AgentStates /\ agent[r].at \in {"step", "stream", "delay"}
      /\ DraftOK(agent[r]) /\ BudgetOK(agent[r])
  BY DEF Inv, TypeOK, AgentOK, TimesOut
<1> DEFINE a == [agent[r] EXCEPT !.aborted = TRUE, !.at = IF @ = "delay" THEN "failed" ELSE @]
<1>2. a \in AgentStates
  BY <1>1 DEF AgentStates
<1>3. /\ a.at = (IF agent[r].at = "delay" THEN "failed" ELSE agent[r].at)
      /\ a.calls = agent[r].calls /\ a.before = agent[r].before
      /\ a.mutating = agent[r].mutating /\ a.draft = agent[r].draft
      /\ a.step = agent[r].step /\ a.attempt = agent[r].attempt
  BY <1>1 DEF AgentStates
<1>4. Set(r, a) /\ UNCHANGED <<llm, formats, asked, row>>
  BY DEF TimesOut
<1> HIDE DEF a
<1>5. DraftOK(a)
  BY <1>1, <1>3 DEF DraftOK
<1>6. BudgetOK(a)
  BY <1>1, <1>3, ProviderAssumption DEF BudgetOK, AgentStates
<1> QED
  BY <1>1, <1>2, <1>3, <1>4, <1>5, <1>6, QuietAgent

-----------------------------------------------------------------------------
(* The steps of a JSON request and the ends of executions.                  *)

\* A JSON request asks again only after its format was rejected.
LEMMA LlmKeeps ==
  ASSUME Inv, NEW r \in LlmRuns, LlmNext(r)
  PROVE  Inv'
<1>1. llm[r] \in LlmStates /\ LlmOK(r) /\ asked[r] \in Nat /\ llm[r].at # "over"
  BY DEF Inv, TypeOK, Runs, LlmNext, SendRequest, RejectsFormat, RequestTimesOut, Answered, InRequest
<1>2. CASE SendRequest(r)
  <2> DEFINE a == [llm[r] EXCEPT !.at = IF formats THEN "structured" ELSE "plain"]
  <2>1. /\ a \in LlmStates /\ a.calls = llm[r].calls
        /\ a.at = (IF formats THEN "structured" ELSE "plain")
    BY <1>1 DEF LlmStates
  <2>2. SetLlm(r, a) /\ asked' = [asked EXCEPT ![r] = asked[r] + 1] /\ UNCHANGED <<agent, formats, row>>
    BY <1>2 DEF SendRequest
  <2> HIDE DEF a
  <2>3. llm'[r] = a /\ asked'[r] = asked[r] + 1 /\ asked[r] = 0 /\ llm[r].calls = 0 /\ row'[r] = OpenRow
    BY <1>1, <1>2, <2>2 DEF Inv, TypeOK, Runs, SetLlm, SendRequest, LlmOK
  <2>4. LlmOK(r)'
    BY <2>1, <2>2, <2>3 DEF LlmOK
  <2>5. a \in LlmStates /\ asked[r] + 1 \in Nat
    BY <1>1, <2>1
  <2>6. /\ SetLlm(r, a) /\ asked' = [asked EXCEPT ![r] = asked[r] + 1]
        /\ formats' = formats /\ UNCHANGED <<agent, row>> /\ llm[r].at # "over"
    BY <1>1, <2>2
  <2> QED
    BY <2>4, <2>5, <2>6, LlmFrame, Zenon
<1>3. CASE RejectsFormat(r)
  <2> DEFINE a == [at |-> "plain", calls |-> llm[r].calls + 1]
  <2>1. llm[r].calls = 0 /\ asked[r] = 1 /\ row[r] = OpenRow
    BY <1>1, <1>3 DEF LlmOK, RejectsFormat
  <2>2. a \in LlmStates /\ a.calls = 1 /\ a.at = "plain"
    BY <2>1 DEF LlmStates
  <2>3. /\ SetLlm(r, a) /\ asked' = [asked EXCEPT ![r] = asked[r] + 1] /\ formats' = FALSE
        /\ UNCHANGED <<agent, row>>
    BY <1>3 DEF RejectsFormat
  <2> HIDE DEF a
  <2>4. llm'[r] = a /\ asked'[r] = 2 /\ row'[r] = OpenRow
    BY <1>1, <2>1, <2>3 DEF Inv, TypeOK, Runs, SetLlm
  <2>5. LlmOK(r)'
    BY <2>2, <2>3, <2>4 DEF LlmOK
  <2>6. a \in LlmStates /\ asked[r] + 1 \in Nat
    BY <1>1, <2>2
  <2>7. /\ SetLlm(r, a) /\ asked' = [asked EXCEPT ![r] = asked[r] + 1]
        /\ formats' = FALSE /\ UNCHANGED <<agent, row>> /\ llm[r].at # "over"
    BY <1>1, <2>3
  <2> QED
    BY <2>5, <2>6, <2>7, LlmFrame, Zenon
<1>4. ASSUME NEW state \in {"answered", "failed"}, Answered(r, state) PROVE Inv'
  <2> DEFINE a == [at |-> state, calls |-> llm[r].calls + 1]
  <2>1. asked[r] = llm[r].calls + 1 /\ asked[r] <= 2 /\ row[r] = OpenRow
    BY <1>1, <1>4 DEF LlmOK, Answered, InRequest
  <2>2. a \in LlmStates /\ a.calls = asked[r] /\ a.at = state
    BY <1>1, <2>1 DEF LlmStates
  <2>3. SetLlm(r, a) /\ UNCHANGED <<agent, formats, asked, row>>
    BY <1>4 DEF Answered
  <2> HIDE DEF a
  <2>4. llm'[r] = a /\ asked' = [asked EXCEPT ![r] = asked[r]]
    BY <2>3 DEF Inv, TypeOK, Runs, SetLlm
  <2>5. LlmOK(r)'
    BY <1>1, <2>1, <2>2, <2>3, <2>4 DEF LlmOK
  <2> QED
    BY <1>1, <2>2, <2>3, <2>4, <2>5, LlmFrame
<1> QED
  BY <1>2, <1>3, <1>4 DEF LlmNext, RequestTimesOut

\* The row is closed once, with the cost the execution has observed.
LEMMA SaveKeeps ==
  ASSUME Inv, NEW r \in Runs, Save(r)
  PROVE  Inv'
<1>1. CallCount(r) = asked[r] \/ ~(HasResult(r) \/ (HasFailed(r) /\ r \in LlmRuns))
  BY ProviderAssumption DEF Inv, AgentOK, LlmOK, CallCount, HasResult, HasFailed, Runs
<1>2. asked[r] \in Nat
  BY DEF Inv, TypeOK
<1>3. CASE SaveResult(r)
  <2> DEFINE w(status, draft) == [status |-> status, calls |-> CallCount(r), draft |-> draft]
  <2>1. CallCount(r) = asked[r]
    BY <1>1, <1>3 DEF SaveResult
  <2>2. PICK status \in {"COMPLETED", "CLOSED"}, draft \in Drafts \cup {NoDraft} :
          row' = [row EXCEPT ![r] = w(status, draft)]
    <3>1. (IF r \in AgentRuns THEN agent[r].draft ELSE NoDraft) \in Drafts \cup {NoDraft}
      BY DEF Inv, TypeOK, AgentStates
    <3> QED
      BY <1>3, <3>1 DEF SaveResult, Write
  <2>3. w(status, draft) \in Rows /\ w(status, draft).calls = asked[r]
    BY <1>2, <2>1 DEF Rows
  <2> QED
    BY <1>3, <2>2, <2>3, OverKeeps DEF SaveResult
<1>4. CASE ResultUnusable(r)
  <2>1. CASE r \in AgentRuns
    <3>1. Set(r, Ended(agent[r], "failed")) /\ agent[r].at = "submitted"
          /\ UNCHANGED <<llm, formats, asked, row>>
      BY <1>4, <2>1 DEF ResultUnusable, Failed, HasResult
    <3> QED
      BY <2>1, <3>1, EndingAgent
  <2>2. CASE r \notin AgentRuns
    <3> DEFINE a == [llm[r] EXCEPT !.at = "failed"]
    <3>1. r \in LlmRuns /\ llm[r] \in LlmStates /\ llm[r].at = "answered"
      BY <1>4, <2>2 DEF ResultUnusable, HasResult, Runs, Inv, TypeOK
    <3>2. a \in LlmStates /\ a.at = "failed" /\ a.calls = llm[r].calls
      BY <3>1 DEF LlmStates
    <3>3. SetLlm(r, a) /\ UNCHANGED <<agent, formats, asked, row>>
      BY <1>4, <2>2 DEF ResultUnusable
    <3> HIDE DEF a
    <3>4. llm'[r] = a /\ asked' = [asked EXCEPT ![r] = asked[r]]
      BY <3>1, <3>3 DEF Inv, TypeOK, SetLlm
    <3>5. LlmOK(r)'
      BY <3>1, <3>2, <3>3, <3>4 DEF Inv, LlmOK
    <3> QED
      BY <1>2, <3>1, <3>2, <3>3, <3>4, <3>5, LlmFrame
  <2> QED
    BY <2>1, <2>2
<1>5. CASE SaveFailure(r)
  <2> DEFINE w == [status |-> "FAILED", calls |-> ObservedCalls(r), draft |-> NoDraft]
             u == [status |-> "CLOSED", calls |-> 0, draft |-> NoDraft]
  <2>1. u \in Rows /\ u.status = "CLOSED" /\ u.calls = 0
    BY DEF Rows
  <2>2. w \in Rows /\ w.status = "FAILED" /\ (w.calls = asked[r] \/ r \in AgentRuns)
    BY <1>1, <1>2, <1>5 DEF Rows, ObservedCalls, CallCount, SaveFailure, Runs
  <2>3. /\ HasFailed(r) /\ Over(r) /\ UNCHANGED <<formats, asked>>
        /\ row' = [row EXCEPT ![r] = w] \/ row' = [row EXCEPT ![r] = u]
    BY <1>5 DEF SaveFailure, Write
  <2> HIDE DEF w, u
  <2> QED
    BY <2>1, <2>2, <2>3, OverKeeps
<1> QED
  BY <1>3, <1>4, <1>5 DEF Save

-----------------------------------------------------------------------------
\* The invariant holds in every state of every execution.
THEOREM CallsInv == Spec => []Inv
<1>1. Init => Inv
  <2> SUFFICES ASSUME Init PROVE Inv
    OBVIOUS
  <2>1. NewAgent \in AgentStates
    <3>1. <<>> \in Seq(Signatures)
      OBVIOUS
    <3> QED
      BY <3>1, ProviderAssumption DEF NewAgent, AgentStates
  <2>2. NewLlm \in LlmStates /\ OpenRow \in Rows
    BY DEF NewLlm, LlmStates, OpenRow, Rows
  <2>3. TypeOK
    BY <2>1, <2>2 DEF Init, TypeOK
  <2>4. ASSUME NEW r \in AgentRuns PROVE AgentOK(r)
    <3>1. agent[r] = NewAgent /\ asked[r] = 0 /\ row[r] = OpenRow
      BY DEF Init, Runs
    <3>2. DraftOK(NewAgent) /\ BudgetOK(NewAgent) /\ NewAgent.calls = 0
      BY ProviderAssumption DEF NewAgent, DraftOK, BudgetOK
    <3> QED
      BY <3>1, <3>2 DEF AgentOK
  <2>5. ASSUME NEW r \in LlmRuns PROVE LlmOK(r)
    BY DEF Init, Runs, LlmOK, NewLlm
  <2>6. ASSUME NEW r \in Runs PROVE Recorded(r)
    BY DEF Init, Recorded, OpenRow
  <2> QED
    BY <2>3, <2>4, <2>5, <2>6 DEF Inv
<1>2. Inv /\ [Next]_vars => Inv'
  <2> SUFFICES ASSUME Inv, [Next]_vars PROVE Inv'
    OBVIOUS
  <2>1. CASE UNCHANGED vars
    BY <2>1 DEF vars, Inv, TypeOK, AgentOK, LlmOK, Recorded
  <2>2. ASSUME NEW r \in AgentRuns, AgentNext(r) PROVE Inv'
    <3>1. CASE ContextTooLarge(r)
      BY <3>1, EndingAgent DEF ContextTooLarge, Failed
    <3> QED
      BY <2>2, <3>1, BeginCallKeeps, CallToolKeeps, EndStepKeeps, CallFailsKeeps, DelayEndsKeeps,
         TimesOutKeeps DEF AgentNext, AgentStep
  <2> QED
    BY <2>1, <2>2, LlmKeeps, SaveKeeps DEF Next
<1> QED
  BY <1>1, <1>2, PTL DEF Spec

\* Every variable of the executions keeps its type.
THEOREM ProviderTypeCorrect == Spec => []TypeOK
BY CallsInv, PTL DEF Inv

\* Once a draft is accepted no request is sent for the run: no retry, no further step.
THEOREM DraftEndsCalls == Spec => AcceptedDraftEndsCalls
<1>1. ASSUME Inv, [Next]_vars
      PROVE  \A r \in AgentRuns : agent[r].draft # NoDraft => asked'[r] = asked[r]
  <2> SUFFICES ASSUME NEW r \in AgentRuns, agent[r].draft # NoDraft, asked'[r] # asked[r]
               PROVE  FALSE
    OBVIOUS
  <2>1. agent[r].at # "step"
    BY <1>1 DEF Inv, AgentOK, DraftOK
  <2>2. ASSUME NEW q \in Runs, q # r, asked' = [asked EXCEPT ![q] = asked[q] + 1] PROVE FALSE
    BY <1>1, <2>2 DEF Inv, TypeOK, Runs
  <2>3. ASSUME NEW q \in AgentRuns, AgentNext(q) PROVE FALSE
    BY <1>1, <2>1, <2>2, <2>3 DEF AgentNext, AgentStep, BeginCall, ContextTooLarge, DelayEnds, EndStep,
       TimesOut, CallTool, CallFails, Runs
  <2>4. ASSUME NEW q \in LlmRuns, LlmNext(q) PROVE FALSE
    BY <1>1, <2>2, <2>4, ProviderAssumption DEF LlmNext, SendRequest, RejectsFormat, RequestTimesOut,
       Answered, Runs
  <2>5. ASSUME NEW q \in Runs, Save(q) PROVE FALSE
    BY <2>5 DEF Save, SaveResult, ResultUnusable, SaveFailure
  <2> QED
    BY <1>1, <2>3, <2>4, <2>5 DEF Next, vars
<1>2. Inv /\ [Next]_vars => [\A r \in AgentRuns : agent[r].draft # NoDraft => asked'[r] = asked[r]]_vars
  BY <1>1
<1> QED
  BY <1>2, CallsInv, PTL DEF Spec, AcceptedDraftEndsCalls

\* Requests stay within the total of a run and the attempts of its steps.
THEOREM StaysWithinBudget == Spec => []CallsWithinBudget
<1>1. ASSUME Inv PROVE CallsWithinBudget
  <2>1. ASSUME NEW r \in AgentRuns
        PROVE  asked[r] <= MaxCalls /\ asked[r] <= agent[r].step * MaxAttempts
    <3>1. /\ asked[r] = agent[r].calls /\ agent[r].calls \in 0..MaxCalls /\ MaxCalls \in Nat
          /\ agent[r].step \in Nat /\ MaxAttempts \in Nat /\ agent[r].attempt \in 1..MaxAttempts
      BY <1>1, ProviderAssumption DEF Inv, AgentOK, TypeOK, AgentStates
    <3> DEFINE done == (agent[r].step - 1) * MaxAttempts
    <3>2. \A s, m \in Nat : (s - 1) * m + m = s * m
      OBVIOUS
    <3>3. done \in Int /\ done + MaxAttempts = agent[r].step * MaxAttempts
      BY <3>1, <3>2
    <3>4. agent[r].calls <= done + (IF agent[r].at = "step" THEN agent[r].attempt - 1 ELSE agent[r].attempt)
      BY <1>1 DEF Inv, AgentOK, BudgetOK
    <3> HIDE DEF done
    <3> QED
      BY <3>1, <3>3, <3>4
  <2>2. ASSUME NEW r \in LlmRuns PROVE asked[r] <= 2 /\ (asked[r] = 2 => ~formats)
    BY <1>1 DEF Inv, LlmOK
  <2> QED
    BY <2>1, <2>2 DEF CallsWithinBudget
<1> QED
  BY <1>1, CallsInv, PTL

\* The row of a run records the requests that were paid.
THEOREM RecordsPaidCost == Spec => []RecordedCostWasPaid
<1>1. Inv => RecordedCostWasPaid
  BY DEF Inv, Recorded, RecordedCostWasPaid
<1> QED
  BY <1>1, CallsInv, PTL
=============================================================================
