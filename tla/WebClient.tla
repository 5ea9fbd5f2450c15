----------------------------- MODULE WebClient -----------------------------
(***************************************************************************)
(* The web client (App.tsx) and the hook that follows a generation job     *)
(* (useGenerationJob.ts): by the job's event stream, and by polling when   *)
(* the stream fails.  Requests of screens that are gone go on, and their   *)
(* answers still reach the hook.                                           *)
(*                                                                         *)
(* The hook numbers its watches with a token; a callback whose token is no *)
(* longer the current one does nothing.  Here a poll request is live until *)
(* stopTransport makes it stale.  The server is a table of jobs.           *)
(***************************************************************************)
EXTENDS Naturals

CONSTANTS Projects, Jobs,
          Ops,  \* requests for a job that may be pending at once
          None

ASSUME ClientAssumption == None \notin Jobs \cup Projects

VARIABLES job,        \* the server's jobs
          session,    \* is the client signed in
          route, back, \* the page, and where a sign-in returns to (authReturn)
          shown,      \* the project held by the page
          load,       \* the project being opened
          creating,   \* a project is being created, or its input waits for a sign-in
          op,         \* requests for a job
          generating, \* what the hook tells the page
          source, timer, polls \* the hook's event stream, poll timer and poll requests

vars == <<job, session, route, back, shown, load, creating, op, generating, source, timer, polls>>
page == <<session, route, back, shown, load, creating>>
hook == <<generating, source, timer, polls>>

Free == [project |-> None, status |-> "free"]
Statuses == {"free", "active", "succeeded", "failed"}
Idle == [at |-> "idle"]
Pages == {"home", "auth"} \cup Projects
Asked == [at : {"asked"}, project : Projects, prepares : BOOLEAN]
Taken == [at : {"queued"}, project : Projects, prepares : BOOLEAN, job : Jobs]

TypeOK ==
  /\ job \in [Jobs -> [project : Projects \cup {None}, status : Statuses]]
  /\ session \in BOOLEAN /\ generating \in BOOLEAN
  /\ route \in Pages /\ back \in Pages \ {"auth"}
  /\ shown \in Projects \cup {None} /\ load \in Projects \cup {None}
  /\ creating \in {"no", "waits", "asked"}
  /\ op \in [Ops -> {Idle} \cup Asked \cup Taken]
  /\ source \in Jobs \cup {None} /\ timer \in Jobs \cup {None}
  /\ polls \subseteq [job : Jobs, live : BOOLEAN]

Init ==
  /\ job = [j \in Jobs |-> Free]
  /\ session \in BOOLEAN
  /\ route = "home" /\ back = "home"
  /\ shown = None /\ load = None
  /\ creating = "no"
  /\ op = [o \in Ops |-> Idle]
  /\ generating = FALSE
  /\ source = None /\ timer = None /\ polls = {}

ActiveJobs(p) == {j \in Jobs : job[j].project = p /\ job[j].status = "active"}

-----------------------------------------------------------------------------
(* The hook.                                                                *)

Stale == {[q EXCEPT !.live = FALSE] : q \in polls}

StopTransport == source' = None /\ timer' = None /\ polls' = Stale

\* reset, failPreparation and settle all end this way.
StopGenerating == StopTransport /\ generating' = FALSE

Prepare == StopTransport /\ generating' = TRUE

\* Variant for OneTransport: the watch before is left as it is.
WatchToo(j) == source' = j /\ UNCHANGED <<timer, polls>> /\ generating' = TRUE

Watch(j) == source' = j /\ timer' = None /\ polls' = Stale /\ generating' = TRUE

\* Instead of the stream: the job is polled after a delay.
StartPolling(j) == source' = None /\ timer' = j /\ UNCHANGED <<polls, generating>>

StreamEnds ==
  /\ source # None /\ job[source].status \in {"succeeded", "failed"}
  /\ StopGenerating
  /\ UNCHANGED <<job, page, op>>

\* The connection breaks, or brings an event that cannot be read.
StreamBreaks ==
  /\ source # None
  /\ StartPolling(source)
  /\ UNCHANGED <<job, page, op>>

TimerFires ==
  /\ timer # None
  /\ polls' = polls \cup {[job |-> timer, live |-> TRUE]}
  /\ timer' = None
  /\ UNCHANGED <<job, page, op, generating, source>>

Answered(q) == polls' = polls \ {q}

PollAgain(q) == Answered(q) /\ timer' = q.job /\ UNCHANGED <<generating, source>>

\* settle, by the answer of a poll: that poll is over, the others are stale.
Settle(q) ==
  /\ source' = None /\ timer' = None
  /\ polls' = {[r EXCEPT !.live = FALSE] : r \in polls \ {q}}
  /\ generating' = FALSE

\* Variant for GeneratingEnds: a failed job is polled again.
PollUntilSuccess(q) ==
  /\ q \in polls /\ q.live
  /\ job[q.job].status # "free"
  /\ IF job[q.job].status = "succeeded" THEN Settle(q) ELSE PollAgain(q)
  /\ UNCHANGED <<job, page, op>>

PollAnswered(q) ==
  /\ q \in polls /\ q.live
  /\ job[q.job].status # "free"
  /\ IF job[q.job].status = "active" THEN PollAgain(q) ELSE Settle(q)
  /\ UNCHANGED <<job, page, op>>

\* The network or the server fails: the job is polled again, after a longer delay.
PollFails(q) ==
  /\ q \in polls /\ q.live
  /\ PollAgain(q)
  /\ UNCHANGED <<job, page, op>>

\* The job is gone or another's.
PollRefused(q) ==
  /\ q \in polls /\ q.live
  /\ Settle(q)
  /\ UNCHANGED <<job, page, op>>

PollIgnored(q) ==
  /\ q \in polls /\ ~q.live
  /\ Answered(q)
  /\ UNCHANGED <<job, page, op, generating, source, timer>>

-----------------------------------------------------------------------------
(* Pages.  Every change of route or session resets the hook, cancels what   *)
(* the page before was loading and opens the new page.                      *)

\* Without a session a project's page turns into the sign-in.
Allowed(r, signedIn) == r \in {"home", "auth"} \/ signedIn

Open(r, signedIn) ==
  /\ route' = IF Allowed(r, signedIn) THEN r ELSE "auth"
  /\ back' = IF Allowed(r, signedIn) THEN back ELSE r
  /\ load' = IF Allowed(r, signedIn) /\ r \in Projects THEN r ELSE None
  /\ shown' = IF Allowed(r, signedIn) /\ r \in Projects THEN shown ELSE None
  /\ StopGenerating

Navigate(r) ==
  /\ r # "auth"
  /\ Open(r, session)
  /\ creating' = IF creating = "waits" THEN "no" ELSE creating
  /\ UNCHANGED <<job, session, op>>

\* The answers: the project, or none; a job that was active when they were sent, or none.
LoadEnds ==
  /\ load # None
  /\ load' = None
  /\ \/ shown' = load /\ \E j \in Jobs : job[j].project = load /\ Watch(j)
     \/ shown' \in {load, None} /\ UNCHANGED hook
  /\ UNCHANGED <<job, session, route, back, creating, op>>

\* A request is answered 401; a refused project waits for the sign-in.
Unauthorized ==
  /\ \/ /\ load # None \/ polls # {} \/ \E o \in Ops : op[o] # Idle
        /\ back' = IF route = "auth" THEN back ELSE route
        /\ UNCHANGED creating
     \/ creating = "asked" /\ creating' = "waits" /\ back' = "home"
  /\ session' = FALSE
  /\ route' = "auth"
  /\ load' = None /\ shown' = None
  /\ StopGenerating
  /\ UNCHANGED <<job, op>>

Logout ==
  /\ session
  /\ session' = FALSE
  /\ creating' = IF creating = "waits" THEN "no" ELSE creating
  /\ Open("home", FALSE)
  /\ UNCHANGED <<job, op>>

\* A click on the sign-in, or on something that needs it.
RequestAuthentication ==
  /\ ~session /\ route # "auth"
  /\ route' = "auth" /\ back' = route /\ load' = None /\ shown' = None
  /\ StopGenerating
  /\ UNCHANGED <<job, session, creating, op>>

\* Input typed while signed out waits for the sign-in and is sent after it.
CreateProject ==
  /\ creating = "no" /\ route # "auth"
  /\ IF session
     THEN creating' = "asked" /\ UNCHANGED <<route, back, shown, load, hook>>
     ELSE /\ creating' = "waits"
          /\ route' = "auth" /\ back' = "home" /\ shown' = None /\ load' = None
          /\ StopGenerating
  /\ UNCHANGED <<job, session, op>>

FinishAuthentication ==
  /\ ~session /\ route = "auth"
  /\ session' = TRUE
  /\ IF creating = "waits"
     THEN creating' = "asked" /\ UNCHANGED <<route, back, shown, load>> /\ StopGenerating
     ELSE Open(back, TRUE) /\ UNCHANGED creating
  /\ UNCHANGED <<job, op>>

\* The answer opens the new project, wherever the writer is by then.
ProjectCreated(p) ==
  /\ creating = "asked"
  /\ \A j \in Jobs : job[j].project # p
  /\ creating' = "no"
  /\ Open(p, session)
  /\ UNCHANGED <<job, session, op>>

\* On the sign-in page the input goes on waiting, for another attempt.
CreationFails ==
  /\ creating = "asked"
  /\ creating' = IF route = "auth" THEN "waits" ELSE "no"
  /\ UNCHANGED <<job, session, route, back, shown, load, op, hook>>

-----------------------------------------------------------------------------
(* Requests for a job.  generate announces itself to the hook before it     *)
(* asks; generateStage and confirmStage do not.                             *)

Ask(o, prepares) ==
  /\ op[o] = Idle
  /\ session /\ shown # None /\ load = None /\ route \in Projects /\ ~generating
  /\ op' = [op EXCEPT ![o] = [at |-> "asked", project |-> shown, prepares |-> prepares]]
  /\ IF prepares THEN Prepare ELSE UNCHANGED hook
  /\ UNCHANGED <<job, page>>

\* The server takes the request; it may be long before the client hears of it.
Queued(o, j) ==
  /\ op[o].at = "asked"
  /\ ActiveJobs(op[o].project) = {} /\ job[j] = Free
  /\ job' = [job EXCEPT ![j] = [project |-> op[o].project, status |-> "active"]]
  /\ op' = [op EXCEPT ![o] = [at |-> "queued", project |-> @.project, prepares |-> @.prepares, job |-> j]]
  /\ UNCHANGED <<page, hook>>

AskAnswered(o) ==
  /\ op[o].at = "queued"
  /\ Watch(op[o].job)
  /\ op' = [op EXCEPT ![o] = Idle]
  /\ UNCHANGED <<job, page>>

\* Variant for GeneratingHasCause: a refusal does not reach the hook.
AskFailsUntold(o) ==
  /\ op[o] # Idle
  /\ op' = [op EXCEPT ![o] = Idle]
  /\ UNCHANGED <<job, page, hook>>

\* A refusal, a failed verification, a lost answer; a confirmed last stage queues nothing.
AskFails(o) ==
  /\ op[o] # Idle
  /\ IF op[o].prepares THEN StopGenerating ELSE UNCHANGED hook
  /\ op' = [op EXCEPT ![o] = Idle]
  /\ UNCHANGED <<job, page>>

\* The server's worker.
JobEnds(j, status) ==
  /\ job[j].status = "active"
  /\ status \in {"succeeded", "failed"}
  /\ job' = [job EXCEPT ![j].status = status]
  /\ UNCHANGED <<page, op, hook>>

-----------------------------------------------------------------------------
AskStep(o) == (\E j \in Jobs : Queued(o, j)) \/ AskAnswered(o) \/ AskFails(o)
Reply(q) == PollAnswered(q) \/ PollRefused(q)

Next ==
  \/ StreamEnds \/ StreamBreaks \/ TimerFires
  \/ \E q \in polls : Reply(q) \/ PollFails(q) \/ PollIgnored(q)
  \/ \E r \in Pages : Navigate(r)
  \/ LoadEnds \/ Unauthorized \/ Logout \/ RequestAuthentication
  \/ CreateProject \/ FinishAuthentication \/ CreationFails
  \/ \E p \in Projects : ProjectCreated(p)
  \/ \E o \in Ops : AskStep(o) \/ \E prepares \in BOOLEAN : Ask(o, prepares)
  \/ \E j \in Jobs, status \in Statuses : JobEnds(j, status)

Spec == Init /\ [][Next]_vars

\* Requests end and timers fire; a job ends (ActiveJobEnds of GenerationJobs) and its open stream
\* says so; of the polls sent again and again some get an answer.
FairSpec ==
  /\ Spec
  /\ WF_vars(StreamEnds) /\ WF_vars(TimerFires)
  /\ \A o \in Ops : WF_vars(AskStep(o))
  /\ \A j \in Jobs : WF_vars(\E status \in Statuses : JobEnds(j, status))
  /\ \A j \in Jobs : SF_vars(Reply([job |-> j, live |-> TRUE]))

-----------------------------------------------------------------------------
(* Properties.                                                               *)

Transports ==
  {<<"stream", source>>, <<"timer", timer>>} \cup {<<"poll", q.job>> : q \in {r \in polls : r.live}}
Live == {t \in Transports : t[2] # None}

\* A job is followed on one way at a time: no page change, late answer or broken stream leaves a
\* second stream, timer or poll behind that could settle a watch that is not its own.
OneTransport == \A t, u \in Live : t = u

\* A page that says it generates has a job it follows, or a request for one that will be answered.
GeneratingHasCause ==
  generating => Live # {} \/ \E o \in Ops : op[o] # Idle /\ op[o].prepares

\* A page does not say so for ever: the job's end, a failure or a change of page reaches it.
GeneratingEnds == generating ~> ~generating

=============================================================================
