--------------------------- MODULE WebClientProofs ---------------------------
(***************************************************************************)
(* The client follows a job on one way at a time and never says that it    *)
(* generates without a reason, for any number of projects, jobs and        *)
(* requests.                                                               *)
(***************************************************************************)
EXTENDS WebClient, TLAPS

PageOK ==
  /\ session \in BOOLEAN
  /\ route \in Pages /\ back \in Pages \ {"auth"}
  /\ shown \in Projects \cup {None} /\ load \in Projects \cup {None}
  /\ creating \in {"no", "waits", "asked"}

JobOK == job \in [Jobs -> [project : Projects \cup {None}, status : Statuses]]

OpOK == op \in [Ops -> {Idle} \cup Asked \cup Taken]

Polled == \E q \in polls : q.live

\* The hook's state is well formed, and of stream, timer and live polls there is at most one.
HookOK ==
  /\ generating \in BOOLEAN
  /\ source \in Jobs \cup {None} /\ timer \in Jobs \cup {None}
  /\ polls \subseteq [job : Jobs, live : BOOLEAN]
  /\ source # None => timer = None /\ ~Polled
  /\ timer # None => ~Polled
  /\ \A q, r \in polls : q.live /\ r.live => q = r

Followed == source # None \/ timer # None \/ Polled

Prepared == \E o \in Ops : op[o] # Idle /\ op[o].prepares

Inv == PageOK /\ JobOK /\ OpOK /\ HookOK /\ (generating => Followed \/ Prepared)

-----------------------------------------------------------------------------
(* What the parts of the hook keep.                                         *)

\* Stale polls are polls of the same jobs, none of them live.
LEMMA StaleKeeps ==
  ASSUME HookOK
  PROVE  Stale \subseteq [job : Jobs, live : BOOLEAN] /\ \A q \in Stale : ~q.live
BY DEF HookOK, Stale

\* After stopTransport nothing is followed.
LEMMA StopKeeps ==
  ASSUME HookOK, StopTransport, generating' \in BOOLEAN
  PROVE  HookOK'
BY StaleKeeps DEF HookOK, StopTransport, Polled

\* A watch follows its job and nothing else.
LEMMA WatchKeeps ==
  ASSUME HookOK, NEW j \in Jobs, Watch(j)
  PROVE  HookOK' /\ Followed'
BY StaleKeeps, ClientAssumption DEF HookOK, Watch, Polled, Followed

\* An answered poll is over; the job is polled again later.
LEMMA PollAgainKeeps ==
  ASSUME HookOK, NEW q \in polls, q.live, PollAgain(q)
  PROVE  HookOK' /\ Followed'
<1>1. ~Polled' /\ source = None /\ q.job \in Jobs
  BY DEF HookOK, PollAgain, Answered, Polled
<1> QED
  BY <1>1, ClientAssumption DEF HookOK, PollAgain, Answered, Followed

\* A poll that ends the watch leaves nothing that is followed.
LEMMA SettleKeeps ==
  ASSUME HookOK, NEW q \in polls, Settle(q)
  PROVE  HookOK' /\ ~generating'
<1>1. polls' \subseteq [job : Jobs, live : BOOLEAN] /\ \A r \in polls' : ~r.live
  BY DEF HookOK, Settle
<1> QED
  BY <1>1 DEF HookOK, Settle, Polled

\* A hook that is left alone keeps its state.
LEMMA HookFrame ==
  ASSUME HookOK, UNCHANGED hook
  PROVE  HookOK' /\ generating' = generating /\ (Followed => Followed')
BY DEF HookOK, hook, Polled, Followed

\* Another page is a page, and the hook is stopped.
LEMMA OpenKeeps ==
  ASSUME PageOK, HookOK, NEW r \in Pages, NEW signedIn \in BOOLEAN, Open(r, signedIn)
  PROVE  /\ HookOK' /\ ~generating'
         /\ route' \in Pages /\ back' \in Pages \ {"auth"}
         /\ shown' \in Projects \cup {None} /\ load' \in Projects \cup {None}
<1>1. HookOK' /\ ~generating'
  BY StopKeeps DEF Open, StopGenerating
<1>2. /\ route' \in Pages /\ back' \in Pages \ {"auth"}
      /\ shown' \in Projects \cup {None} /\ load' \in Projects \cup {None}
  BY DEF PageOK, Open, Allowed, Pages
<1> QED
  BY <1>1, <1>2

-----------------------------------------------------------------------------
(* The steps.                                                               *)

\* A step of the hook alone.
LEMMA HookStepKeeps ==
  ASSUME Inv,
         \/ StreamEnds \/ StreamBreaks \/ TimerFires
         \/ \E q \in polls : PollAnswered(q) \/ PollRefused(q) \/ PollFails(q) \/ PollIgnored(q)
  PROVE  Inv'
<1> USE DEF Inv
<1>1. PageOK' /\ JobOK' /\ OpOK' /\ (Prepared => Prepared')
  BY DEF StreamEnds, StreamBreaks, TimerFires, PollAnswered, PollRefused, PollFails, PollIgnored,
         page, PageOK, JobOK, OpOK, Prepared
<1>2. CASE StreamEnds
  BY <1>1, <1>2, StopKeeps DEF StreamEnds, StopGenerating
<1>3. CASE StreamBreaks
  <2>1. HookOK' /\ Followed'
    BY <1>3 DEF StreamBreaks, StartPolling, HookOK, Polled, Followed
  <2> QED
    BY <1>1, <2>1
<1>4. CASE TimerFires
  <2>1. timer \in Jobs /\ source = None /\ ~Polled
    BY <1>4 DEF TimerFires, HookOK
  <2> DEFINE q == [job |-> timer, live |-> TRUE]
  <2>2. q \in [job : Jobs, live : BOOLEAN] /\ q.live
    BY <2>1
  <2>3. polls' = polls \cup {q} /\ timer' = None /\ UNCHANGED <<source, generating>>
    BY <1>4 DEF TimerFires
  <2>4. \A p \in polls : ~p.live
    BY <2>1 DEF Polled
  <2> HIDE DEF q
  <2>5. HookOK' /\ Polled'
    BY <2>1, <2>2, <2>3, <2>4 DEF HookOK, Polled
  <2> QED
    BY <1>1, <2>5 DEF Followed
<1>5. ASSUME NEW q \in polls,
             PollAnswered(q) \/ PollRefused(q) \/ PollFails(q) \/ PollIgnored(q)
      PROVE  Inv'
  <2>1. CASE PollAgain(q) /\ q.live
    BY <1>1, <2>1, PollAgainKeeps
  <2>2. CASE Settle(q)
    BY <1>1, <2>2, SettleKeeps
  <2>3. CASE PollIgnored(q)
    <3>1. HookOK' /\ generating' = generating /\ (Followed => Followed')
      BY <2>3 DEF PollIgnored, Answered, HookOK, Polled, Followed
    <3> QED
      BY <1>1, <3>1
  <2> QED
    BY <1>5, <2>1, <2>2, <2>3 DEF PollAnswered, PollRefused, PollFails
<1> QED
  BY <1>2, <1>3, <1>4, <1>5

\* A change of page or session: the hook is stopped, told to watch, or left alone.
LEMMA PageStepKeeps ==
  ASSUME Inv,
         \/ \E r \in Pages : Navigate(r)
         \/ \E p \in Projects : ProjectCreated(p)
         \/ LoadEnds \/ Unauthorized \/ Logout \/ RequestAuthentication
         \/ CreateProject \/ FinishAuthentication \/ CreationFails
  PROVE  Inv'
<1> USE DEF Inv
<1>1. JobOK' /\ OpOK' /\ (Prepared => Prepared')
  BY DEF Navigate, ProjectCreated, LoadEnds, Unauthorized, Logout, RequestAuthentication,
         CreateProject, FinishAuthentication, CreationFails, JobOK, OpOK, Prepared
<1>2. ASSUME NEW r \in Pages, Navigate(r) PROVE Inv'
  <2>1. session \in BOOLEAN /\ Open(r, session) /\ session' = session
        /\ creating' \in {"no", "waits", "asked"}
    BY <1>2 DEF Navigate, PageOK
  <2> QED
    BY <1>1, <2>1, OpenKeeps DEF PageOK
<1>3. ASSUME NEW p \in Projects, ProjectCreated(p) PROVE Inv'
  <2>1. p \in Pages /\ session \in BOOLEAN /\ Open(p, session) /\ session' = session /\ creating' = "no"
    BY <1>3 DEF ProjectCreated, PageOK, Pages
  <2> QED
    BY <1>1, <2>1, OpenKeeps DEF PageOK
<1>4. CASE LoadEnds
  <2>1. PageOK'
    BY <1>4 DEF LoadEnds, PageOK
  <2>2. CASE \E j \in Jobs : Watch(j)
    BY <1>1, <2>1, <2>2, WatchKeeps
  <2>3. CASE UNCHANGED hook
    BY <1>1, <2>1, <2>3, HookFrame
  <2> QED
    BY <1>4, <2>2, <2>3 DEF LoadEnds
<1>5. CASE Unauthorized
  <2>1. PageOK'
    BY <1>5 DEF Unauthorized, PageOK, Pages
  <2>2. HookOK' /\ ~generating'
    BY <1>5, StopKeeps DEF Unauthorized, StopGenerating
  <2> QED
    BY <1>1, <2>1, <2>2
<1>6. CASE Logout
  <2>1. "home" \in Pages /\ Open("home", FALSE) /\ session' = FALSE
        /\ creating' \in {"no", "waits", "asked"}
    BY <1>6 DEF Logout, PageOK, Pages
  <2> QED
    BY <1>1, <2>1, OpenKeeps DEF PageOK
<1>7. CASE CreateProject
  <2>1. PageOK'
    BY <1>7 DEF CreateProject, PageOK, Pages
  <2>2. CASE UNCHANGED hook
    BY <1>1, <2>1, <2>2, HookFrame
  <2>3. CASE StopGenerating
    BY <1>1, <2>1, <2>3, StopKeeps DEF StopGenerating
  <2> QED
    BY <1>7, <2>2, <2>3 DEF CreateProject
<1>8. CASE FinishAuthentication
  <2>1. CASE creating = "waits"
    <3>1. PageOK' /\ StopGenerating
      BY <1>8, <2>1 DEF FinishAuthentication, PageOK
    <3> QED
      BY <1>1, <3>1, StopKeeps DEF StopGenerating
  <2>2. CASE creating # "waits"
    <3>1. back \in Pages /\ TRUE \in BOOLEAN /\ Open(back, TRUE) /\ session' = TRUE /\ creating' = creating
      BY <1>8, <2>2 DEF FinishAuthentication, PageOK
    <3> QED
      BY <1>1, <3>1, OpenKeeps DEF PageOK
  <2> QED
    BY <2>1, <2>2
<1>9. CASE CreationFails
  <2>1. PageOK' /\ UNCHANGED hook
    BY <1>9 DEF CreationFails, PageOK
  <2> QED
    BY <1>1, <2>1, HookFrame
<1>10. CASE RequestAuthentication
  <2>1. PageOK'
    BY <1>10 DEF RequestAuthentication, PageOK, Pages
  <2>2. HookOK' /\ ~generating'
    BY <1>10, StopKeeps DEF RequestAuthentication, StopGenerating
  <2> QED
    BY <1>1, <2>1, <2>2
<1> QED
  BY <1>2, <1>3, <1>4, <1>5, <1>6, <1>7, <1>8, <1>9, <1>10

\* A request for a job, from the click to its answer, and the end of the job.
LEMMA AskStepKeeps ==
  ASSUME Inv,
         \/ \E o \in Ops : AskStep(o) \/ \E prepares \in BOOLEAN : Ask(o, prepares)
         \/ \E j \in Jobs, status \in Statuses : JobEnds(j, status)
  PROVE  Inv'
<1> USE DEF Inv
<1>1. PageOK'
  BY DEF AskStep, Ask, Queued, AskAnswered, AskFails, JobEnds, page, PageOK
<1>2. ASSUME NEW o \in Ops, NEW prepares \in BOOLEAN, Ask(o, prepares) PROVE Inv'
  <2>1. OpOK' /\ JobOK' /\ op[o] = Idle
    BY <1>2 DEF Ask, OpOK, JobOK, Asked, PageOK
  <2>2. CASE prepares
    <3>1. HookOK'
      BY <1>2, <2>2, StopKeeps DEF Ask, Prepare
    <3>2. op'[o] # Idle /\ op'[o].prepares
      BY <1>2, <2>2 DEF Ask, Idle, OpOK
    <3> QED
      BY <1>1, <2>1, <3>1, <3>2 DEF Prepared
  <2>3. CASE ~prepares
    <3>1. HookOK' /\ ~generating'
      BY <1>2, <2>3, HookFrame DEF Ask
    <3> QED
      BY <1>1, <2>1, <3>1
  <2> QED
    BY <2>2, <2>3
<1>3. ASSUME NEW o \in Ops, NEW j \in Jobs, Queued(o, j) PROVE Inv'
  <2>1. op[o] \in Asked
    BY <1>3 DEF Queued, OpOK, Idle, Taken
  <2>2. op' = [op EXCEPT ![o] = [at |-> "queued", project |-> op[o].project,
                                 prepares |-> op[o].prepares, job |-> j]]
    BY <1>3, <2>1 DEF Queued, OpOK
  <2>3. OpOK' /\ op'[o] # Idle /\ op'[o].prepares = op[o].prepares
    BY <2>1, <2>2 DEF OpOK, Asked, Taken, Idle
  <2>4. JobOK'
    BY <1>3, <2>1 DEF Queued, JobOK, Asked, Statuses
  <2>5. Prepared => Prepared'
    <3>1. ASSUME NEW p \in Ops, op[p] # Idle, op[p].prepares PROVE Prepared'
      <4>1. CASE p = o
        BY <2>3, <3>1, <4>1 DEF Prepared
      <4>2. CASE p # o
        BY <2>2, <3>1, <4>2 DEF Prepared, OpOK
      <4> QED
        BY <4>1, <4>2
    <3> QED
      BY <3>1 DEF Prepared
  <2>6. HookOK' /\ generating' = generating /\ (Followed => Followed')
    BY <1>3, HookFrame DEF Queued
  <2> QED
    BY <1>1, <2>3, <2>4, <2>5, <2>6
<1>4. ASSUME NEW o \in Ops, AskAnswered(o) PROVE Inv'
  <2>1. op[o].job \in Jobs
    BY <1>4 DEF AskAnswered, OpOK, Idle, Asked, Taken
  <2>2. OpOK' /\ JobOK'
    BY <1>4 DEF AskAnswered, OpOK, JobOK
  <2> QED
    BY <1>1, <1>4, <2>1, <2>2, WatchKeeps DEF AskAnswered
<1>5. ASSUME NEW o \in Ops, AskFails(o) PROVE Inv'
  <2>1. OpOK' /\ JobOK'
    BY <1>5 DEF AskFails, OpOK, JobOK
  <2>2. CASE op[o].prepares
    BY <1>1, <1>5, <2>1, <2>2, StopKeeps DEF AskFails, StopGenerating
  <2>3. CASE ~op[o].prepares
    <3>1. HookOK' /\ generating' = generating /\ (Followed => Followed')
      BY <1>5, <2>3, HookFrame DEF AskFails
    <3>2. Prepared => Prepared'
      BY <1>5, <2>3 DEF AskFails, Prepared, OpOK
    <3> QED
      BY <1>1, <2>1, <3>1, <3>2
  <2> QED
    BY <2>2, <2>3
<1>6. ASSUME NEW j \in Jobs, NEW status \in Statuses, JobEnds(j, status) PROVE Inv'
  <2>1. JobOK' /\ OpOK' /\ (Prepared => Prepared')
    BY <1>6 DEF JobEnds, JobOK, OpOK, Prepared
  <2>2. HookOK' /\ generating' = generating /\ (Followed => Followed')
    BY <1>6, HookFrame DEF JobEnds
  <2> QED
    BY <1>1, <2>1, <2>2
<1> QED
  BY <1>2, <1>3, <1>4, <1>5, <1>6 DEF AskStep

-----------------------------------------------------------------------------
\* The invariant holds in every state the client reaches.
THEOREM InvHolds == Spec => []Inv
<1>1. Init => Inv
  <2> SUFFICES ASSUME Init PROVE Inv
    OBVIOUS
  <2>1. PageOK
    BY DEF Init, PageOK, Pages
  <2>2. Free \in [project : Projects \cup {None}, status : Statuses]
    BY DEF Free, Statuses
  <2>3. JobOK /\ OpOK
    BY <2>2 DEF Init, JobOK, OpOK
  <2>4. HookOK /\ ~generating
    BY DEF Init, HookOK, Polled
  <2> QED
    BY <2>1, <2>3, <2>4 DEF Inv
<1>2. Inv /\ [Next]_vars => Inv'
  <2> SUFFICES ASSUME Inv, [Next]_vars PROVE Inv'
    OBVIOUS
  <2>1. CASE UNCHANGED vars
    BY <2>1 DEF vars, Inv, PageOK, JobOK, OpOK, HookOK, Polled, Followed, Prepared
  <2>2. CASE Next
    BY <2>2, HookStepKeeps, PageStepKeeps, AskStepKeeps DEF Next, Reply
  <2> QED
    BY <2>1, <2>2
<1> QED
  BY <1>1, <1>2, PTL DEF Spec

\* Every variable of the client keeps its type, whatever screens and answers cross.
THEOREM ClientTypeCorrect == Spec => []TypeOK
<1>1. Inv => TypeOK
  BY DEF Inv, PageOK, JobOK, OpOK, HookOK, TypeOK
<1> QED
  BY <1>1, InvHolds, PTL

\* A job is followed on one way at a time (stopTransport, useGenerationJob).
THEOREM FollowsOneWay == Spec => []OneTransport
<1>1. ASSUME Inv PROVE OneTransport
  <2> SUFFICES ASSUME NEW t \in Live, NEW u \in Live PROVE t = u
    BY DEF OneTransport
  <2>1. \A v \in Live :
          \/ v = <<"stream", source>> /\ source # None
          \/ v = <<"timer", timer>> /\ timer # None
          \/ \E q \in polls : q.live /\ v = <<"poll", q.job>>
    BY DEF Live, Transports
  <2> QED
    BY <1>1, <2>1 DEF Inv, HookOK, Polled
<1> QED
  BY <1>1, InvHolds, PTL

\* A page that says it generates follows a job or has asked for one.
THEOREM GeneratesForACause == Spec => []GeneratingHasCause
<1>1. ASSUME Inv PROVE GeneratingHasCause
  <2>1. Followed => Live # {}
    <3>1. source # None => <<"stream", source>> \in Live
      BY DEF Live, Transports
    <3>2. timer # None => <<"timer", timer>> \in Live
      BY DEF Live, Transports
    <3>3. ASSUME NEW q \in polls, q.live PROVE <<"poll", q.job>> \in Live
      BY <1>1, <3>3, ClientAssumption DEF Inv, HookOK, Live, Transports
    <3> QED
      BY <3>1, <3>2, <3>3 DEF Followed, Polled
  <2> QED
    BY <1>1, <2>1 DEF Inv, Prepared, GeneratingHasCause
<1> QED
  BY <1>1, InvHolds, PTL
=============================================================================
