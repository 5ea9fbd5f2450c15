---------------------------- MODULE ProjectAccess ----------------------------
(***************************************************************************)
(* Who may start a generation, how long a project lives, and what cleans   *)
(* it up: challenges, tickets and quotas (AbuseProtectionService), the     *)
(* requests on projects (ProjectsService) and the daily cleanup            *)
(* (ProjectRetentionService).                                              *)
(*                                                                         *)
(* Challenges used, tickets and rate windows live in the memory of the API *)
(* process and die with it; projects, jobs and quotas are rows.  All       *)
(* visitors share one address.  A job is only the state of its row.        *)
(***************************************************************************)
EXTENDS Naturals, Sequences, FiniteSets

CONSTANTS Visitors, Projects, Challenges, Requests,
          RealGeneration,    \* the provider is a real one, not the demo
          ProjectLimit, IpProjectLimit,
          VisitorLimit, IpLimit, DayLimit, MonthLimit,
          RateLimit,         \* challenges per window
          ChallengeLife, UsedLife, TicketLife, WindowLife, \* in ticks of the clock
          UsedCap, TicketCap,
          DayLength,
          MaxAttempts,       \* SERIALIZABLE_TRANSACTION_MAX_ATTEMPTS
          MaxTickets, MaxClock, MaxRestarts   \* bounds of the model

ASSUME LimitsAssumption ==
  /\ {ProjectLimit, IpProjectLimit, VisitorLimit, IpLimit, DayLimit, MonthLimit, RateLimit,
      UsedCap, TicketCap, DayLength, MaxAttempts} \subseteq Nat \ {0}
  /\ {ChallengeLife, UsedLife, TicketLife, WindowLife, MaxTickets, MaxClock, MaxRestarts} \subseteq Nat
  /\ ChallengeLife <= UsedLife
  /\ RealGeneration \in BOOLEAN

VARIABLES project,    \* the row, with the state of its newest job
          challenge,  \* what was issued
          window,     \* per visitor: challenges asked for since `start`
          used,       \* usedChallenges
          tickets,    \* generation tickets; `nr` is the place in either map's insertion order
          quota,      \* the four counters and the projects created
          request,    \* where a request stands between two awaits
          cleaner,    \* the projects a running cleanup has selected
          clock, restarts,
          issued, grants, started, marked
               \* history: tickets issued, reservations committed, jobs queued by tickets,
               \* and the solutions honoured since the process started

vars == <<project, challenge, window, used, tickets, quota, request, cleaner,
          clock, restarts, issued, grants, started, marked>>
memory == <<window, used, tickets>>
time == <<clock, restarts>>
history == <<issued, grants, started, marked>>

None == [state |-> "none", owner |-> "nobody", expired |-> FALSE, job |-> "none"]
Idle == [pc |-> "idle"]
NoChallenge == [project |-> "nothing"]
ActiveJobs == {"active", "lost"}      \* QUEUED, RUNNING or RETRYING; lost: the queue gave it up

\* chinaDateKey; the days of a run lie in one month.
day == clock \div DayLength
Days == 0..(MaxClock \div DayLength)

UsedEntries == [key : Challenges, nr : 1..MaxTickets, until : Nat]
Tickets == [nr : 1..MaxTickets, project : Projects, visitor : Visitors, until : Nat]
Grants == [ticket : 1..MaxTickets, visitor : Visitors, day : Days]
Starts == [ticket : 1..MaxTickets, again : BOOLEAN, attempt : 0..MaxAttempts]

ProjectType == [state : {"none", "live", "gone"}, owner : Visitors \cup {"nobody"},
                expired : BOOLEAN, job : ActiveJobs \cup {"none", "ended"}]
ChallengeType == {NoChallenge} \cup [project : Projects, visitor : Visitors, until : Nat]
WindowType == [start : 0..MaxClock, count : 0..RateLimit]
QuotaType == [visitor : [Visitors -> [Days -> Nat]], ip : [Days -> Nat], day : [Days -> Nat],
              month : Nat, created : [Days -> Nat]]
Reservations == [pc : {"reserve", "inner", "late", "commit"}, again : BOOLEAN,
                 ticket : 1..MaxTickets, project : Projects, visitor : Visitors,
                 day : Days, attempt : 0..MaxAttempts]
RequestType == {Idle} \cup [pc : {"verify"}, challenge : Challenges] \cup Reservations

TypeOK ==
  /\ project \in [Projects -> ProjectType]
  /\ challenge \in [Challenges -> ChallengeType]
  /\ window \in [Visitors -> WindowType]
  /\ used \subseteq UsedEntries /\ tickets \subseteq Tickets
  /\ quota \in QuotaType
  /\ request \in [Requests -> RequestType]
  /\ \A r \in Requests :
       /\ request[r].pc = "verify" => challenge[request[r].challenge] # NoChallenge
       /\ request[r].pc \in {"inner", "late", "commit"} => request[r].again
  /\ cleaner \subseteq Projects
  /\ clock \in 0..MaxClock /\ restarts \in 0..MaxRestarts
  /\ issued \in 0..MaxTickets /\ grants \in Seq(Grants) /\ started \in Seq(Starts)
  /\ marked \subseteq Challenges

Init ==
  /\ project = [p \in Projects |-> None]
  /\ challenge = [c \in Challenges |-> NoChallenge]
  /\ window = [v \in Visitors |-> [start |-> 0, count |-> 0]]
  /\ used = {} /\ tickets = {}
  /\ quota = [visitor |-> [v \in Visitors |-> [d \in Days |-> 0]],
              ip |-> [d \in Days |-> 0], day |-> [d \in Days |-> 0], month |-> 0,
              created |-> [d \in Days |-> 0]]
  /\ request = [r \in Requests |-> Idle]
  /\ cleaner = {}
  /\ clock = 0 /\ restarts = 0
  /\ issued = 0 /\ grants = <<>> /\ started = <<>> /\ marked = {}

-----------------------------------------------------------------------------
(* Maps with an expiry and a capacity.                                      *)

Visible(v, p) == project[p].state = "live" /\ project[p].owner = v /\ ~project[p].expired

\* Variant for HonouredIsRemembered: entries are dropped half-way through their life.
UnexpiredForLong(S) == {e \in S : e.until > clock + 1}

Unexpired(S) == {e \in S : e.until >= clock}
FreshWindow(w) == IF w.start + WindowLife < clock THEN [start |-> 0, count |-> 0] ELSE w
PurgedWindows == [v \in Visitors |-> FreshWindow(window[v])]

\* capMap: the oldest entries go.
Newest(S, n) == {e \in S : Cardinality({f \in S : f.nr > e.nr}) < n}

\* Map.set keeps the place of a key that is there.
HasKey(S, k) == \E e \in S : e.key = k
Place(S, k) == IF HasKey(S, k) THEN (CHOOSE e \in S : e.key = k).nr ELSE issued + 1
Put(S, k, until) == {e \in S : e.key # k} \cup {[key |-> k, nr |-> Place(S, k), until |-> until]}

\* Variant for TicketGrantsOnce: a ticket stays until it expires.
WithoutNone(S, k) == S

Without(S, k) == {e \in S : e.nr # k}

-----------------------------------------------------------------------------
(* Projects.                                                                *)

Owned(v) == {p \in Projects : Visible(v, p)}

BelowProjectLimits(v) ==
  /\ Cardinality(Owned(v)) < ProjectLimit
  /\ quota.created[day] < IpProjectLimit

\* Reservations whose transaction has raised the counters and not ended: their rows
\* are locked. All reservations raise the row of the month, a project that of the
\* address and the day.
OpenReservations == {r \in Requests : RealGeneration /\ request[r].pc \in {"inner", "commit"}}

CreateProject(v, p) ==
  /\ project[p] = None
  /\ \A r \in OpenReservations : request[r].day # day
  /\ BelowProjectLimits(v)
  /\ project' = [project EXCEPT ![p] = [None EXCEPT !.state = "live", !.owner = v]]
  /\ quota' = [quota EXCEPT !.created[day] = @ + 1]
  /\ UNCHANGED <<challenge, memory, request, cleaner, time, history>>

RemoveProject(v, p) ==
  /\ Visible(v, p)
  /\ project[p].job \notin ActiveJobs
  /\ project' = [project EXCEPT ![p].state = "gone"]
  /\ UNCHANGED <<challenge, memory, quota, request, cleaner, time, history>>

-----------------------------------------------------------------------------
(* Challenges and tickets.                                                  *)

CreateChallenge(v, p, c) ==
  /\ Visible(v, p)
  /\ challenge[c] = NoChallenge
  /\ PurgedWindows[v].count < RateLimit
  /\ window' = [PurgedWindows EXCEPT
       ![v] = [start |-> IF @.count = 0 THEN clock ELSE @.start, count |-> @.count + 1]]
  /\ used' = Unexpired(used) /\ tickets' = Unexpired(tickets)
  /\ challenge' = [challenge EXCEPT
       ![c] = [project |-> p, visitor |-> v, until |-> clock + ChallengeLife]]
  /\ UNCHANGED <<project, quota, request, cleaner, time, history>>

\* The lookup before the await; the request that finds the challenge used ends here.
BeginAuthorize(r, v, p, c) ==
  /\ request[r] = Idle
  /\ Visible(v, p)
  /\ challenge[c] # NoChallenge
  /\ used' = Unexpired(used) /\ tickets' = Unexpired(tickets) /\ window' = PurgedWindows
  /\ request' = IF HasKey(used', c) \/ challenge[c].project # p \/ challenge[c].visitor # v
                THEN request
                ELSE [request EXCEPT ![r] = [pc |-> "verify", challenge |-> c]]
  /\ UNCHANGED <<project, challenge, quota, cleaner, time, history>>

\* After the await: the solution is marked and a ticket handed out. A wrong or late
\* solution ends the request (RequestFails).
FinishAuthorize(r) ==
  LET c == request[r].challenge IN
  /\ request[r].pc = "verify"
  /\ clock <= challenge[c].until
  /\ issued < MaxTickets
  /\ used' = Newest(Put(used, c, clock + UsedLife), UsedCap)
  /\ tickets' = Newest(tickets \cup
       {[nr |-> issued + 1, project |-> challenge[c].project, visitor |-> challenge[c].visitor,
         until |-> clock + TicketLife]}, TicketCap)
  /\ request' = [request EXCEPT ![r] = Idle]
  /\ issued' = issued + 1
  /\ marked' = marked \cup {c}
  /\ UNCHANGED <<project, challenge, window, quota, cleaner, time, grants, started>>

\* enqueue and regenerateStage bring a ticket. It leaves the map whatever comes of it;
\* the day is read before the transaction.
ConsumeTicket(r, v, p, k, again) ==
  LET held == Unexpired(tickets) IN
  /\ request[r] = Idle
  /\ \E e \in tickets : e.nr = k
  /\ tickets' = Without(held, k)
  /\ used' = Unexpired(used) /\ window' = PurgedWindows
  /\ request' = IF \E e \in held : e.nr = k /\ e.project = p /\ e.visitor = v
                THEN [request EXCEPT ![r] = [pc |-> "reserve", again |-> again, ticket |-> k,
                                             project |-> p, visitor |-> v, day |-> day,
                                             attempt |-> 0]]
                ELSE request
  /\ UNCHANGED <<project, challenge, quota, cleaner, time, history>>

-----------------------------------------------------------------------------
(* The serializable transactions that raise the quotas and queue the job.    *)

Raised(v, d) == [quota EXCEPT !.visitor[v][d] = @ + 1, !.ip[d] = @ + 1,
                              !.day[d] = @ + 1, !.month = @ + 1]
WithinLimits(q, v, d) ==
  /\ q.visitor[v][d] <= VisitorLimit
  /\ q.ip[d] <= IpLimit
  /\ q.day[d] <= DayLimit
  /\ q.month <= MonthLimit

CanQueue(v, p) == Visible(v, p) /\ project[p].job \notin ActiveJobs

\* No other reservation holds the rows, and the raised counters are within their limits.
CanReserve(q) ==
  /\ OpenReservations = {}
  /\ RealGeneration => WithinLimits(Raised(q.visitor, q.day), q.visitor, q.day)

Count(q) ==
  /\ quota' = IF RealGeneration THEN Raised(q.visitor, q.day) ELSE quota
  /\ grants' = Append(grants, [ticket |-> q.ticket, visitor |-> q.visitor, day |-> q.day])

Start(q) ==
  /\ project' = [project EXCEPT ![q.project].job = "active"]
  /\ started' = Append(started, [ticket |-> q.ticket, again |-> q.again, attempt |-> q.attempt])

\* enqueue: one transaction raises the counters and queues the job.
Reserve(r) ==
  LET q == request[r] IN
  /\ q.pc = "reserve" /\ ~q.again
  /\ CanReserve(q) /\ CanQueue(q.visitor, q.project)
  /\ Count(q) /\ Start(q)
  /\ request' = [request EXCEPT ![r] = Idle]
  /\ UNCHANGED <<challenge, memory, cleaner, time, issued, marked>>

\* regenerateStage: the transaction of the counters raises them and stays open while
\* its callback runs another transaction.
OpenReservation(r) ==
  /\ request[r].pc = "reserve" /\ request[r].again
  /\ CanReserve(request[r])
  /\ request' = [request EXCEPT ![r].pc = "inner"]
  /\ UNCHANGED <<project, challenge, memory, quota, cleaner, time, history>>

\* Prisma rolls the open transaction back after its time limit; the callback goes on.
ReservationExpires(r) ==
  /\ request[r].pc = "inner"
  /\ request' = [request EXCEPT ![r].pc = "late"]
  /\ UNCHANGED <<project, challenge, memory, quota, cleaner, time, history>>

\* The inner transaction commits the job. The request whose outer transaction is gone
\* fails all the same.
Regenerate(r) ==
  LET q == request[r] IN
  /\ q.pc \in {"inner", "late"}
  /\ CanQueue(q.visitor, q.project) /\ project[q.project].job = "ended"
  /\ Start(q)
  /\ request' = [request EXCEPT ![r] = IF q.pc = "inner" THEN [q EXCEPT !.pc = "commit"]
                                       ELSE Idle]
  /\ UNCHANGED <<challenge, memory, quota, cleaner, time, issued, grants, marked>>

\* The outer transaction commits the counters after the job.
CommitReservation(r) ==
  /\ request[r].pc = "commit"
  /\ Count(request[r])
  /\ request' = [request EXCEPT ![r] = Idle]
  /\ UNCHANGED <<project, challenge, memory, cleaner, time, issued, started, marked>>

\* PostgreSQL aborts it instead: the counters roll back, the job stays, and the retry
\* begins the whole reservation again. A conflict before the job is queued changes
\* nothing but the attempts that are left.
RetryReservation(r) ==
  /\ RealGeneration
  /\ request[r].pc = "commit" /\ request[r].attempt + 1 < MaxAttempts
  /\ request' = [request EXCEPT ![r].pc = "reserve", ![r].attempt = @ + 1]
  /\ UNCHANGED <<project, challenge, memory, quota, cleaner, time, history>>

\* Variant for QuotasCountGrants: a refusal keeps what was raised before it.
RequestFailsCounted(r) ==
  /\ request[r].pc = "reserve"
  /\ quota' = Raised(request[r].visitor, request[r].day)
  /\ request' = [request EXCEPT ![r] = Idle]
  /\ UNCHANGED <<project, challenge, memory, cleaner, time, history>>

\* A refusal by a counter or by the operation, a conflict that lasts, a wrong solution, a
\* time limit: the transaction that is open rolls back and the request ends. What an
\* inner transaction has committed stays.
RequestFails(r) ==
  /\ request[r] # Idle
  /\ request' = [request EXCEPT ![r] = Idle]
  /\ UNCHANGED <<project, challenge, memory, quota, cleaner, time, history>>

\* Confirming a stage takes no ticket and queues the job of the next one.
QueueFollowing(v, p) ==
  /\ CanQueue(v, p) /\ project[p].job = "ended"
  /\ project' = [project EXCEPT ![p].job = "active"]
  /\ UNCHANGED <<challenge, memory, quota, request, cleaner, time, history>>

-----------------------------------------------------------------------------
(* Jobs end, are lost by the queue, and a lost one is ended by its reader.    *)

JobTo(p, from, to) ==
  /\ project[p].state = "live" /\ project[p].job = from
  /\ project' = [project EXCEPT ![p].job = to]
  /\ UNCHANGED <<challenge, memory, quota, request, cleaner, time, history>>

JobEnds(p) == JobTo(p, "active", "ended")
JobLost(p) == JobTo(p, "active", "lost")
ReadJob(v, p) == Visible(v, p) /\ JobTo(p, "lost", "ended")

-----------------------------------------------------------------------------
(* Cleanup: one statement at READ COMMITTED, which selects and then deletes.  *)

\* Variant for ActiveJobKeepsProject: expiry is all that counts.
DeletableAnyway(p) == project[p].state = "live" /\ project[p].expired

Deletable(p) == /\ project[p].state = "live" /\ project[p].expired
                /\ project[p].job \notin ActiveJobs

SelectExpired ==
  /\ cleaner = {}
  /\ cleaner' = {p \in Projects : Deletable(p)}
  /\ cleaner' # {}
  /\ UNCHANGED <<project, challenge, memory, quota, request, time, history>>

DeleteSelected ==
  /\ cleaner # {}
  /\ project' = [p \in Projects |-> IF p \in cleaner THEN [project[p] EXCEPT !.state = "gone"]
                                    ELSE project[p]]
  /\ cleaner' = {}
  /\ UNCHANGED <<challenge, memory, quota, request, time, history>>

-----------------------------------------------------------------------------
(* Time and restarts.                                                        *)

Expire(p) ==
  /\ project[p].state = "live" /\ ~project[p].expired
  /\ project' = [project EXCEPT ![p].expired = TRUE]
  /\ UNCHANGED <<challenge, memory, quota, request, cleaner, time, history>>

Tick == /\ clock < MaxClock /\ clock' = clock + 1
        /\ UNCHANGED <<project, challenge, memory, quota, request, cleaner, restarts, history>>

\* The selected projects of a running statement are not deleted.
Restart ==
  /\ restarts < MaxRestarts /\ restarts' = restarts + 1
  /\ used' = {} /\ tickets' = {}
  /\ window' = [v \in Visitors |-> [start |-> 0, count |-> 0]]
  /\ request' = [r \in Requests |-> Idle]
  /\ cleaner' = {} /\ marked' = {}
  /\ UNCHANGED <<project, challenge, quota, clock, issued, grants, started>>

Next ==
  \/ \E v \in Visitors, p \in Projects :
        \/ CreateProject(v, p) \/ RemoveProject(v, p)
        \/ QueueFollowing(v, p) \/ ReadJob(v, p)
        \/ \E c \in Challenges : CreateChallenge(v, p, c)
        \/ \E r \in Requests :
              \/ \E c \in Challenges : BeginAuthorize(r, v, p, c)
              \/ \E k \in 1..MaxTickets, again \in BOOLEAN : ConsumeTicket(r, v, p, k, again)
  \/ \E r \in Requests :
        \/ FinishAuthorize(r) \/ Reserve(r)
        \/ OpenReservation(r) \/ ReservationExpires(r) \/ Regenerate(r)
        \/ CommitReservation(r) \/ RetryReservation(r)
        \/ RequestFails(r)
  \/ \E p \in Projects : JobEnds(p) \/ JobLost(p) \/ Expire(p)
  \/ SelectExpired \/ DeleteSelected
  \/ Tick \/ Restart

Spec == Init /\ [][Next]_vars

-----------------------------------------------------------------------------
(* Properties.                                                               *)

GrantsOf(v, d) == Cardinality({i \in DOMAIN grants : grants[i].visitor = v /\ grants[i].day = d})
GrantsOn(d) == Cardinality({i \in DOMAIN grants : grants[i].day = d})

\* The four counters are the reservations that committed, none is over its limit, whatever
\* was refused, expired, retried or restarted in between; each of them has queued its job,
\* and no first generation is queued uncounted (reserveRealGeneration). A regeneration may
\* be: its job is committed before its counters.
QuotasCountGrants ==
  RealGeneration =>
    /\ \A d \in Days :
         /\ quota.ip[d] = GrantsOn(d) /\ quota.day[d] = GrantsOn(d)
         /\ \A v \in Visitors : quota.visitor[v][d] = GrantsOf(v, d)
         /\ \A v \in Visitors : WithinLimits(quota, v, d)
    /\ quota.month = Len(grants)
    /\ \A i \in DOMAIN grants : \E k \in DOMAIN started : started[k].ticket = grants[i].ticket
    /\ \A k \in DOMAIN started :
         started[k].again \/ \E i \in DOMAIN grants : grants[i].ticket = started[k].ticket

\* However requests that carry it overlap, a ticket is counted at most once, and it queues
\* one job, unless a regeneration's transaction conflicts after its job was committed: then
\* one more for each attempt (consumeGenerationTicket removes the ticket before the first
\* await, the retry runs below that).
TicketGrantsOnce ==
  /\ \A i, k \in DOMAIN grants : grants[i].ticket = grants[k].ticket => i = k
  /\ \A i, k \in DOMAIN started :
       started[i].ticket = started[k].ticket /\ i # k =>
         /\ RealGeneration /\ started[i].again
         /\ started[i].attempt # started[k].attempt

\* While a challenge is valid, the process that honoured its solution still remembers that,
\* unless the map is full of entries that all outlive the challenge: overlapping requests may
\* share a solution, a later one may not.
HonouredIsRemembered ==
  \A c \in marked : clock <= challenge[c].until =>
    \/ HasKey(used, c)
    \/ Cardinality(used) = UsedCap /\ \A e \in used : challenge[c].until <= e.until

\* Nothing deletes a project while a job of it is active (remove, registerCleanupWorker).
ActiveJobKeepsProject ==
  [][\A p \in Projects : project[p].state = "live" /\ project'[p].state = "gone"
                           => project[p].job \notin ActiveJobs]_vars
=============================================================================
