------------------------ MODULE ProjectAccessProofs ------------------------
(***************************************************************************)
(* Proofs about ProjectAccess for any number of visitors, projects,        *)
(* challenges and requests, and for every limit.                           *)
(***************************************************************************)
EXTENDS ProjectAccess, TLAPS, FiniteSetTheorems

-----------------------------------------------------------------------------
(* Type correctness.                                                       *)

\* The limits one by one.
LEMMA LimitTypes ==
  /\ ProjectLimit \in Nat /\ IpProjectLimit \in Nat
  /\ VisitorLimit \in Nat /\ IpLimit \in Nat /\ DayLimit \in Nat /\ MonthLimit \in Nat
  /\ RateLimit \in Nat \ {0} /\ UsedCap \in Nat \ {0} /\ TicketCap \in Nat \ {0}
  /\ DayLength \in Nat \ {0} /\ MaxAttempts \in Nat \ {0}
  /\ ChallengeLife \in Nat /\ UsedLife \in Nat /\ TicketLife \in Nat /\ WindowLife \in Nat
  /\ MaxTickets \in Nat /\ MaxClock \in Nat /\ MaxRestarts \in Nat
  /\ ChallengeLife <= UsedLife
BY LimitsAssumption

\* Every day a run lives through has counters.
LEMMA DayHasCounters ==
  ASSUME clock \in 0..MaxClock
  PROVE  day \in Days
<1>1. DayLength \in Nat \ {0} /\ MaxClock \in Nat
  BY LimitTypes
<1>2. \A a \in Nat : a \div DayLength \in Nat
  BY <1>1
<1>3. \A a, b \in Nat : a <= b => a \div DayLength <= b \div DayLength
  BY <1>1
<1> QED BY <1>1, <1>2, <1>3 DEF day, Days

LEMMA TypeInit == Init => TypeOK
<1> SUFFICES ASSUME Init PROVE TypeOK
  OBVIOUS
<1>1. project \in [Projects -> ProjectType]
  BY DEF Init, None, ProjectType
<1>2. /\ window \in [Visitors -> WindowType]
      /\ clock \in 0..MaxClock /\ restarts \in 0..MaxRestarts /\ issued \in 0..MaxTickets
  BY LimitTypes DEF Init, WindowType
<1>3. /\ challenge \in [Challenges -> ChallengeType] /\ request \in [Requests -> RequestType]
      /\ \A r \in Requests : request[r].pc = "idle"
  BY DEF Init, ChallengeType, RequestType, Idle
<1>4. quota \in QuotaType
  BY DEF Init, QuotaType
<1> QED BY <1>1, <1>2, <1>3, <1>4 DEF Init, TypeOK

\* A purge keeps the types of the maps.
LEMMA PurgeTypes ==
  ASSUME TypeOK
  PROVE  /\ Unexpired(used) \subseteq UsedEntries /\ Unexpired(tickets) \subseteq Tickets
         /\ PurgedWindows \in [Visitors -> WindowType]
<1>1. Unexpired(used) \subseteq used /\ Unexpired(tickets) \subseteq tickets
  BY DEF Unexpired
<1>2. ASSUME NEW v \in Visitors PROVE FreshWindow(window[v]) \in WindowType
  BY LimitTypes DEF TypeOK, FreshWindow, WindowType
<1> QED BY <1>1, <1>2 DEF TypeOK, PurgedWindows

LEMMA PlaceIsNumber ==
  ASSUME used \subseteq UsedEntries, issued \in 0..MaxTickets, issued < MaxTickets, NEW c \in Challenges
  PROVE  Place(used, c) \in 1..MaxTickets
<1>1. CASE HasKey(used, c)
  <2>1. (CHOOSE e \in used : e.key = c) \in used
    BY <1>1 DEF HasKey
  <2> QED BY <1>1, <2>1 DEF Place, UsedEntries
<1>2. CASE ~HasKey(used, c)
  BY <1>2, LimitTypes DEF Place
<1> QED BY <1>1, <1>2

LEMMA NewestIsPart == ASSUME NEW S, NEW n PROVE Newest(S, n) \subseteq S
BY DEF Newest

\* What one generation adds to the counters.
LEMMA RaisedByOne ==
  ASSUME quota \in QuotaType, NEW v \in Visitors, NEW d \in Days
  PROVE  /\ Raised(v, d) \in QuotaType
         /\ \A x \in Visitors, y \in Days : Raised(v, d).visitor[x][y] =
              IF x = v /\ y = d THEN quota.visitor[x][y] + 1 ELSE quota.visitor[x][y]
         /\ \A y \in Days : /\ Raised(v, d).ip[y] = IF y = d THEN quota.ip[y] + 1 ELSE quota.ip[y]
                            /\ Raised(v, d).day[y] = IF y = d THEN quota.day[y] + 1 ELSE quota.day[y]
         /\ Raised(v, d).month = quota.month + 1
<1> DEFINE visitor == [quota.visitor EXCEPT ![v] = [quota.visitor[v] EXCEPT ![d] = quota.visitor[v][d] + 1]]
           ip == [quota.ip EXCEPT ![d] = quota.ip[d] + 1]
           perDay == [quota.day EXCEPT ![d] = quota.day[d] + 1]
<1>1. /\ quota.visitor \in [Visitors -> [Days -> Nat]] /\ quota.ip \in [Days -> Nat]
      /\ quota.day \in [Days -> Nat] /\ quota.month \in Nat /\ quota.created \in [Days -> Nat]
      /\ quota = [visitor |-> quota.visitor, ip |-> quota.ip, day |-> quota.day,
                  month |-> quota.month, created |-> quota.created]
  BY DEF QuotaType
<1>2. Raised(v, d) = [visitor |-> visitor, ip |-> ip, day |-> perDay, month |-> quota.month + 1,
                      created |-> quota.created]
  <2> HIDE DEF visitor, ip, perDay
  <2>1. Raised(v, d) = [quota EXCEPT !.visitor = visitor, !.ip = ip, !.day = perDay,
                                     !.month = quota.month + 1]
    BY DEF Raised, visitor, ip, perDay
  <2> QED BY <1>1, <2>1
<1>3. /\ visitor \in [Visitors -> [Days -> Nat]] /\ ip \in [Days -> Nat] /\ perDay \in [Days -> Nat]
      /\ quota.month + 1 \in Nat
  BY <1>1
<1>4. \A x \in Visitors, y \in Days : visitor[x][y] =
        IF x = v /\ y = d THEN quota.visitor[x][y] + 1 ELSE quota.visitor[x][y]
  BY <1>1
<1>5. \A y \in Days : /\ ip[y] = IF y = d THEN quota.ip[y] + 1 ELSE quota.ip[y]
                      /\ perDay[y] = IF y = d THEN quota.day[y] + 1 ELSE quota.day[y]
  BY <1>1
<1> HIDE DEF visitor, ip, perDay
<1>6. Raised(v, d) \in QuotaType
  BY <1>1, <1>2, <1>3 DEF QuotaType
<1> QED BY <1>2, <1>4, <1>5, <1>6

\* A request that carries a ticket.
InHand == {"reserve", "inner", "late", "commit"}

LEMMA ReservationTypes ==
  ASSUME request \in [Requests -> RequestType], NEW r \in Requests, request[r].pc \in InHand
  PROVE  /\ request[r] \in Reservations
         /\ \A pc \in InHand : [request[r] EXCEPT !.pc = pc] \in Reservations
<1>1. request[r] \in RequestType
  OBVIOUS
<1>2. request[r] \in Reservations
  BY <1>1 DEF RequestType, Idle, InHand
<1> QED BY <1>2 DEF Reservations, InHand

\* A request waits for the verification of a challenge that was issued, and only a
\* regeneration has a transaction open.
RequestsFit ==
  /\ request \in [Requests -> RequestType]
  /\ \A r \in Requests :
       /\ request[r].pc = "verify" => challenge[request[r].challenge] # NoChallenge
       /\ request[r].pc \in {"inner", "late", "commit"} => request[r].again

LEMMA VerifyNames ==
  ASSUME NEW q \in RequestType, q.pc = "verify"
  PROVE  q.challenge \in Challenges
BY DEF RequestType, Reservations, Idle

LEMMA RequestMoves ==
  ASSUME RequestsFit, UNCHANGED challenge, NEW r \in Requests, NEW next \in {Idle} \cup Reservations,
         request' = [request EXCEPT ![r] = next],
         next.pc \in {"inner", "late", "commit"} => next.again
  PROVE  RequestsFit'
<1>1. next \in RequestType /\ next.pc # "verify"
  BY DEF RequestType, Reservations, Idle
<1>2. \A q \in Requests : request'[q] = IF q = r THEN next ELSE request[q]
  BY DEF RequestsFit
<1> QED BY <1>1, <1>2 DEF RequestsFit

LEMMA RetryMoves ==
  ASSUME NEW q \in Reservations, q.attempt + 1 < MaxAttempts
  PROVE  LET again == [q EXCEPT !.pc = "reserve", !.attempt = q.attempt + 1]
         IN  again \in Reservations /\ again.pc = "reserve"
<1>1. q.attempt + 1 \in 0..MaxAttempts
  BY LimitTypes DEF Reservations
<1> DEFINE n == q.attempt + 1
<1> HIDE DEF n
<1>2. [q EXCEPT !.pc = "reserve", !.attempt = n] \in Reservations
      /\ [q EXCEPT !.pc = "reserve", !.attempt = n].pc = "reserve"
  BY <1>1 DEF Reservations, n
<1> QED BY <1>2 DEF n

LEMMA WindowCounts ==
  ASSUME NEW w \in WindowType, clock \in 0..MaxClock, w.count < RateLimit
  PROVE  [start |-> IF w.count = 0 THEN clock ELSE w.start, count |-> w.count + 1] \in WindowType
BY LimitTypes DEF WindowType

\* What one start and one count add to the rows and the history.
LEMMA StartTypes ==
  ASSUME TypeOK, NEW q \in Reservations, Start(q)
  PROVE  project' \in [Projects -> ProjectType] /\ started' \in Seq(Starts)
<1>1. q.project \in Projects /\ q.ticket \in 1..MaxTickets /\ q.again \in BOOLEAN /\ q.attempt \in 0..MaxAttempts
  BY DEF Reservations
<1>2. project' \in [Projects -> ProjectType]
  <2>1. project[q.project] \in ProjectType /\ project \in [Projects -> ProjectType]
    BY <1>1 DEF TypeOK
  <2>2. [project[q.project] EXCEPT !.job = "active"] \in ProjectType
    BY <2>1 DEF ProjectType, ActiveJobs
  <2>3. project' = [project EXCEPT ![q.project] = [project[q.project] EXCEPT !.job = "active"]]
    BY DEF Start
  <2> QED BY <2>1, <2>2, <2>3
<1>3. [ticket |-> q.ticket, again |-> q.again, attempt |-> q.attempt] \in Starts
  BY <1>1 DEF Starts
<1> QED BY <1>2, <1>3 DEF Start, TypeOK

LEMMA CountTypes ==
  ASSUME TypeOK, NEW q \in Reservations, Count(q)
  PROVE  quota' \in QuotaType /\ grants' \in Seq(Grants)
<1>1. q.visitor \in Visitors /\ q.day \in Days /\ q.ticket \in 1..MaxTickets
  BY DEF Reservations
<1>2. quota' \in QuotaType
  BY <1>1, RaisedByOne DEF Count, TypeOK
<1>3. [ticket |-> q.ticket, visitor |-> q.visitor, day |-> q.day] \in Grants
  BY <1>1 DEF Grants
<1> QED BY <1>2, <1>3 DEF Count, TypeOK

LEMMA TypeStep == TypeOK /\ [Next]_vars => TypeOK'
<1> SUFFICES ASSUME TypeOK, [Next]_vars PROVE TypeOK'
  OBVIOUS
<1> USE DEF TypeOK, memory, time, history
<1>i. Idle \in RequestType /\ Idle.pc = "idle"
  BY DEF RequestType, Idle
<1>1. ASSUME NEW v \in Visitors, NEW p \in Projects, CreateProject(v, p) PROVE TypeOK'
  <2>1. project' \in [Projects -> ProjectType]
    BY <1>1 DEF CreateProject, None, ProjectType
  <2>2. quota' \in QuotaType
    <3> DEFINE created == [quota.created EXCEPT ![day] = quota.created[day] + 1]
    <3>1. quota' = [quota EXCEPT !.created = created]
      BY <1>1 DEF CreateProject
    <3>2. created \in [Days -> Nat]
      BY DayHasCounters DEF QuotaType
    <3> HIDE DEF created
    <3> QED BY <3>1, <3>2 DEF QuotaType
  <2> QED BY <1>1, <2>1, <2>2 DEF CreateProject
<1>2. ASSUME NEW p \in Projects, NEW job \in ActiveJobs \cup {"none", "ended"},
             \/ project' = [project EXCEPT ![p].state = "gone"]
             \/ project' = [project EXCEPT ![p].job = job]
             \/ project' = [project EXCEPT ![p].expired = TRUE],
             UNCHANGED <<challenge, memory, quota, request, cleaner, time, history>>
      PROVE TypeOK'
  <2>1. project' \in [Projects -> ProjectType]
    <3>1. project[p] \in ProjectType
      OBVIOUS
    <3>2. /\ [project[p] EXCEPT !.state = "gone"] \in ProjectType
          /\ [project[p] EXCEPT !.job = job] \in ProjectType
          /\ [project[p] EXCEPT !.expired = TRUE] \in ProjectType
      BY <3>1 DEF ProjectType
    <3> QED BY <1>2, <3>2
  <2> QED BY <1>2, <2>1
<1>3. ASSUME NEW v \in Visitors, NEW p \in Projects, NEW c \in Challenges, CreateChallenge(v, p, c)
      PROVE TypeOK'
  <2>1. challenge' \in [Challenges -> ChallengeType]
        /\ \A b \in Challenges : challenge[b] # NoChallenge => challenge'[b] # NoChallenge
    <3>1. clock + ChallengeLife \in Nat
      BY LimitTypes
    <3>2. [project |-> p, visitor |-> v, until |-> clock + ChallengeLife] \in ChallengeType \ {NoChallenge}
      <4>1. [project |-> p, visitor |-> v, until |-> clock + ChallengeLife] # NoChallenge
        BY DEF NoChallenge
      <4> QED BY <3>1, <4>1 DEF ChallengeType
    <3> QED BY <1>3, <3>2 DEF CreateChallenge
  <2>2. window' \in [Visitors -> WindowType]
    <3>1. PurgedWindows[v] \in WindowType /\ PurgedWindows[v].count < RateLimit
      BY <1>3, PurgeTypes DEF CreateChallenge
    <3>2. [start |-> IF PurgedWindows[v].count = 0 THEN clock ELSE PurgedWindows[v].start,
           count |-> PurgedWindows[v].count + 1] \in WindowType
      BY <3>1, WindowCounts
    <3> QED BY <1>3, <3>2, PurgeTypes DEF CreateChallenge
  <2>3. \A r \in Requests : request[r].pc = "verify" => request[r].challenge \in Challenges
    BY VerifyNames
  <2> QED BY <1>3, <2>1, <2>2, <2>3, PurgeTypes DEF CreateChallenge
<1>4. ASSUME NEW r \in Requests, NEW v \in Visitors, NEW p \in Projects, NEW c \in Challenges,
             BeginAuthorize(r, v, p, c)
      PROVE TypeOK'
  <2>1. [pc |-> "verify", challenge |-> c] \in RequestType
    BY DEF RequestType
  <2>2. /\ request' \in [Requests -> RequestType]
        /\ \A q \in Requests : request'[q] = request[q] \/ request'[q] = [pc |-> "verify", challenge |-> c]
    BY <1>4, <2>1 DEF BeginAuthorize
  <2>3. \A q \in Requests : request'[q].pc = "verify" => challenge'[request'[q].challenge] # NoChallenge
    BY <1>4, <2>2 DEF BeginAuthorize
  <2> QED BY <1>4, <2>2, <2>3, PurgeTypes DEF BeginAuthorize
<1>5. ASSUME NEW r \in Requests, FinishAuthorize(r) PROVE TypeOK'
  <2> DEFINE c == request[r].challenge
             ticket == [nr |-> issued + 1, project |-> challenge[c].project,
                        visitor |-> challenge[c].visitor, until |-> clock + TicketLife]
  <2>1. c \in Challenges /\ challenge[c] # NoChallenge
    BY <1>5, VerifyNames DEF FinishAuthorize
  <2>2. /\ issued < MaxTickets
        /\ used' = Newest(Put(used, c, clock + UsedLife), UsedCap)
        /\ tickets' = Newest(tickets \cup {ticket}, TicketCap)
    BY <1>5 DEF FinishAuthorize
  <2>3. used' \subseteq UsedEntries
    <3>1. [key |-> c, nr |-> Place(used, c), until |-> clock + UsedLife] \in UsedEntries
      BY <2>1, <2>2, PlaceIsNumber, LimitTypes DEF UsedEntries
    <3>2. Put(used, c, clock + UsedLife) \subseteq UsedEntries
      BY <3>1 DEF Put
    <3> QED BY <2>2, <3>2, NewestIsPart
  <2>4. tickets' \subseteq Tickets
    <3>1. ticket \in Tickets
      BY <2>1, <2>2, LimitTypes DEF Tickets, ChallengeType
    <3> HIDE DEF ticket
    <3> QED BY <2>2, <3>1, NewestIsPart
  <2>5. /\ request' \in [Requests -> RequestType]
        /\ \A q \in Requests : request'[q] = request[q] \/ request'[q].pc = "idle"
    BY <1>5, <1>i DEF FinishAuthorize
  <2>6. issued' \in 0..MaxTickets
    BY <1>5, <2>2, LimitTypes DEF FinishAuthorize
  <2> QED BY <1>5, <2>1, <2>3, <2>4, <2>5, <2>6 DEF FinishAuthorize
<1>6. ASSUME NEW r \in Requests, NEW v \in Visitors, NEW p \in Projects, NEW k \in 1..MaxTickets,
             NEW again \in BOOLEAN, ConsumeTicket(r, v, p, k, again)
      PROVE TypeOK'
  <2>1. tickets' \subseteq Tickets
    BY <1>6, PurgeTypes DEF ConsumeTicket, Without
  <2>2. [pc |-> "reserve", again |-> again, ticket |-> k, project |-> p, visitor |-> v,
         day |-> day, attempt |-> 0] \in RequestType
    BY DayHasCounters, LimitTypes DEF RequestType, Reservations
  <2>3. /\ request' \in [Requests -> RequestType]
        /\ \A q \in Requests : request'[q] = request[q] \/ request'[q].pc = "reserve"
    BY <1>6, <2>2 DEF ConsumeTicket
  <2> QED BY <1>6, <2>1, <2>3, PurgeTypes DEF ConsumeTicket
<1>r. RequestsFit
  BY DEF RequestsFit
<1>7. ASSUME NEW r \in Requests, Reserve(r) PROVE TypeOK'
  <2>1. request[r] \in Reservations /\ Start(request[r]) /\ Count(request[r])
    BY <1>7, ReservationTypes DEF Reserve, InHand
  <2>2. /\ project' \in [Projects -> ProjectType] /\ started' \in Seq(Starts)
        /\ quota' \in QuotaType /\ grants' \in Seq(Grants)
    BY <2>1, StartTypes, CountTypes
  <2>3. RequestsFit'
    BY <1>7, <1>i, <1>r, RequestMoves DEF Reserve
  <2> QED BY <1>7, <2>2, <2>3 DEF Reserve, RequestsFit
<1>15. ASSUME NEW r \in Requests, OpenReservation(r) \/ ReservationExpires(r) \/ RetryReservation(r)
       PROVE TypeOK'
  <2>1. request[r] \in Reservations
    BY <1>15, ReservationTypes DEF OpenReservation, ReservationExpires, RetryReservation, InHand
  <2>2. RequestsFit'
    <3> DEFINE moved(pc) == [request[r] EXCEPT !.pc = pc]
               again == [request[r] EXCEPT !.pc = "reserve", !.attempt = request[r].attempt + 1]
    <3>1. ASSUME NEW pc \in InHand PROVE moved(pc) \in Reservations /\ moved(pc).again = request[r].again
      BY <2>1 DEF Reservations, InHand
    <3>2. CASE OpenReservation(r)
      <4>1. request' = [request EXCEPT ![r] = moved("inner")] /\ request[r].again
        BY <3>2 DEF OpenReservation
      <4>2. moved("inner") \in Reservations /\ moved("inner").again
        BY <3>1, <4>1 DEF InHand
      <4> HIDE DEF moved
      <4> QED BY <1>r, <3>2, <4>1, <4>2, RequestMoves DEF OpenReservation
    <3>3. CASE ReservationExpires(r)
      <4>1. request' = [request EXCEPT ![r] = moved("late")] /\ request[r].again
        BY <3>3 DEF ReservationExpires
      <4>2. moved("late") \in Reservations /\ moved("late").again
        BY <3>1, <4>1 DEF InHand
      <4> HIDE DEF moved
      <4> QED BY <1>r, <3>3, <4>1, <4>2, RequestMoves DEF ReservationExpires
    <3>4. CASE RetryReservation(r)
      <4>1. request' = [request EXCEPT ![r] = again] /\ request[r].attempt + 1 < MaxAttempts
        BY <3>4 DEF RetryReservation
      <4>2. again \in Reservations /\ again.pc = "reserve"
        BY <2>1, <4>1, RetryMoves
      <4> HIDE DEF again
      <4> QED BY <1>r, <3>4, <4>1, <4>2, RequestMoves DEF RetryReservation
    <3> QED BY <1>15, <3>2, <3>3, <3>4
  <2>3. UNCHANGED <<project, challenge, memory, quota, cleaner, time, history>>
    BY <1>15 DEF OpenReservation, ReservationExpires, RetryReservation
  <2> QED BY <2>2, <2>3 DEF RequestsFit
<1>16. ASSUME NEW r \in Requests, Regenerate(r) PROVE TypeOK'
  <2> DEFINE commit == [request[r] EXCEPT !.pc = "commit"]
             next == IF request[r].pc = "inner" THEN commit ELSE Idle
  <2>1. /\ request[r] \in Reservations /\ request[r].again /\ Start(request[r])
        /\ request' = [request EXCEPT ![r] = next] /\ challenge' = challenge
    BY <1>16, ReservationTypes DEF Regenerate, InHand
  <2>2. project' \in [Projects -> ProjectType] /\ started' \in Seq(Starts)
    BY <2>1, StartTypes
  <2>3. commit \in Reservations /\ commit.again
    BY <2>1 DEF Reservations
  <2> HIDE DEF commit
  <2>4. next \in {Idle} \cup Reservations /\ (next.pc \in {"inner", "late", "commit"} => next.again)
    BY <1>i, <2>3
  <2> HIDE DEF next
  <2>5. RequestsFit'
    BY <1>r, <2>1, <2>4, RequestMoves
  <2> QED BY <1>16, <2>2, <2>5 DEF Regenerate, RequestsFit
<1>17. ASSUME NEW r \in Requests, CommitReservation(r) PROVE TypeOK'
  <2>1. request[r] \in Reservations /\ Count(request[r])
    BY <1>17, ReservationTypes DEF CommitReservation, InHand
  <2>2. quota' \in QuotaType /\ grants' \in Seq(Grants)
    BY <2>1, CountTypes
  <2>3. RequestsFit'
    BY <1>17, <1>i, <1>r, RequestMoves DEF CommitReservation
  <2> QED BY <1>17, <2>2, <2>3 DEF CommitReservation, RequestsFit
<1>8. ASSUME NEW r \in Requests, RequestFails(r) PROVE TypeOK'
  <2>1. RequestsFit'
    BY <1>8, <1>i, <1>r, RequestMoves DEF RequestFails
  <2> QED BY <1>8, <2>1 DEF RequestFails, RequestsFit
<1>9. CASE DeleteSelected
  <2>1. project' \in [Projects -> ProjectType]
    BY <1>9 DEF DeleteSelected, ProjectType
  <2> QED BY <1>9, <2>1 DEF DeleteSelected
<1>10. CASE SelectExpired \/ Tick
  BY <1>10, LimitTypes DEF SelectExpired, Tick
<1>11. CASE Restart
  <2>1. window' \in [Visitors -> WindowType] /\ restarts' \in 0..MaxRestarts
    BY <1>11, LimitTypes DEF Restart, WindowType
  <2>2. request' \in [Requests -> RequestType] /\ \A q \in Requests : request'[q].pc = "idle"
    BY <1>11, <1>i DEF Restart
  <2> QED BY <1>11, <2>1, <2>2 DEF Restart
<1>12. ASSUME NEW v \in Visitors, NEW p \in Projects,
              RemoveProject(v, p) \/ QueueFollowing(v, p) \/ ReadJob(v, p)
       PROVE TypeOK'
  BY <1>12, <1>2 DEF RemoveProject, QueueFollowing, ReadJob, JobTo, ActiveJobs
<1>13. ASSUME NEW p \in Projects, JobEnds(p) \/ JobLost(p) \/ Expire(p) PROVE TypeOK'
  BY <1>13, <1>2 DEF JobEnds, JobLost, Expire, JobTo, ActiveJobs
<1>14. CASE UNCHANGED vars
  BY <1>14 DEF vars
<1> QED BY <1>1, <1>3, <1>4, <1>5, <1>6, <1>7, <1>8, <1>9, <1>10, <1>11, <1>12, <1>13, <1>14,
           <1>15, <1>16, <1>17 DEF Next

\* Rows, maps and requests have the shape the code gives them; a request waits
\* for the verification only of a challenge that was issued, and the counters
\* a request will raise are those of a day the run lives through.
THEOREM TypeCorrect == Spec => []TypeOK
BY TypeInit, TypeStep, PTL DEF Spec

-----------------------------------------------------------------------------
(* Quotas.                                                                 *)

LEMMA OneMore ==
  ASSUME NEW n \in Nat, NEW S \in SUBSET (1..n)
  PROVE  Cardinality(S) \in Nat /\ Cardinality(S \cup {n + 1}) = Cardinality(S) + 1
<1>1. IsFiniteSet(1..n)
  BY FS_Interval
<1>2. IsFiniteSet(S)
  BY <1>1, FS_Subset
<1>3. n + 1 \notin S
  OBVIOUS
<1> QED BY <1>2, <1>3, FS_AddElement, FS_CardinalityType

\* What one more reservation does to the counts.
LEMMA CountsGrow ==
  ASSUME grants \in Seq(Grants), NEW g \in Grants, grants' = Append(grants, g)
  PROVE  /\ \A d \in Days : GrantsOn(d)' = IF d = g.day THEN GrantsOn(d) + 1 ELSE GrantsOn(d)
         /\ \A d \in Days, v \in Visitors :
              GrantsOf(v, d)' = IF d = g.day /\ v = g.visitor THEN GrantsOf(v, d) + 1 ELSE GrantsOf(v, d)
         /\ Len(grants') = Len(grants) + 1
<1> DEFINE n == Len(grants)
<1>1. /\ n \in Nat /\ DOMAIN grants = 1..n /\ DOMAIN grants' = 1..(n + 1)
      /\ Len(grants') = n + 1 /\ grants'[n + 1] = g
      /\ \A i \in 1..n : grants'[i] = grants[i]
  OBVIOUS
<1>2. ASSUME NEW d \in Days
      PROVE  GrantsOn(d)' = IF d = g.day THEN GrantsOn(d) + 1 ELSE GrantsOn(d)
  <2> DEFINE S == {i \in 1..n : grants[i].day = d}
  <2>1. S \in SUBSET (1..n) /\ GrantsOn(d) = Cardinality(S)
    BY <1>1 DEF GrantsOn
  <2>2. GrantsOn(d)' = Cardinality({i \in 1..(n + 1) : grants'[i].day = d})
    BY <1>1 DEF GrantsOn
  <2>3. {i \in 1..(n + 1) : grants'[i].day = d} = IF d = g.day THEN S \cup {n + 1} ELSE S
    BY <1>1
  <2> HIDE DEF S
  <2>4. Cardinality(S \cup {n + 1}) = Cardinality(S) + 1
    BY <1>1, <2>1, OneMore
  <2> HIDE DEF n
  <2> QED BY <2>1, <2>2, <2>3, <2>4
<1>3. ASSUME NEW d \in Days, NEW v \in Visitors
      PROVE  GrantsOf(v, d)' = IF d = g.day /\ v = g.visitor THEN GrantsOf(v, d) + 1 ELSE GrantsOf(v, d)
  <2> DEFINE S == {i \in 1..n : grants[i].visitor = v /\ grants[i].day = d}
  <2>1. S \in SUBSET (1..n) /\ GrantsOf(v, d) = Cardinality(S)
    BY <1>1 DEF GrantsOf
  <2>2. GrantsOf(v, d)' = Cardinality({i \in 1..(n + 1) : grants'[i].visitor = v /\ grants'[i].day = d})
    BY <1>1 DEF GrantsOf
  <2>3. {i \in 1..(n + 1) : grants'[i].visitor = v /\ grants'[i].day = d} =
          IF d = g.day /\ v = g.visitor THEN S \cup {n + 1} ELSE S
    BY <1>1
  <2> HIDE DEF S
  <2>4. Cardinality(S \cup {n + 1}) = Cardinality(S) + 1
    BY <1>1, <2>1, OneMore
  <2> HIDE DEF n
  <2> QED BY <2>1, <2>2, <2>3, <2>4
<1> QED BY <1>1, <1>2, <1>3

\* The parts of QuotasCountGrants.
CountersFit ==
  /\ \A d \in Days :
       /\ quota.ip[d] = GrantsOn(d) /\ quota.day[d] = GrantsOn(d)
       /\ \A v \in Visitors : quota.visitor[v][d] = GrantsOf(v, d)
       /\ \A v \in Visitors : WithinLimits(quota, v, d)
  /\ quota.month = Len(grants)

StartsFit ==
  /\ \A i \in DOMAIN grants : \E k \in DOMAIN started : started[k].ticket = grants[i].ticket
  /\ \A k \in DOMAIN started :
       started[k].again \/ \E i \in DOMAIN grants : grants[i].ticket = started[k].ticket

\* Every counter has room for one more.
Room(q, v, d) ==
  q.visitor[v][d] < VisitorLimit /\ q.ip[d] < IpLimit /\ q.day[d] < DayLimit /\ q.month < MonthLimit

\* The transaction that is open has found room, nobody takes it away, and it commits
\* only for a job that is there.
OpenFits ==
  /\ \A r \in OpenReservations : /\ Room(quota, request[r].visitor, request[r].day)
                                /\ \A s \in OpenReservations : s = r
  /\ \A r \in Requests : request[r].pc = "commit" =>
       \E k \in DOMAIN started : started[k].ticket = request[r].ticket

QuotaInv == RealGeneration => CountersFit /\ StartsFit /\ OpenFits

LEMMA QuotaInit == Init => QuotaInv
<1> SUFFICES ASSUME Init PROVE CountersFit /\ StartsFit /\ OpenFits
  BY DEF QuotaInv
<1>1. grants = <<>> /\ Len(grants) = 0 /\ DOMAIN grants = {} /\ started = <<>> /\ DOMAIN started = {}
  BY DEF Init
<1>2. \A d \in Days : GrantsOn(d) = 0 /\ \A v \in Visitors : GrantsOf(v, d) = 0
  BY <1>1, FS_EmptySet DEF GrantsOn, GrantsOf
<1>3. CountersFit
  BY <1>1, <1>2, LimitTypes DEF Init, CountersFit, WithinLimits
<1>4. StartsFit /\ OpenFits
  BY <1>1 DEF Init, StartsFit, OpenFits, OpenReservations, Idle
<1> QED BY <1>3, <1>4

SameCounters == /\ quota'.visitor = quota.visitor /\ quota'.ip = quota.ip
                /\ quota'.day = quota.day /\ quota'.month = quota.month

\* The counters stay as they are while nothing is counted.
LEMMA CountersStay ==
  ASSUME CountersFit, SameCounters, UNCHANGED grants
  PROVE  CountersFit'
<1>1. ASSUME NEW d \in Days
      PROVE  GrantsOn(d)' = GrantsOn(d) /\ \A v \in Visitors : GrantsOf(v, d)' = GrantsOf(v, d)
  BY DEF GrantsOn, GrantsOf
<1>2. \A v \in Visitors, d \in Days : WithinLimits(quota, v, d)' <=> WithinLimits(quota, v, d)
  BY DEF WithinLimits, SameCounters
<1> QED BY <1>1, <1>2 DEF CountersFit, SameCounters

\* A commit that found room counts right and stays within the limits.
LEMMA CountKeeps ==
  ASSUME TypeOK, RealGeneration, CountersFit, NEW q \in Reservations,
         Room(quota, q.visitor, q.day), Count(q)
  PROVE  CountersFit'
<1> DEFINE v == q.visitor
           e == q.day
           g == [ticket |-> q.ticket, visitor |-> v, day |-> e]
<1>0. quota \in QuotaType /\ grants \in Seq(Grants)
  BY DEF TypeOK
<1>1. v \in Visitors /\ e \in Days /\ g \in Grants
  BY DEF Reservations, Grants
<1>2. grants' = Append(grants, g) /\ quota' = Raised(v, e) /\ Room(quota, v, e)
  BY DEF Count
<1> HIDE DEF v, e
<1>3. /\ \A d \in Days : GrantsOn(d)' = IF d = e THEN GrantsOn(d) + 1 ELSE GrantsOn(d)
      /\ \A d \in Days, w \in Visitors :
           GrantsOf(w, d)' = IF d = e /\ w = v THEN GrantsOf(w, d) + 1 ELSE GrantsOf(w, d)
      /\ Len(grants') = Len(grants) + 1
  <2>1. g.day = e /\ g.visitor = v
    OBVIOUS
  <2> HIDE DEF g
  <2> QED BY <1>0, <1>1, <1>2, <2>1, CountsGrow
<1>4. /\ \A w \in Visitors, d \in Days : quota'.visitor[w][d] =
           IF w = v /\ d = e THEN quota.visitor[w][d] + 1 ELSE quota.visitor[w][d]
      /\ \A d \in Days : /\ quota'.ip[d] = IF d = e THEN quota.ip[d] + 1 ELSE quota.ip[d]
                         /\ quota'.day[d] = IF d = e THEN quota.day[d] + 1 ELSE quota.day[d]
      /\ quota'.month = quota.month + 1
  BY <1>0, <1>1, <1>2, RaisedByOne
<1>5. /\ \A w \in Visitors, d \in Days : quota.visitor[w][d] \in Nat
      /\ \A d \in Days : quota.ip[d] \in Nat /\ quota.day[d] \in Nat
      /\ quota.month \in Nat
  BY <1>0 DEF QuotaType
<1>6. ASSUME NEW d \in Days
      PROVE  /\ quota'.ip[d] = GrantsOn(d)' /\ quota'.day[d] = GrantsOn(d)'
             /\ \A w \in Visitors : quota'.visitor[w][d] = GrantsOf(w, d)'
             /\ \A w \in Visitors : WithinLimits(quota', w, d)
  <2>1. /\ quota'.ip[d] = GrantsOn(d)' /\ quota'.day[d] = GrantsOn(d)'
        /\ \A w \in Visitors : quota'.visitor[w][d] = GrantsOf(w, d)'
    BY <1>3, <1>4 DEF CountersFit
  <2>2. ASSUME NEW w \in Visitors PROVE WithinLimits(quota', w, d)
    <3>1. WithinLimits(quota, w, d)
      BY DEF CountersFit
    <3>2. quota'.visitor[w][d] <= VisitorLimit
      <4>1. CASE w = v /\ d = e
        <5>1. quota.visitor[w][d] < VisitorLimit /\ quota'.visitor[w][d] = quota.visitor[w][d] + 1
          BY <1>1, <1>2, <1>4, <4>1 DEF Room
        <5> QED BY <1>1, <1>5, <4>1, <5>1, LimitTypes
      <4>2. CASE ~(w = v /\ d = e)
        BY <1>4, <3>1, <4>2 DEF WithinLimits
      <4> QED BY <4>1, <4>2
    <3>3. quota'.ip[d] <= IpLimit /\ quota'.day[d] <= DayLimit
      <4>1. quota.ip[d] <= IpLimit /\ quota.day[d] <= DayLimit
        BY <3>1 DEF WithinLimits
      <4>2. d = e => quota.ip[d] < IpLimit /\ quota.day[d] < DayLimit
        BY <1>2 DEF Room
      <4>3. /\ quota'.ip[d] = IF d = e THEN quota.ip[d] + 1 ELSE quota.ip[d]
            /\ quota'.day[d] = IF d = e THEN quota.day[d] + 1 ELSE quota.day[d]
        BY <1>4
      <4>4. quota.ip[d] \in Nat /\ quota.day[d] \in Nat
        BY <1>5
      <4> QED BY <4>1, <4>2, <4>3, <4>4, LimitTypes
    <3>4. quota'.month <= MonthLimit
      BY <1>2, <1>4, <1>5, LimitTypes DEF Room
    <3> QED BY <3>2, <3>3, <3>4 DEF WithinLimits
  <2> QED BY <2>1, <2>2
<1>7. quota'.month = Len(grants')
  BY <1>3, <1>4 DEF CountersFit
<1> QED BY <1>6, <1>7 DEF CountersFit

\* A reservation goes on only where there is room.
LEMMA ReserveFindsRoom ==
  ASSUME TypeOK, RealGeneration, NEW q \in Reservations, CanReserve(q)
  PROVE  OpenReservations = {} /\ Room(quota, q.visitor, q.day)
<1>1. q.visitor \in Visitors /\ q.day \in Days /\ quota \in QuotaType
  BY DEF Reservations, TypeOK
<1>2. /\ Raised(q.visitor, q.day).visitor[q.visitor][q.day] = quota.visitor[q.visitor][q.day] + 1
      /\ Raised(q.visitor, q.day).ip[q.day] = quota.ip[q.day] + 1
      /\ Raised(q.visitor, q.day).day[q.day] = quota.day[q.day] + 1
      /\ Raised(q.visitor, q.day).month = quota.month + 1
  BY <1>1, RaisedByOne
<1>3. /\ quota.visitor[q.visitor][q.day] \in Nat /\ quota.ip[q.day] \in Nat
      /\ quota.day[q.day] \in Nat /\ quota.month \in Nat
  BY <1>1 DEF QuotaType
<1> QED BY <1>2, <1>3, LimitTypes DEF CanReserve, WithinLimits, Room

\* What one more entry does to a history.
LEMMA OneMoreEntry ==
  ASSUME NEW S, NEW s \in Seq(S), NEW e \in S
  PROVE  /\ DOMAIN Append(s, e) = DOMAIN s \cup {Len(s) + 1}
         /\ Len(s) + 1 \notin DOMAIN s
         /\ \A i \in DOMAIN s : Append(s, e)[i] = s[i]
         /\ Append(s, e)[Len(s) + 1] = e
OBVIOUS

\* Requests that begin no reservation leave what is open as it is.
LEMMA OpenStays ==
  ASSUME RealGeneration, OpenFits, SameCounters, UNCHANGED started,
         \A q \in Requests : request'[q] = request[q] \/ request'[q].pc \notin {"inner", "commit"}
  PROVE  OpenFits'
BY DEF OpenFits, OpenReservations, Room, SameCounters

\* Only a reservation touches the four counters and the histories they are compared with.
LEMMA QuotaStep == TypeOK /\ QuotaInv /\ [Next]_vars => QuotaInv'
<1> SUFFICES ASSUME TypeOK, CountersFit, StartsFit, OpenFits, [Next]_vars, RealGeneration
             PROVE  CountersFit' /\ StartsFit' /\ OpenFits'
  BY DEF QuotaInv
<1>0. /\ quota \in QuotaType /\ grants \in Seq(Grants) /\ started \in Seq(Starts)
      /\ request \in [Requests -> RequestType] /\ Idle.pc = "idle"
  BY DEF TypeOK, Idle
<1>1. CASE /\ SameCounters /\ UNCHANGED <<grants, started>>
           /\ \A q \in Requests : request'[q] = request[q] \/ request'[q].pc \notin {"inner", "commit"}
  BY <1>1, CountersStay, OpenStays DEF StartsFit
<1>2. ASSUME NEW r \in Requests, Reserve(r) PROVE CountersFit' /\ StartsFit' /\ OpenFits'
  <2> DEFINE q == request[r]
  <2>1. q \in Reservations /\ CanReserve(q) /\ Count(q) /\ Start(q) /\ q.pc = "reserve"
    BY <1>0, <1>2, ReservationTypes DEF Reserve, InHand
  <2>2. request'[r].pc = "idle" /\ \A s \in Requests \ {r} : request'[s] = request[s]
    BY <1>0, <1>2 DEF Reserve
  <2> DEFINE g == [ticket |-> q.ticket, visitor |-> q.visitor, day |-> q.day]
             h == [ticket |-> q.ticket, again |-> q.again, attempt |-> q.attempt]
  <2>3. g \in Grants /\ h \in Starts /\ g.ticket = q.ticket /\ h.ticket = q.ticket
        /\ grants' = Append(grants, g) /\ started' = Append(started, h)
    BY <2>1 DEF Count, Start, Reservations, Grants, Starts
  <2> HIDE DEF q, g, h
  <2>4. OpenReservations = {} /\ Room(quota, q.visitor, q.day)
    BY <2>1, ReserveFindsRoom
  <2>5. CountersFit'
    BY <2>1, <2>4, CountKeeps
  <2>6. /\ DOMAIN grants' = DOMAIN grants \cup {Len(grants) + 1}
        /\ \A i \in DOMAIN grants : grants'[i] = grants[i]
        /\ grants'[Len(grants) + 1] = g
        /\ DOMAIN started' = DOMAIN started \cup {Len(started) + 1}
        /\ \A i \in DOMAIN started : started'[i] = started[i]
        /\ started'[Len(started) + 1] = h
    BY <1>0, <2>3, OneMoreEntry
  <2>7. StartsFit'
    BY <2>3, <2>6 DEF StartsFit
  <2>8. OpenReservations' = {}
    BY <2>2, <2>4 DEF OpenReservations
  <2>9. \A s \in Requests : request'[s].pc # "commit"
    BY <2>8 DEF OpenReservations
  <2> QED BY <2>5, <2>7, <2>8, <2>9 DEF OpenFits
<1>3. ASSUME NEW r \in Requests, OpenReservation(r) PROVE CountersFit' /\ StartsFit' /\ OpenFits'
  <2>1. request[r] \in Reservations /\ CanReserve(request[r])
        /\ request' = [request EXCEPT ![r].pc = "inner"]
        /\ quota' = quota /\ grants' = grants /\ started' = started
    BY <1>0, <1>3, ReservationTypes DEF OpenReservation, InHand, history
  <2>2. /\ request'[r].pc = "inner" /\ request'[r].visitor = request[r].visitor
        /\ request'[r].day = request[r].day
        /\ \A s \in Requests \ {r} : request'[s] = request[s]
    BY <1>0, <2>1 DEF Reservations
  <2>3. OpenReservations = {} /\ Room(quota, request[r].visitor, request[r].day)
    BY <2>1, ReserveFindsRoom
  <2>4. OpenReservations' = {r}
    BY <2>2, <2>3 DEF OpenReservations
  <2>5. \A s \in Requests : request'[s].pc # "commit"
    BY <2>2, <2>3 DEF OpenReservations
  <2>6. OpenFits'
    BY <2>1, <2>2, <2>3, <2>4, <2>5 DEF OpenFits
  <2>7. SameCounters
    BY <2>1 DEF SameCounters
  <2> QED BY <2>1, <2>6, <2>7, CountersStay DEF StartsFit
<1>4. ASSUME NEW r \in Requests, Regenerate(r) PROVE CountersFit' /\ StartsFit' /\ OpenFits'
  <2> DEFINE q == request[r]
             h == [ticket |-> q.ticket, again |-> q.again, attempt |-> q.attempt]
  <2>1. /\ q \in Reservations /\ q.pc \in {"inner", "late"} /\ Start(q)
        /\ quota' = quota /\ grants' = grants
        /\ request' = [request EXCEPT ![r] = IF q.pc = "inner" THEN [q EXCEPT !.pc = "commit"] ELSE Idle]
    BY <1>0, <1>4, ReservationTypes DEF Regenerate, InHand
  <2>2. h \in Starts /\ h.ticket = q.ticket /\ h.again = q.again /\ started' = Append(started, h)
    BY <2>1 DEF Start, Reservations, Starts
  <2>3. /\ DOMAIN started' = DOMAIN started \cup {Len(started) + 1}
        /\ \A i \in DOMAIN started : started'[i] = started[i]
        /\ started'[Len(started) + 1] = h
    BY <1>0, <2>2, OneMoreEntry
  <2>4. /\ \A s \in Requests \ {r} : request'[s] = request[s]
        /\ request'[r].pc \in {"commit", "idle"}
        /\ request'[r].pc = "commit" =>
             /\ q.pc = "inner" /\ request'[r].ticket = q.ticket
             /\ request'[r].visitor = q.visitor /\ request'[r].day = q.day
    BY <1>0, <2>1 DEF Reservations
  <2>5. h.again
    BY <2>1 DEF TypeOK
  <2> HIDE DEF q, h
  <2>6. StartsFit'
    <3>1. \A i \in DOMAIN grants' : \E k \in DOMAIN started' : started'[k].ticket = grants'[i].ticket
      BY <2>1, <2>3 DEF StartsFit
    <3>2. \A k \in DOMAIN started' :
            started'[k].again \/ \E i \in DOMAIN grants' : grants'[i].ticket = started'[k].ticket
      <4>1. ASSUME NEW k \in DOMAIN started
            PROVE  started'[k].again \/ \E i \in DOMAIN grants' : grants'[i].ticket = started'[k].ticket
        BY <2>1, <2>3 DEF StartsFit
      <4>2. started'[Len(started) + 1].again
        BY <2>3, <2>5
      <4> QED BY <2>3, <4>1, <4>2
    <3> QED BY <3>1, <3>2 DEF StartsFit
  <2> USE DEF q
  <2>7. /\ OpenReservations' \subseteq OpenReservations
        /\ \A s \in OpenReservations' : request'[s].visitor = request[s].visitor /\ request'[s].day = request[s].day
    BY <2>4 DEF OpenReservations
  <2>8. \A s \in Requests : request'[s].pc = "commit" =>
          \E k \in DOMAIN started' : started'[k].ticket = request'[s].ticket
    BY <2>2, <2>3, <2>4 DEF OpenFits
  <2>9. OpenFits'
    BY <2>1, <2>7, <2>8 DEF OpenFits
  <2>10. SameCounters
    BY <2>1 DEF SameCounters
  <2> QED BY <2>1, <2>6, <2>9, <2>10, CountersStay
<1>5. ASSUME NEW r \in Requests, CommitReservation(r) PROVE CountersFit' /\ StartsFit' /\ OpenFits'
  <2> DEFINE q == request[r]
             g == [ticket |-> q.ticket, visitor |-> q.visitor, day |-> q.day]
  <2>1. q \in Reservations /\ q.pc = "commit" /\ Count(q) /\ started' = started
    BY <1>0, <1>5, ReservationTypes DEF CommitReservation, InHand
  <2>2. request'[r].pc = "idle" /\ \A s \in Requests \ {r} : request'[s] = request[s]
    BY <1>0, <1>5 DEF CommitReservation
  <2>3. g \in Grants /\ g.ticket = q.ticket /\ grants' = Append(grants, g)
    BY <2>1 DEF Count, Reservations, Grants
  <2>4. r \in OpenReservations
    BY <2>1 DEF OpenReservations
  <2>5. /\ Room(quota, q.visitor, q.day) /\ OpenReservations = {r}
        /\ \E k \in DOMAIN started : started[k].ticket = q.ticket
    BY <2>1, <2>4 DEF OpenFits
  <2> HIDE DEF q, g
  <2>6. CountersFit'
    BY <2>1, <2>5, CountKeeps
  <2>7. /\ DOMAIN grants' = DOMAIN grants \cup {Len(grants) + 1}
        /\ \A i \in DOMAIN grants : grants'[i] = grants[i]
        /\ grants'[Len(grants) + 1] = g
    BY <1>0, <2>3, OneMoreEntry
  <2>8. StartsFit'
    BY <2>1, <2>3, <2>5, <2>7 DEF StartsFit
  <2>9. OpenReservations' = {}
    BY <2>2, <2>5 DEF OpenReservations
  <2>10. \A s \in Requests : request'[s].pc # "commit"
    BY <2>9 DEF OpenReservations
  <2> QED BY <2>6, <2>8, <2>9, <2>10 DEF OpenFits
<1>6. ASSUME NEW r \in Requests, FinishAuthorize(r) \/ ReservationExpires(r) \/ RetryReservation(r) \/ RequestFails(r)
      PROVE CountersFit' /\ StartsFit' /\ OpenFits'
  <2>1. SameCounters /\ UNCHANGED <<grants, started>>
    BY <1>6 DEF FinishAuthorize, ReservationExpires, RetryReservation, RequestFails, history, SameCounters
  <2>2. \A q \in Requests : request'[q] = request[q] \/ request'[q].pc \notin {"inner", "commit"}
    <3>1. CASE FinishAuthorize(r) \/ RequestFails(r)
      BY <1>0, <3>1 DEF FinishAuthorize, RequestFails
    <3>2. CASE ReservationExpires(r) \/ RetryReservation(r)
      <4>1. request[r] \in Reservations
        BY <1>0, <3>2, ReservationTypes DEF ReservationExpires, RetryReservation, InHand
      <4> QED BY <1>0, <3>2, <4>1 DEF ReservationExpires, RetryReservation, Reservations
    <3> QED BY <1>6, <3>1, <3>2
  <2> QED BY <1>1, <2>1, <2>2
<1>7. ASSUME NEW v \in Visitors, NEW p \in Projects, CreateProject(v, p)
      PROVE CountersFit' /\ StartsFit' /\ OpenFits'
  <2>1. SameCounters
    BY <1>0, <1>7 DEF CreateProject, QuotaType, SameCounters
  <2> QED BY <1>1, <1>7, <2>1 DEF CreateProject, history
<1>8. ASSUME NEW v \in Visitors, NEW p \in Projects, NEW r \in Requests,
             \/ \E c \in Challenges : BeginAuthorize(r, v, p, c)
             \/ \E k \in 1..MaxTickets, again \in BOOLEAN : ConsumeTicket(r, v, p, k, again)
      PROVE CountersFit' /\ StartsFit' /\ OpenFits'
  <2>1. SameCounters /\ UNCHANGED <<grants, started>>
    BY <1>8 DEF BeginAuthorize, ConsumeTicket, history, SameCounters
  <2>2. \A q \in Requests : request'[q] = request[q] \/ request'[q].pc \notin {"inner", "commit"}
    BY <1>0, <1>8 DEF BeginAuthorize, ConsumeTicket
  <2> QED BY <1>1, <2>1, <2>2
<1>9. CASE UNCHANGED <<quota, grants, started, request>>
  BY <1>1, <1>9 DEF SameCounters
<1>10. ASSUME NEW v \in Visitors, NEW p \in Projects,
              \/ RemoveProject(v, p) \/ QueueFollowing(v, p) \/ ReadJob(v, p)
              \/ JobEnds(p) \/ JobLost(p) \/ Expire(p)
              \/ \E c \in Challenges : CreateChallenge(v, p, c)
       PROVE CountersFit' /\ StartsFit' /\ OpenFits'
  BY <1>9, <1>10 DEF RemoveProject, QueueFollowing, ReadJob, JobEnds, JobLost, Expire, JobTo,
                     CreateChallenge, history
<1>11. ASSUME NEW p \in Projects, JobEnds(p) \/ JobLost(p) \/ Expire(p)
       PROVE CountersFit' /\ StartsFit' /\ OpenFits'
  BY <1>9, <1>11 DEF JobEnds, JobLost, Expire, JobTo, history
<1>12. CASE SelectExpired \/ DeleteSelected \/ Tick \/ UNCHANGED vars
  BY <1>9, <1>12 DEF SelectExpired, DeleteSelected, Tick, vars, history
<1>13. CASE Restart
  <2>1. SameCounters /\ UNCHANGED <<grants, started>> /\ \A q \in Requests : request'[q].pc = "idle"
    BY <1>0, <1>13 DEF Restart, SameCounters
  <2> QED BY <1>1, <2>1
<1> QED BY <1>2, <1>3, <1>4, <1>5, <1>6, <1>7, <1>8, <1>10, <1>11, <1>12, <1>13 DEF Next

\* Each counter is the number of committed reservations and never over its limit, and
\* each of these has queued its job, whatever was refused, retried or lost in between;
\* a first generation is queued together with its count. Only a regeneration's job may
\* stay without one, since it commits before the counters do (reserveRealGeneration).
THEOREM QuotasAreKept == Spec => []QuotasCountGrants
<1>1. QuotaInv => QuotasCountGrants
  BY DEF QuotaInv, QuotasCountGrants, CountersFit, StartsFit
<1> QED BY <1>1, TypeCorrect, QuotaInit, QuotaStep, PTL DEF Spec

-----------------------------------------------------------------------------
(* Tickets.                                                                *)

\* A ticket is in the map, with one request, or spent; only a regeneration that is
\* retried has it in hand after it queued a job, and then in a later attempt.
TicketsAreApart ==
  /\ \A e \in tickets : e.nr <= issued
  /\ \A r \in Requests : request[r].pc \in InHand =>
       /\ request[r].ticket <= issued
       /\ request[r].attempt > 0 => RealGeneration
       /\ \A e \in tickets : e.nr # request[r].ticket
       /\ \A i \in DOMAIN grants : grants[i].ticket # request[r].ticket
       /\ \A k \in DOMAIN started : started[k].ticket = request[r].ticket =>
            /\ started[k].again /\ request[r].again
            /\ started[k].attempt < request[r].attempt + (IF request[r].pc = "commit" THEN 1 ELSE 0)
       /\ \A q \in Requests :
            request[q].pc \in InHand /\ request[q].ticket = request[r].ticket => q = r
  /\ \A i \in DOMAIN grants : /\ grants[i].ticket <= issued
                              /\ \A e \in tickets : e.nr # grants[i].ticket
  /\ \A k \in DOMAIN started : /\ started[k].ticket <= issued
                               /\ \A e \in tickets : e.nr # started[k].ticket
  /\ TicketGrantsOnce

LEMMA TicketInit == Init => TicketsAreApart
BY DEF Init, TicketsAreApart, TicketGrantsOnce, Idle, InHand

\* Fewer tickets and fewer requests in flight leave the rest apart.
LEMMA TicketsDrop ==
  ASSUME TicketsAreApart, tickets' \subseteq tickets, UNCHANGED <<issued, grants, started>>,
         \A r \in Requests : request'[r] = request[r] \/ request'[r].pc \notin InHand
  PROVE  TicketsAreApart'
BY DEF TicketsAreApart, TicketGrantsOnce

\* A reservation that moves on with its ticket.
LEMMA TicketKept ==
  ASSUME TicketsAreApart, UNCHANGED <<tickets, issued, grants, started>>, NEW r \in Requests,
         request[r].pc \in InHand, request'[r].pc \in InHand,
         request'[r].ticket = request[r].ticket, request'[r].again = request[r].again,
         request'[r].attempt > 0 => RealGeneration,
         \A k \in DOMAIN started : started[k].ticket = request[r].ticket =>
           started[k].attempt < request'[r].attempt + (IF request'[r].pc = "commit" THEN 1 ELSE 0),
         \A q \in Requests \ {r} : request'[q] = request[q]
  PROVE  TicketsAreApart'
BY DEF TicketsAreApart, TicketGrantsOnce

\* The same numbers, as the provers need them.
LEMMA TicketNumbers ==
  ASSUME TypeOK
  PROVE  /\ issued \in Nat
         /\ \A e \in tickets : e.nr \in Nat
         /\ \A i \in DOMAIN grants : grants[i].ticket \in Nat
         /\ \A k \in DOMAIN started : started[k].ticket \in Nat /\ started[k].attempt \in Nat
         /\ \A r \in Requests : request[r].pc \in InHand =>
              request[r].ticket \in Nat /\ request[r].attempt \in Nat
<1>1. \A i \in DOMAIN grants : grants[i] \in Grants
  BY DEF TypeOK
<1>2. \A k \in DOMAIN started : started[k] \in Starts
  BY DEF TypeOK
<1>3. \A r \in Requests : request[r].pc \in InHand => request[r] \in Reservations
  BY ReservationTypes DEF TypeOK
<1>4. issued \in Nat /\ \A e \in tickets : e.nr \in Nat
  BY LimitTypes DEF TypeOK, Tickets
<1> QED BY <1>1, <1>2, <1>3, <1>4, LimitTypes DEF Grants, Starts, Reservations

LEMMA TicketStep == TypeOK /\ TicketsAreApart /\ [Next]_vars => TicketsAreApart'
<1> SUFFICES ASSUME TypeOK, TicketsAreApart, [Next]_vars PROVE TicketsAreApart'
  OBVIOUS
<1>0. /\ tickets \subseteq Tickets /\ request \in [Requests -> RequestType]
      /\ grants \in Seq(Grants) /\ started \in Seq(Starts)
      /\ Idle.pc = "idle" /\ "idle" \notin InHand /\ "verify" \notin InHand
  BY DEF TypeOK, Idle, InHand
<1>n. /\ issued \in Nat
      /\ \A e \in tickets : e.nr \in Nat
      /\ \A i \in DOMAIN grants : grants[i].ticket \in Nat
      /\ \A k \in DOMAIN started : started[k].ticket \in Nat /\ started[k].attempt \in Nat
      /\ \A r \in Requests : request[r].pc \in InHand =>
           request[r].ticket \in Nat /\ request[r].attempt \in Nat
  BY TicketNumbers
<1>u. Unexpired(tickets) \subseteq tickets
  BY DEF Unexpired
<1>1. ASSUME NEW r \in Requests, FinishAuthorize(r) PROVE TicketsAreApart'
  <2>1. /\ issued' = issued + 1 /\ grants' = grants /\ started' = started
        /\ \A e \in tickets' : e \in tickets \/ e.nr = issued + 1
    BY <1>1 DEF FinishAuthorize, Newest
  <2>2. \A q \in Requests : request'[q] = request[q] \/ request'[q].pc \notin InHand
    BY <1>0, <1>1 DEF FinishAuthorize
  <2> QED BY <1>n, <2>1, <2>2 DEF TicketsAreApart, TicketGrantsOnce
<1>2. ASSUME NEW r \in Requests, NEW v \in Visitors, NEW p \in Projects, NEW k \in 1..MaxTickets,
             NEW again \in BOOLEAN, ConsumeTicket(r, v, p, k, again)
      PROVE TicketsAreApart'
  <2>1. /\ tickets' \subseteq tickets /\ \A e \in tickets' : e.nr # k
        /\ UNCHANGED <<issued, grants, started>> /\ \E e \in tickets : e.nr = k
    BY <1>2, <1>u DEF ConsumeTicket, Without, history
  <2>2. /\ \/ request'[r] = request[r]
           \/ request'[r].pc = "reserve" /\ request'[r].ticket = k /\ request'[r].attempt = 0
        /\ \A q \in Requests \ {r} : request'[q] = request[q]
    BY <1>0, <1>2 DEF ConsumeTicket
  <2>3. CASE request'[r] = request[r]
    <3>1. \A q \in Requests : request'[q] = request[q]
      BY <2>2, <2>3
    <3> QED BY <2>1, <3>1, TicketsDrop
  <2>4. CASE request'[r].pc = "reserve" /\ request'[r].ticket = k /\ request'[r].attempt = 0
    BY <1>n, <2>1, <2>2, <2>4 DEF TicketsAreApart, TicketGrantsOnce
  <2> QED BY <2>2, <2>3, <2>4
<1>3. ASSUME NEW r \in Requests, Reserve(r) \/ CommitReservation(r) \/ Regenerate(r)
      PROVE  /\ request[r] \in Reservations /\ request[r].pc \in InHand
             /\ \A q \in Requests \ {r} : request'[q] = request[q]
             /\ UNCHANGED <<tickets, issued>>
  <2>1. request[r].pc \in InHand
    BY <1>3 DEF Reserve, CommitReservation, Regenerate, InHand
  <2> QED BY <1>0, <1>3, <2>1, ReservationTypes DEF Reserve, CommitReservation, Regenerate, memory
<1>4. ASSUME NEW q \in Reservations, Count(q)
      PROVE  /\ DOMAIN grants' = DOMAIN grants \cup {Len(grants) + 1}
             /\ \A i \in DOMAIN grants : grants'[i] = grants[i]
             /\ grants'[Len(grants) + 1].ticket = q.ticket
  <2> DEFINE g == [ticket |-> q.ticket, visitor |-> q.visitor, day |-> q.day]
  <2>1. g \in Grants /\ g.ticket = q.ticket /\ grants' = Append(grants, g)
    BY <1>4 DEF Count, Reservations, Grants
  <2> HIDE DEF g
  <2> QED BY <1>0, <2>1, OneMoreEntry
<1>5. ASSUME NEW q \in Reservations, Start(q)
      PROVE  /\ DOMAIN started' = DOMAIN started \cup {Len(started) + 1}
             /\ \A i \in DOMAIN started : started'[i] = started[i]
             /\ started'[Len(started) + 1].ticket = q.ticket
             /\ started'[Len(started) + 1].again = q.again
             /\ started'[Len(started) + 1].attempt = q.attempt
  <2> DEFINE h == [ticket |-> q.ticket, again |-> q.again, attempt |-> q.attempt]
  <2>1. /\ h \in Starts /\ started' = Append(started, h)
        /\ h.ticket = q.ticket /\ h.again = q.again /\ h.attempt = q.attempt
    BY <1>5 DEF Start, Reservations, Starts
  <2> HIDE DEF h
  <2> QED BY <1>0, <2>1, OneMoreEntry
<1>6. ASSUME NEW r \in Requests, Reserve(r) PROVE TicketsAreApart'
  <2>1. ~request[r].again /\ Count(request[r]) /\ Start(request[r]) /\ request'[r].pc = "idle"
    BY <1>0, <1>6 DEF Reserve
  <2>2. \A k \in DOMAIN started : started[k].ticket # request[r].ticket
    BY <1>3, <1>6, <2>1 DEF TicketsAreApart
  <2> DEFINE t == request[r].ticket
  <2>3. /\ DOMAIN grants' = DOMAIN grants \cup {Len(grants) + 1}
        /\ \A i \in DOMAIN grants : grants'[i] = grants[i]
        /\ grants'[Len(grants) + 1].ticket = t
        /\ DOMAIN started' = DOMAIN started \cup {Len(started) + 1}
        /\ \A i \in DOMAIN started : started'[i] = started[i]
        /\ started'[Len(started) + 1].ticket = t
    BY <1>3, <1>4, <1>5, <1>6, <2>1
  <2>4. /\ t <= issued /\ \A e \in tickets : e.nr # t
        /\ \A i \in DOMAIN grants : grants[i].ticket # t
        /\ \A q \in Requests : request[q].pc \in InHand /\ request[q].ticket = t => q = r
        /\ \A k \in DOMAIN started : started[k].ticket # t
    BY <1>3, <1>6, <2>2 DEF TicketsAreApart
  <2>5. \A q \in Requests : request'[q].pc \in InHand => q # r /\ request'[q] = request[q]
    BY <1>0, <1>3, <1>6, <2>1
  <2> HIDE DEF t
  <2>6. TicketGrantsOnce'
    <3>1. \A i, k \in DOMAIN grants' : grants'[i].ticket = grants'[k].ticket => i = k
      BY <2>3, <2>4 DEF TicketsAreApart, TicketGrantsOnce
    <3>2. \A i, k \in DOMAIN started :
            started[i].ticket = started[k].ticket /\ i # k =>
              RealGeneration /\ started[i].again /\ started[i].attempt # started[k].attempt
      BY DEF TicketsAreApart, TicketGrantsOnce
    <3>3. ASSUME NEW i \in DOMAIN started', NEW k \in DOMAIN started',
                 started'[i].ticket = started'[k].ticket, i # k
          PROVE  RealGeneration /\ started'[i].again /\ started'[i].attempt # started'[k].attempt
      <4>1. i \in DOMAIN started /\ k \in DOMAIN started
        BY <2>3, <2>4, <3>3
      <4> QED BY <2>3, <3>2, <3>3, <4>1
    <3> QED BY <3>1, <3>3 DEF TicketGrantsOnce
  <2>7. /\ \A i \in DOMAIN grants' : grants'[i].ticket <= issued /\ \A e \in tickets : e.nr # grants'[i].ticket
        /\ \A k \in DOMAIN started' : started'[k].ticket <= issued /\ \A e \in tickets : e.nr # started'[k].ticket
    BY <2>3, <2>4 DEF TicketsAreApart
  <2>8. ASSUME NEW s \in Requests, request'[s].pc \in InHand
        PROVE  /\ request[s].pc \in InHand /\ request[s].ticket # t /\ request'[s] = request[s]
    BY <1>3, <1>6, <2>4, <2>5, <2>8
  <2>9. ASSUME NEW s \in Requests, request'[s].pc \in InHand
        PROVE  /\ \A i \in DOMAIN grants' : grants'[i].ticket # request'[s].ticket
               /\ \A k \in DOMAIN started' : started'[k].ticket = request'[s].ticket =>
                    k \in DOMAIN started /\ started'[k] = started[k]
    BY <2>3, <2>8, <2>9 DEF TicketsAreApart
  <2> QED BY <1>3, <1>6, <2>6, <2>7, <2>8, <2>9 DEF TicketsAreApart
<1>7. ASSUME NEW r \in Requests, CommitReservation(r) PROVE TicketsAreApart'
  <2>1. Count(request[r]) /\ started' = started /\ request'[r].pc = "idle"
    BY <1>0, <1>7 DEF CommitReservation
  <2> QED BY <1>0, <1>3, <1>4, <1>7, <2>1 DEF TicketsAreApart, TicketGrantsOnce
<1>8. ASSUME NEW r \in Requests, Regenerate(r) PROVE TicketsAreApart'
  <2> DEFINE q == request[r]
  <2>1. Start(q) /\ grants' = grants /\ q.pc \in {"inner", "late"} /\ q \in Reservations
    BY <1>3, <1>8 DEF Regenerate
  <2>2. /\ request'[r].pc \in {"commit", "idle"}
        /\ request'[r].pc = "commit" =>
             request'[r].ticket = q.ticket /\ request'[r].again = q.again /\ request'[r].attempt = q.attempt
    BY <1>0, <1>8, <2>1 DEF Regenerate, Reservations
  <2>3. q.again
    BY <2>1 DEF TypeOK
  <2>4. \A k \in DOMAIN started : started[k].ticket = q.ticket => started[k].again /\ started[k].attempt < q.attempt
    BY <1>3, <1>8, <1>n, <2>1 DEF TicketsAreApart
  <2>5. \A k \in DOMAIN started : started[k].ticket = q.ticket => RealGeneration
    <3>1. q.attempt \in Nat /\ (q.attempt > 0 => RealGeneration)
      BY <1>3, <1>8, <1>n DEF TicketsAreApart
    <3> HIDE DEF q
    <3>2. \A k \in DOMAIN started : started[k].ticket = q.ticket => q.attempt > 0
      BY <1>n, <2>4, <3>1
    <3> QED BY <3>1, <3>2
  <2>s. /\ DOMAIN started' = DOMAIN started \cup {Len(started) + 1}
        /\ \A i \in DOMAIN started : started'[i] = started[i]
        /\ started'[Len(started) + 1].ticket = q.ticket
        /\ started'[Len(started) + 1].again = q.again
        /\ started'[Len(started) + 1].attempt = q.attempt
    BY <1>5, <2>1
  <2>6. TicketGrantsOnce'
    <3>1. \A i, k \in DOMAIN grants' : grants'[i].ticket = grants'[k].ticket => i = k
      BY <2>1 DEF TicketsAreApart, TicketGrantsOnce
    <3>2. \A i, k \in DOMAIN started :
            started[i].ticket = started[k].ticket /\ i # k =>
              RealGeneration /\ started[i].again /\ started[i].attempt # started[k].attempt
      BY DEF TicketsAreApart, TicketGrantsOnce
    <3>3. \A k \in DOMAIN started : started[k].ticket = q.ticket =>
            RealGeneration /\ started[k].again /\ started[k].attempt # q.attempt
      BY <1>n, <2>4, <2>5
    <3> HIDE DEF q
    <3>4. ASSUME NEW i \in DOMAIN started', NEW k \in DOMAIN started',
                 started'[i].ticket = started'[k].ticket, i # k
          PROVE  RealGeneration /\ started'[i].again /\ started'[i].attempt # started'[k].attempt
      BY <2>3, <2>s, <3>2, <3>3, <3>4
    <3> QED BY <3>1, <3>4 DEF TicketGrantsOnce
  <2>7. ASSUME NEW s \in Requests \ {r}, request'[s].pc \in InHand
        PROVE  request'[s] = request[s] /\ request[s].ticket # q.ticket
    BY <1>3, <1>8, <2>7 DEF TicketsAreApart
  <2>8. /\ q.ticket <= issued /\ \A e \in tickets : e.nr # q.ticket
        /\ \A i \in DOMAIN grants : grants[i].ticket # q.ticket
        /\ q.attempt > 0 => RealGeneration
    BY <1>3, <1>8 DEF TicketsAreApart
  <2>9. \A k \in DOMAIN started' : started'[k].ticket <= issued /\ \A e \in tickets : e.nr # started'[k].ticket
    BY <2>s, <2>8 DEF TicketsAreApart
  <2>10. ASSUME NEW s \in Requests \ {r}, request'[s].pc \in InHand, NEW k \in DOMAIN started',
                started'[k].ticket = request'[s].ticket
         PROVE  k \in DOMAIN started /\ started'[k] = started[k]
    BY <2>s, <2>7, <2>10
  <2>11. ASSUME request'[r].pc \in InHand, NEW k \in DOMAIN started', started'[k].ticket = request'[r].ticket
         PROVE  /\ started'[k].again /\ request'[r].again /\ request'[r].pc = "commit"
                /\ started'[k].attempt < request'[r].attempt + 1
    <3>1. request'[r].pc = "commit"
      BY <1>0, <2>2, <2>11
    <3>2. request'[r].again /\ request'[r].attempt = q.attempt /\ request'[r].ticket = q.ticket
      BY <2>2, <2>3, <3>1
    <3>3. q.attempt \in Nat
      BY <1>3, <1>8, <1>n
    <3> HIDE DEF q
    <3>4. CASE k \in DOMAIN started
      <4>1. started[k].again /\ started[k].attempt < q.attempt /\ started[k].attempt \in Nat
        BY <1>n, <2>4, <2>s, <2>11, <3>2, <3>4
      <4> QED BY <2>s, <3>1, <3>2, <3>3, <3>4, <4>1
    <3>5. CASE k = Len(started) + 1
      <4>1. started'[k].again
        BY <2>3, <2>s, <3>5
      <4>2. started'[k].attempt = q.attempt
        BY <2>s, <3>5
      <4> QED BY <3>1, <3>2, <3>3, <4>1, <4>2
    <3> QED BY <2>s, <3>4, <3>5
  <2>12. ASSUME NEW s \in Requests, request'[s].pc \in InHand
         PROVE  /\ request'[s].ticket = request[s].ticket /\ request[s].pc \in InHand
                /\ request'[s].attempt = request[s].attempt /\ request'[s].again = request[s].again
    BY <1>0, <1>3, <1>8, <2>2, <2>7, <2>12
  <2>13. ASSUME NEW s \in Requests, request'[s].pc \in InHand
         PROVE  \A k \in DOMAIN started' : started'[k].ticket = request'[s].ticket =>
                  /\ started'[k].again /\ request'[s].again
                  /\ started'[k].attempt < request'[s].attempt + (IF request'[s].pc = "commit" THEN 1 ELSE 0)
    <3>1. CASE s = r
      BY <2>11, <2>13, <3>1
    <3>2. CASE s # r
      BY <2>7, <2>10, <2>13, <3>2 DEF TicketsAreApart
    <3> QED BY <3>1, <3>2
  <2> HIDE DEF q
  <2> QED BY <1>3, <1>8, <2>1, <2>6, <2>9, <2>12, <2>13 DEF TicketsAreApart
<1>9. ASSUME NEW r \in Requests, OpenReservation(r) \/ ReservationExpires(r) \/ RetryReservation(r)
      PROVE TicketsAreApart'
  <2>1. request[r].pc \in InHand /\ request[r].pc # "late"
    BY <1>9 DEF OpenReservation, ReservationExpires, RetryReservation, InHand
  <2>2. request[r] \in Reservations /\ request[r].attempt \in Nat
    BY <1>0, <1>n, <2>1, ReservationTypes
  <2>3. /\ request'[r].pc \in InHand \ {"commit"} /\ request'[r].ticket = request[r].ticket
        /\ request'[r].again = request[r].again
        /\ \A q \in Requests \ {r} : request'[q] = request[q]
        /\ IF request[r].pc = "commit" THEN request'[r].attempt = request[r].attempt + 1 /\ RealGeneration
                                       ELSE request'[r].attempt = request[r].attempt
    BY <1>0, <1>9, <2>2 DEF OpenReservation, ReservationExpires, RetryReservation, Reservations, InHand
  <2>4. UNCHANGED <<tickets, issued, grants, started>>
    BY <1>9 DEF OpenReservation, ReservationExpires, RetryReservation, memory, history
  <2>5. /\ request'[r].attempt > 0 => RealGeneration
        /\ \A k \in DOMAIN started : started[k].ticket = request[r].ticket =>
             started[k].attempt < request'[r].attempt + (IF request'[r].pc = "commit" THEN 1 ELSE 0)
    BY <1>n, <2>1, <2>2, <2>3 DEF TicketsAreApart
  <2> QED BY <2>1, <2>3, <2>4, <2>5, TicketKept
<1>10. ASSUME NEW v \in Visitors, NEW p \in Projects,
              CreateProject(v, p) \/ RemoveProject(v, p) \/ QueueFollowing(v, p) \/ ReadJob(v, p)
       PROVE TicketsAreApart'
  BY <1>10, TicketsDrop DEF CreateProject, RemoveProject, QueueFollowing, ReadJob, JobTo, memory, history
<1>11. ASSUME NEW v \in Visitors, NEW p \in Projects, NEW c \in Challenges, CreateChallenge(v, p, c)
       PROVE TicketsAreApart'
  BY <1>11, <1>u, TicketsDrop DEF CreateChallenge, history
<1>12. ASSUME NEW r \in Requests, NEW v \in Visitors, NEW p \in Projects, NEW c \in Challenges,
              BeginAuthorize(r, v, p, c)
       PROVE TicketsAreApart'
  <2>1. \A q \in Requests : request'[q] = request[q] \/ request'[q].pc = "verify"
    BY <1>0, <1>12 DEF BeginAuthorize
  <2> QED BY <1>0, <1>12, <1>u, <2>1, TicketsDrop DEF BeginAuthorize, history
<1>13. ASSUME NEW r \in Requests, RequestFails(r) PROVE TicketsAreApart'
  <2>1. \A q \in Requests : request'[q] = request[q] \/ request'[q].pc = "idle"
    BY <1>0, <1>13 DEF RequestFails
  <2> QED BY <1>0, <1>13, <2>1, TicketsDrop DEF RequestFails, memory, history
<1>14. ASSUME NEW p \in Projects, JobEnds(p) \/ JobLost(p) \/ Expire(p) PROVE TicketsAreApart'
  BY <1>14, TicketsDrop DEF JobEnds, JobLost, Expire, JobTo, memory, history
<1>15. CASE SelectExpired \/ DeleteSelected \/ Tick \/ UNCHANGED vars
  BY <1>15, TicketsDrop DEF SelectExpired, DeleteSelected, Tick, vars, memory, history
<1>16. CASE Restart
  BY <1>0, <1>16, TicketsDrop DEF Restart
<1> QED BY <1>1, <1>2, <1>6, <1>7, <1>8, <1>9, <1>10, <1>11, <1>12, <1>13, <1>14, <1>15, <1>16 DEF Next

\* However requests overlap, a ticket is counted at most once, and only a regeneration
\* whose counters conflict after its job was committed starts more than one job with it,
\* one in each attempt of the retry loop.
THEOREM TicketsAreSpentOnce == Spec => []TicketGrantsOnce
<1>1. TicketsAreApart => TicketGrantsOnce
  BY DEF TicketsAreApart
<1> QED BY <1>1, TypeCorrect, TicketInit, TicketStep, PTL DEF Spec

-----------------------------------------------------------------------------
(* Cleanup.                                                                *)

\* What the running statement has selected is expired and idle, and stays so:
\* an expired project is visible to nobody, so nobody queues a job for it.
SelectedAreIdle ==
  \A p \in cleaner : project[p].expired /\ project[p].job \notin ActiveJobs

LEMMA CleanerStep == TypeOK /\ SelectedAreIdle /\ [Next]_vars => SelectedAreIdle'
<1> SUFFICES ASSUME TypeOK, SelectedAreIdle, [Next]_vars PROVE SelectedAreIdle'
  OBVIOUS
<1>0. project \in [Projects -> ProjectType] /\ cleaner \subseteq Projects
  BY DEF TypeOK
<1>1. CASE cleaner' = {}
  BY <1>1 DEF SelectedAreIdle
<1>2. CASE UNCHANGED <<project, cleaner>>
  BY <1>2 DEF SelectedAreIdle
<1>3. ASSUME NEW v \in Visitors, NEW p \in Projects,
             CreateProject(v, p) \/ RemoveProject(v, p) \/ QueueFollowing(v, p) \/ ReadJob(v, p)
      PROVE SelectedAreIdle'
  <2>1. cleaner' = cleaner /\ \A q \in Projects \ {p} : project'[q] = project[q]
    BY <1>0, <1>3 DEF CreateProject, RemoveProject, QueueFollowing, ReadJob, JobTo
  <2>2. ~project[p].expired
    BY <1>3 DEF CreateProject, RemoveProject, QueueFollowing, ReadJob, CanQueue, Visible, None
  <2> QED BY <1>0, <2>1, <2>2 DEF SelectedAreIdle
<1>4. ASSUME NEW p \in Projects, JobEnds(p) \/ JobLost(p) \/ Expire(p) PROVE SelectedAreIdle'
  <2>1. cleaner' = cleaner /\ \A q \in Projects \ {p} : project'[q] = project[q]
    BY <1>0, <1>4 DEF JobEnds, JobLost, Expire, JobTo
  <2>2. p \notin cleaner
    BY <1>4 DEF JobEnds, JobLost, Expire, JobTo, SelectedAreIdle, ActiveJobs
  <2> QED BY <1>0, <2>1, <2>2 DEF SelectedAreIdle
<1>5. ASSUME NEW r \in Requests, Reserve(r) \/ Regenerate(r) PROVE SelectedAreIdle'
  <2> DEFINE p == request[r].project
  <2>1. p \notin cleaner
    BY <1>5 DEF Reserve, Regenerate, CanQueue, Visible, SelectedAreIdle
  <2>2. cleaner' = cleaner /\ \A q \in Projects \ {p} : project'[q] = project[q]
    BY <1>0, <1>5 DEF Reserve, Regenerate, Start
  <2> QED BY <1>0, <2>1, <2>2 DEF SelectedAreIdle
<1>6. CASE SelectExpired
  BY <1>6 DEF SelectExpired, Deletable, SelectedAreIdle
<1>7. ASSUME NEW v \in Visitors, NEW p \in Projects, NEW c \in Challenges, CreateChallenge(v, p, c)
      PROVE SelectedAreIdle'
  BY <1>2, <1>7 DEF CreateChallenge
<1>8. ASSUME NEW r \in Requests, NEW v \in Visitors, NEW p \in Projects,
             \/ \E c \in Challenges : BeginAuthorize(r, v, p, c)
             \/ \E k \in 1..MaxTickets, again \in BOOLEAN : ConsumeTicket(r, v, p, k, again)
      PROVE SelectedAreIdle'
  BY <1>2, <1>8 DEF BeginAuthorize, ConsumeTicket
<1>9. ASSUME NEW r \in Requests,
             \/ FinishAuthorize(r) \/ RequestFails(r) \/ OpenReservation(r)
             \/ ReservationExpires(r) \/ CommitReservation(r) \/ RetryReservation(r)
      PROVE SelectedAreIdle'
  BY <1>2, <1>9 DEF FinishAuthorize, RequestFails, OpenReservation, ReservationExpires,
                    CommitReservation, RetryReservation
<1>10. CASE DeleteSelected \/ Restart
  BY <1>1, <1>10 DEF DeleteSelected, Restart
<1>11. CASE Tick \/ UNCHANGED vars
  BY <1>2, <1>11 DEF Tick, vars
<1> QED BY <1>3, <1>4, <1>5, <1>6, <1>7, <1>8, <1>9, <1>10, <1>11 DEF Next

\* A project leaves only while no job of it is active, although the cleanup
\* selects first and deletes later.
THEOREM ActiveProjectsStay == Spec => ActiveJobKeepsProject
<1>1. Init => SelectedAreIdle
  BY DEF Init, SelectedAreIdle
<1>2. TypeOK /\ SelectedAreIdle /\ [Next]_vars =>
        [\A p \in Projects : project[p].state = "live" /\ project'[p].state = "gone"
                               => project[p].job \notin ActiveJobs]_vars
  <2> SUFFICES ASSUME TypeOK, SelectedAreIdle, Next, NEW p \in Projects,
                      project[p].state = "live", project'[p].state = "gone"
               PROVE project[p].job \notin ActiveJobs
    BY DEF vars
  <2>0. project \in [Projects -> ProjectType]
    BY DEF TypeOK
  <2>1. ASSUME NEW v \in Visitors, NEW q \in Projects, RemoveProject(v, q)
        PROVE project[p].job \notin ActiveJobs
    BY <2>0, <2>1 DEF RemoveProject
  <2>2. CASE DeleteSelected
    BY <2>0, <2>2 DEF DeleteSelected, SelectedAreIdle
  <2>3. project' # project
    OBVIOUS
  <2>4. ASSUME NEW v \in Visitors, NEW q \in Projects, CreateProject(v, q) PROVE FALSE
    BY <2>0, <2>4 DEF CreateProject, None
  <2>5. ASSUME NEW q \in Projects, NEW job, project' = [project EXCEPT ![q].job = job] PROVE FALSE
    <3>1. project[q] \in ProjectType
      BY <2>0
    <3>2. [project[q] EXCEPT !.job = job].state = project[q].state
      BY <3>1 DEF ProjectType
    <3> QED BY <2>0, <2>5, <3>2
  <2>6. ASSUME NEW q \in Projects, Expire(q) PROVE FALSE
    <3>1. project[q] \in ProjectType
      BY <2>0
    <3>2. [project[q] EXCEPT !.expired = TRUE].state = project[q].state
      BY <3>1 DEF ProjectType
    <3> QED BY <2>0, <2>6, <3>2 DEF Expire
  <2>7. ASSUME NEW r \in Requests, Reserve(r) \/ Regenerate(r) PROVE FALSE
    <3>1. request[r] \in Reservations
      BY <2>7, ReservationTypes DEF Reserve, Regenerate, TypeOK, InHand
    <3>2. request[r].project \in Projects
      BY <3>1 DEF Reservations
    <3> QED BY <2>5, <2>7, <3>2 DEF Reserve, Regenerate, Start
  <2>8. ASSUME NEW v \in Visitors, NEW q \in Projects, QueueFollowing(v, q) \/ ReadJob(v, q) PROVE FALSE
    BY <2>5, <2>8 DEF QueueFollowing, ReadJob, JobTo
  <2>9. ASSUME NEW q \in Projects, JobEnds(q) \/ JobLost(q) PROVE FALSE
    BY <2>5, <2>9 DEF JobEnds, JobLost, JobTo
  <2>10. ASSUME NEW v \in Visitors, NEW q \in Projects,
                \/ \E c \in Challenges : CreateChallenge(v, q, c)
                \/ \E r \in Requests, c \in Challenges : BeginAuthorize(r, v, q, c)
                \/ \E r \in Requests, k \in 1..MaxTickets, again \in BOOLEAN :
                     ConsumeTicket(r, v, q, k, again)
         PROVE FALSE
    BY <2>3, <2>10 DEF CreateChallenge, BeginAuthorize, ConsumeTicket
  <2>11. ASSUME NEW r \in Requests,
                \/ FinishAuthorize(r) \/ RequestFails(r) \/ OpenReservation(r)
                \/ ReservationExpires(r) \/ CommitReservation(r) \/ RetryReservation(r)
         PROVE FALSE
    BY <2>3, <2>11 DEF FinishAuthorize, RequestFails, OpenReservation, ReservationExpires,
                       CommitReservation, RetryReservation
  <2>12. CASE SelectExpired \/ Tick \/ Restart
    BY <2>3, <2>12 DEF SelectExpired, Tick, Restart
  <2> QED BY <2>1, <2>2, <2>3, <2>4, <2>6, <2>7, <2>8, <2>9, <2>10, <2>11, <2>12 DEF Next
<1> QED BY <1>1, <1>2, CleanerStep, TypeCorrect, PTL DEF Spec, ActiveJobKeepsProject

-----------------------------------------------------------------------------
(* The map of used challenges.                                             *)

\* A set of numbers has a least one.
LEMMA LeastExists ==
  ASSUME NEW S \in SUBSET Nat, S # {}
  PROVE  \E c \in S : \A d \in S : c <= d
<1> DEFINE below == {0..c : c \in S}
<1>1. IsWellFoundedOn(StrictSubsetOrdering(Nat), FiniteSubsetsOf(Nat))
  BY FS_StrictSubsetOrderingWellFounded
<1>2. below \subseteq FiniteSubsetsOf(Nat) /\ below # {}
  <2>1. ASSUME NEW c \in S PROVE 0..c \in FiniteSubsetsOf(Nat)
    <3>1. IsFiniteSet(0..c)
      BY FS_Interval
    <3> QED BY <3>1 DEF FiniteSubsetsOf
  <2> QED BY <2>1
<1>3. PICK low \in below : \A high \in below : <<high, low>> \notin StrictSubsetOrdering(Nat)
  BY <1>1, <1>2, WFMin
<1>4. PICK c \in S : low = 0..c
  OBVIOUS
<1>5. ASSUME NEW d \in S, d < c PROVE FALSE
  <2>1. 0..d \in below /\ 0..d \subseteq low /\ 0..d # low
    BY <1>4, <1>5
  <2>2. <<0..d, low>> \in StrictSubsetOrdering(Nat)
    BY <2>1, <1>4 DEF StrictSubsetOrdering
  <2> QED BY <1>3, <2>1, <2>2
<1> QED BY <1>5

Numbered(S) == /\ IsFiniteSet(S) /\ \A e \in S : e.nr \in Nat
               /\ \A e, f \in S : e.nr = f.nr => e = f

\* A map within its capacity loses nothing.
LEMMA NewestKeepsAll ==
  ASSUME NEW S, NEW n \in Nat, Numbered(S), Cardinality(S) <= n
  PROVE  Newest(S, n) = S
<1>1. ASSUME NEW e \in S PROVE Cardinality({f \in S : f.nr > e.nr}) < n
  <2> DEFINE T == {f \in S : f.nr > e.nr}
  <2>1. T \subseteq S \ {e}
    BY DEF Numbered
  <2>2. IsFiniteSet(S \ {e}) /\ Cardinality(S \ {e}) = Cardinality(S) - 1 /\ Cardinality(S) \in Nat
    BY FS_RemoveElement, FS_CardinalityType DEF Numbered
  <2>3. Cardinality(T) \in Nat /\ Cardinality(T) <= Cardinality(S \ {e})
    BY <2>1, <2>2, FS_Subset, FS_CardinalityType
  <2> HIDE DEF T
  <2>4. Cardinality(T) < n
    BY <2>2, <2>3
  <2> QED BY <2>4 DEF T
<1> QED BY <1>1 DEF Newest

\* A map one over its capacity loses its oldest entry.
LEMMA NewestDropsOldest ==
  ASSUME NEW S, NEW n \in Nat, Numbered(S), Cardinality(S) = n + 1
  PROVE  \E m \in S : /\ \A e \in S : m.nr <= e.nr
                      /\ Newest(S, n) = S \ {m} /\ Cardinality(Newest(S, n)) = n
<1>1. S # {}
  BY FS_EmptySet DEF Numbered
<1>2. PICK least \in {e.nr : e \in S} : \A d \in {e.nr : e \in S} : least <= d
  <2>1. {e.nr : e \in S} \in SUBSET Nat /\ {e.nr : e \in S} # {}
    BY <1>1 DEF Numbered
  <2> QED BY <2>1, LeastExists
<1>3. PICK m \in S : m.nr = least
  OBVIOUS
<1>4. \A e \in S : m.nr <= e.nr
  BY <1>2, <1>3
<1>5. IsFiniteSet(S \ {m}) /\ Cardinality(S \ {m}) = n
  BY FS_RemoveElement, FS_CardinalityType DEF Numbered
<1>6. {f \in S : f.nr > m.nr} = S \ {m}
  BY <1>4 DEF Numbered
<1>7. ASSUME NEW e \in S, e # m PROVE Cardinality({f \in S : f.nr > e.nr}) < n
  <2> DEFINE T == {f \in S : f.nr > e.nr}
             R == (S \ {m}) \ {e}
  <2>1. T \subseteq R
    BY <1>4 DEF Numbered
  <2>2. IsFiniteSet(R) /\ Cardinality(R) = n - 1
    BY <1>5, <1>7, FS_RemoveElement
  <2>3. Cardinality(T) \in Nat /\ Cardinality(T) <= Cardinality(R)
    BY <2>1, <2>2, FS_Subset, FS_CardinalityType
  <2> HIDE DEF T, R
  <2>4. Cardinality(T) < n
    BY <2>2, <2>3
  <2> QED BY <2>4 DEF T
<1>8. Newest(S, n) = S \ {m}
  <2>1. Cardinality({f \in S : f.nr > m.nr}) = n
    BY <1>5, <1>6
  <2> QED BY <1>7, <2>1 DEF Newest
<1> QED BY <1>4, <1>5, <1>8

\* The map of used challenges: one entry per challenge, in the order of their
\* places. A challenge was issued before its solution was honoured, so it runs
\* out before its entry and before every later entry does.
UsedMap ==
  /\ Numbered(used) /\ Cardinality(used) <= UsedCap
  /\ \A e \in used : e.nr <= issued /\ challenge[e.key] # NoChallenge
  /\ \A e, f \in used : e.key = f.key => e = f
  /\ \A e, f \in used : e.nr <= f.nr => challenge[e.key].until <= f.until

IssuedLately ==
  \A c \in Challenges : challenge[c] # NoChallenge => challenge[c].until <= clock + ChallengeLife

\* A valid challenge that was honoured is in the map, or made room for a
\* challenge that runs out later.
MarkedIsKept == HonouredIsRemembered /\ \A c \in marked : challenge[c] # NoChallenge

Remembered == UsedMap /\ IssuedLately /\ MarkedIsKept

LEMMA RememberedInit == Init => Remembered
<1> SUFFICES ASSUME Init PROVE Remembered
  OBVIOUS
<1>1. IsFiniteSet({}) /\ Cardinality({}) = 0
  BY FS_EmptySet
<1> QED BY <1>1, LimitTypes DEF Init, Remembered, UsedMap, IssuedLately, MarkedIsKept, HonouredIsRemembered, Numbered

\* Time passes, a purge drops what has run out, a challenge is issued.
LEMMA RememberedKept ==
  ASSUME TypeOK, TypeOK', Remembered, UNCHANGED <<issued, marked>>, clock <= clock',
         used' = used \/ (used' = Unexpired(used) /\ clock' = clock),
         \A c \in Challenges : challenge[c] # NoChallenge => challenge'[c] = challenge[c],
         \A c \in Challenges : challenge'[c] # NoChallenge =>
           challenge'[c] = challenge[c] \/ challenge'[c].until = clock' + ChallengeLife
  PROVE  Remembered'
<1>0. /\ used \subseteq UsedEntries /\ marked \subseteq Challenges /\ clock \in Nat /\ clock' \in Nat
      /\ \A e \in used : e.key \in Challenges /\ e.nr \in Nat /\ e.until \in Nat
  BY LimitTypes DEF TypeOK, UsedEntries
<1>1. used' \subseteq used
  BY DEF Unexpired
<1>2. \A c \in Challenges : challenge[c] # NoChallenge => challenge[c].until \in Nat
  BY DEF TypeOK, ChallengeType
<1>3. IssuedLately'
  BY <1>0, <1>2, LimitTypes DEF Remembered, IssuedLately
<1>4. UsedMap'
  <2>1. IsFiniteSet(used') /\ Cardinality(used') <= UsedCap
    <3>1. IsFiniteSet(used) /\ Cardinality(used) <= UsedCap
      BY DEF Remembered, UsedMap, Numbered
    <3>2. IsFiniteSet(used') /\ Cardinality(used') <= Cardinality(used)
      BY <1>1, <3>1, FS_Subset
    <3>3. Cardinality(used') \in Nat /\ Cardinality(used) \in Nat
      BY <3>1, <3>2, FS_CardinalityType
    <3> QED BY <3>1, <3>2, <3>3, LimitTypes
  <2> QED BY <1>0, <1>1, <2>1 DEF Remembered, UsedMap, Numbered
<1>5. MarkedIsKept'
  <2> SUFFICES ASSUME NEW c \in marked
               PROVE  /\ challenge'[c] # NoChallenge
                      /\ clock' <= challenge'[c].until =>
                           \/ HasKey(used', c)
                           \/ /\ Cardinality(used') = UsedCap
                              /\ \A e \in used' : challenge'[c].until <= e.until
    BY DEF MarkedIsKept, HonouredIsRemembered
  <2>1. challenge'[c] = challenge[c] /\ challenge[c] # NoChallenge /\ challenge[c].until \in Nat
    BY <1>0, <1>2 DEF Remembered, MarkedIsKept, HonouredIsRemembered
  <2>2. CASE used' = used
    BY <1>0, <2>1, <2>2 DEF Remembered, MarkedIsKept, HonouredIsRemembered
  <2>3. ASSUME used' = Unexpired(used), clock' = clock, clock <= challenge[c].until
        PROVE  HasKey(used', c) \/ (Cardinality(used') = UsedCap /\ \A e \in used' : challenge[c].until <= e.until)
    <3>1. CASE HasKey(used, c)
      <4>1. PICK e \in used : e.key = c
        BY <3>1 DEF HasKey
      <4>2. challenge[c].until <= e.until
        BY <1>0, <4>1 DEF Remembered, UsedMap
      <4>3. e \in used'
        BY <1>0, <2>1, <2>3, <4>2 DEF Unexpired
      <4> QED BY <4>1, <4>3 DEF HasKey
    <3>2. CASE Cardinality(used) = UsedCap /\ \A e \in used : challenge[c].until <= e.until
      <4>1. used' = used
        BY <1>0, <2>1, <2>3, <3>2 DEF Unexpired
      <4> QED BY <3>2, <4>1
    <3> QED BY <2>3, <3>1, <3>2 DEF Remembered, MarkedIsKept, HonouredIsRemembered
  <2> QED BY <2>1, <2>2, <2>3
<1> QED BY <1>3, <1>4, <1>5 DEF Remembered

\* What Map.set does to the map.
LEMMA PutFacts ==
  ASSUME TypeOK, Remembered, issued < MaxTickets,
         NEW c \in Challenges, challenge[c] # NoChallenge
  PROVE  LET u == clock + UsedLife
             P == Put(used, c, u)
         IN  /\ Numbered(P) /\ HasKey(P, c)
             /\ \A e \in P : e.nr <= issued + 1 /\ challenge[e.key] # NoChallenge
             /\ \A e, f \in P : e.key = f.key => e = f
             /\ \A e, f \in P : e.nr <= f.nr => challenge[e.key].until <= f.until
             /\ IF HasKey(used, c) THEN Cardinality(P) = Cardinality(used)
                ELSE /\ Cardinality(P) = Cardinality(used) + 1
                     /\ \E e \in P : e.key = c /\ \A f \in used : f \in P /\ f.nr < e.nr
             /\ \A e \in P : e.until = u \/ e \in used
             /\ \A b : HasKey(used, b) => HasKey(P, b)
<1> DEFINE u == clock + UsedLife
           P == Put(used, c, u)
           rest == {e \in used : e.key # c}
           new == [key |-> c, nr |-> Place(used, c), until |-> u]
<1>0. /\ used \subseteq UsedEntries /\ clock \in Nat /\ issued \in Nat /\ u \in Nat
      /\ \A e \in used : e.key \in Challenges /\ e.nr \in Nat /\ e.until \in Nat
  BY LimitTypes DEF TypeOK, UsedEntries
<1>1. P = rest \cup {new} /\ new.key = c /\ new.until = u /\ new.nr = Place(used, c)
  BY DEF Put
<1>2. \A b \in Challenges : challenge[b] # NoChallenge => challenge[b].until \in Nat /\ challenge[b].until <= u
  <2>1. \A b \in Challenges : challenge[b] # NoChallenge => challenge[b].until \in Nat
    BY DEF TypeOK, ChallengeType
  <2> QED BY <1>0, <2>1, LimitTypes DEF Remembered, IssuedLately
<1>3. /\ IsFiniteSet(used) /\ Cardinality(used) \in Nat
      /\ \A e, f \in used : e.nr = f.nr => e = f
      /\ \A e \in used : e.nr <= issued /\ challenge[e.key] # NoChallenge
      /\ \A e, f \in used : e.key = f.key => e = f
      /\ \A e, f \in used : e.nr <= f.nr => challenge[e.key].until <= f.until
  BY FS_CardinalityType DEF Remembered, UsedMap, Numbered
<1> HIDE DEF P, u, new
<1>4. CASE HasKey(used, c)
  <2>1. PICK old \in used : old.key = c /\ new.nr = old.nr
    BY <1>1, <1>4 DEF HasKey, Place
  <2>2. rest = used \ {old}
    BY <1>3, <2>1
  <2>3. IsFiniteSet(rest) /\ Cardinality(rest) = Cardinality(used) - 1
    BY <1>3, <2>2, FS_RemoveElement
  <2>4. new \notin rest
    BY <1>1
  <2>5. IsFiniteSet(P) /\ Cardinality(P) = Cardinality(used)
    <3>1. IsFiniteSet(P) /\ Cardinality(P) = Cardinality(rest) + 1
      BY <1>1, <2>3, <2>4, FS_AddElement
    <3> QED BY <1>3, <2>3, <3>1
  <2>6. \A e, f \in P : e.nr = f.nr => e = f
    BY <1>1, <1>3, <2>1, <2>2
  <2>7. \A e \in P : e.nr \in Nat /\ e.nr <= issued + 1 /\ challenge[e.key] # NoChallenge
    BY <1>0, <1>1, <1>3, <2>1
  <2>8. \A e, f \in P : e.key = f.key => e = f
    BY <1>1, <1>3
  <2>9. \A e, f \in P : e.nr <= f.nr => challenge[e.key].until <= f.until
    <3> SUFFICES ASSUME NEW e \in P, NEW f \in P, e.nr <= f.nr PROVE challenge[e.key].until <= f.until
      OBVIOUS
    <3>1. CASE f = new
      BY <1>0, <1>1, <1>2, <1>3, <3>1
    <3>2. CASE f \in used /\ e = new
      BY <1>1, <1>3, <2>1, <3>2
    <3>3. CASE f \in used /\ e \in used
      BY <1>3, <3>3
    <3> QED BY <1>1, <3>1, <3>2, <3>3
  <2>10. \A e \in P : e.until = u \/ e \in used
    BY <1>1
  <2>11. HasKey(P, c) /\ \A b : HasKey(used, b) => HasKey(P, b)
    BY <1>1, <2>1, <2>2 DEF HasKey
  <2> QED BY <1>4, <2>5, <2>6, <2>7, <2>8, <2>9, <2>10, <2>11 DEF Numbered, P, u
<1>5. CASE ~HasKey(used, c)
  <2>1. rest = used /\ new.nr = issued + 1 /\ new \notin used
    BY <1>1, <1>5 DEF HasKey, Place
  <2>2. IsFiniteSet(P) /\ Cardinality(P) = Cardinality(used) + 1
    BY <1>1, <1>3, <2>1, FS_AddElement
  <2>3. \A e \in used : e.nr < new.nr
    BY <1>0, <1>3, <2>1
  <2>4. \A e, f \in P : e.nr = f.nr => e = f
    BY <1>0, <1>1, <1>3, <2>1, <2>3
  <2>5. \A e \in P : e.nr \in Nat /\ e.nr <= issued + 1 /\ challenge[e.key] # NoChallenge
    BY <1>0, <1>1, <1>3, <2>1
  <2>6. \A e, f \in P : e.key = f.key => e = f
    BY <1>1, <1>3
  <2>7. \A e, f \in P : e.nr <= f.nr => challenge[e.key].until <= f.until
    <3> SUFFICES ASSUME NEW e \in P, NEW f \in P, e.nr <= f.nr PROVE challenge[e.key].until <= f.until
      OBVIOUS
    <3>1. CASE f = new
      BY <1>0, <1>1, <1>2, <1>3, <3>1
    <3>2. CASE f \in used /\ e = new
      BY <1>0, <2>1, <2>3, <3>2
    <3>3. CASE f \in used /\ e \in used
      BY <1>3, <3>3
    <3> QED BY <1>1, <3>1, <3>2, <3>3
  <2>8. new \in P /\ new.key = c /\ \A f \in used : f \in P /\ f.nr < new.nr
    BY <1>1, <2>1, <2>3
  <2>9. \A e \in P : e.until = u \/ e \in used
    BY <1>1
  <2>10. HasKey(P, c) /\ \A b : HasKey(used, b) => HasKey(P, b)
    BY <1>1, <2>1 DEF HasKey
  <2> QED BY <1>5, <2>2, <2>4, <2>5, <2>6, <2>7, <2>8, <2>9, <2>10 DEF Numbered, P, u
<1> QED BY <1>4, <1>5

\* A honoured solution is remembered, and what it pushes out runs out first.
LEMMA FinishRemembers ==
  ASSUME TypeOK, TypeOK', Remembered, NEW r \in Requests, FinishAuthorize(r)
  PROVE  Remembered'
<1> DEFINE c == request[r].challenge
           u == clock + UsedLife
           P == Put(used, c, u)
<1>1. c \in Challenges /\ challenge[c] # NoChallenge
  BY DEF FinishAuthorize, TypeOK, RequestType, Idle
<1>2. /\ issued < MaxTickets /\ issued' = issued + 1 /\ used' = Newest(P, UsedCap)
      /\ marked' = marked \cup {c} /\ clock' = clock /\ challenge' = challenge
  BY DEF FinishAuthorize, time
<1>3. /\ Numbered(P) /\ HasKey(P, c)
      /\ \A e \in P : e.nr <= issued + 1 /\ challenge[e.key] # NoChallenge
      /\ \A e, f \in P : e.key = f.key => e = f
      /\ \A e, f \in P : e.nr <= f.nr => challenge[e.key].until <= f.until
      /\ IF HasKey(used, c) THEN Cardinality(P) = Cardinality(used)
         ELSE /\ Cardinality(P) = Cardinality(used) + 1
              /\ \E e \in P : e.key = c /\ \A f \in used : f \in P /\ f.nr < e.nr
      /\ \A e \in P : e.until = u \/ e \in used
      /\ \A b : HasKey(used, b) => HasKey(P, b)
  BY <1>1, <1>2, PutFacts
<1>4. /\ clock \in Nat /\ u \in Nat /\ marked \subseteq Challenges
      /\ \A e \in used : e.key \in Challenges /\ e.nr \in Nat /\ e.until \in Nat
      /\ \A b \in Challenges : challenge[b] # NoChallenge => challenge[b].until \in Nat
  BY LimitTypes DEF TypeOK, UsedEntries, ChallengeType
<1>5. \A b \in Challenges : challenge[b] # NoChallenge => challenge[b].until <= u
  BY <1>4, LimitTypes DEF Remembered, IssuedLately
<1>6. IssuedLately'
  BY <1>2 DEF Remembered, IssuedLately
<1>7. Cardinality(used) \in Nat /\ Cardinality(used) <= UsedCap /\ UsedCap \in Nat \ {0}
  BY FS_CardinalityType, LimitTypes DEF Remembered, UsedMap, Numbered
<1>m. ASSUME NEW b \in marked, clock <= challenge[b].until
      PROVE  /\ challenge[b].until \in Nat
             /\ HasKey(used, b) \/ (Cardinality(used) = UsedCap /\ \A e \in used : challenge[b].until <= e.until)
  BY <1>4, <1>m DEF Remembered, MarkedIsKept, HonouredIsRemembered
<1>n. \A b \in marked' : b \in Challenges /\ challenge[b] # NoChallenge
  BY <1>1, <1>2, <1>4 DEF Remembered, MarkedIsKept, HonouredIsRemembered
<1> HIDE DEF c, u, P
<1>8. CASE Cardinality(P) <= UsedCap
  <2>1. used' = P
    BY <1>2, <1>3, <1>7, <1>8, NewestKeepsAll
  <2>2. UsedMap'
    BY <1>2, <1>3, <1>8, <2>1 DEF UsedMap
  <2>3. ASSUME NEW b \in marked', clock <= challenge[b].until
        PROVE  \/ HasKey(P, b)
               \/ Cardinality(P) = UsedCap /\ \A e \in P : challenge[b].until <= e.until
    <3>1. CASE b = c \/ HasKey(used, b)
      BY <1>3, <3>1
    <3>2. CASE /\ b \in marked /\ Cardinality(used) = UsedCap
               /\ \A e \in used : challenge[b].until <= e.until
      BY <1>3, <1>5, <1>7, <1>8, <1>n, <3>2
    <3> QED BY <1>2, <1>m, <2>3, <3>1, <3>2
  <2>4. MarkedIsKept'
    BY <1>2, <1>n, <2>1, <2>3 DEF MarkedIsKept, HonouredIsRemembered
  <2> QED BY <1>6, <2>2, <2>4 DEF Remembered
<1>9. CASE ~(Cardinality(P) <= UsedCap)
  <2>1. ~HasKey(used, c) /\ Cardinality(P) = UsedCap + 1
    BY <1>3, <1>7, <1>9
  <2>2. PICK m \in P : /\ \A e \in P : m.nr <= e.nr
                      /\ used' = P \ {m} /\ Cardinality(used') = UsedCap
    BY <1>2, <1>3, <1>7, <2>1, NewestDropsOldest
  <2>3. PICK new \in P : new.key = c /\ \A f \in used : f \in P /\ f.nr < new.nr
    BY <1>3, <2>1
  <2>4. \E f \in used : f \in P
    <3>1. Cardinality(used) = UsedCap
      BY <1>3, <1>7, <2>1
    <3>2. used # {}
      BY <1>7, <3>1, FS_EmptySet
    <3> QED BY <2>3, <3>2
  <2>5. \A e \in P : e.nr \in Nat
    BY <1>3 DEF Numbered
  <2>6. new \in used'
    BY <2>2, <2>3, <2>4, <2>5
  <2>7. UsedMap'
    <3>1. IsFiniteSet(used')
      BY <1>3, <2>2, FS_RemoveElement DEF Numbered
    <3>2. Numbered(used')
      BY <1>3, <2>2, <3>1 DEF Numbered
    <3> QED BY <1>2, <1>3, <1>7, <2>2, <3>2 DEF UsedMap
  <2>8. ASSUME NEW b \in marked', clock <= challenge[b].until
        PROVE  HasKey(used', b) \/ \A e \in used' : challenge[b].until <= e.until
    <3>1. CASE b = c
      BY <2>3, <2>6, <3>1 DEF HasKey
    <3>2. CASE HasKey(used, b)
      <4>1. PICK e \in P : e.key = b
        BY <1>3, <3>2 DEF HasKey
      <4>2. CASE e = m
        BY <1>3, <2>2, <4>1, <4>2
      <4>3. CASE e # m
        BY <2>2, <4>1, <4>3 DEF HasKey
      <4> QED BY <4>2, <4>3
    <3>3. CASE b \in marked /\ \A e \in used : challenge[b].until <= e.until
      BY <1>3, <1>5, <1>n, <2>2, <3>3
    <3> QED BY <1>2, <1>m, <2>8, <3>1, <3>2, <3>3
  <2>9. MarkedIsKept'
    BY <1>2, <1>n, <2>2, <2>8 DEF MarkedIsKept, HonouredIsRemembered
  <2> QED BY <1>6, <2>7, <2>9 DEF Remembered
<1> QED BY <1>8, <1>9

LEMMA RememberedStep == TypeOK /\ TypeOK' /\ Remembered /\ [Next]_vars => Remembered'
<1> SUFFICES ASSUME TypeOK, TypeOK', Remembered, [Next]_vars PROVE Remembered'
  OBVIOUS
<1>0. clock \in Nat /\ challenge \in [Challenges -> ChallengeType]
  BY LimitTypes DEF TypeOK
<1>1. CASE /\ UNCHANGED <<issued, marked, clock, challenge>>
           /\ used' = used \/ used' = Unexpired(used)
  BY <1>0, <1>1, RememberedKept
<1>2. ASSUME NEW v \in Visitors, NEW p \in Projects,
             CreateProject(v, p) \/ RemoveProject(v, p) \/ QueueFollowing(v, p) \/ ReadJob(v, p)
      PROVE Remembered'
  BY <1>1, <1>2 DEF CreateProject, RemoveProject, QueueFollowing, ReadJob, JobTo, memory, time, history
<1>3. ASSUME NEW v \in Visitors, NEW p \in Projects, NEW c \in Challenges, CreateChallenge(v, p, c)
      PROVE Remembered'
  <2>1. /\ used' = Unexpired(used) /\ clock' = clock /\ UNCHANGED <<issued, marked>>
        /\ challenge[c] = NoChallenge
        /\ challenge'[c].until = clock + ChallengeLife
        /\ \A b \in Challenges \ {c} : challenge'[b] = challenge[b]
    BY <1>0, <1>3 DEF CreateChallenge, time, history
  <2> QED BY <1>0, <2>1, RememberedKept
<1>4. ASSUME NEW r \in Requests, NEW v \in Visitors, NEW p \in Projects,
             \/ \E c \in Challenges : BeginAuthorize(r, v, p, c)
             \/ \E k \in 1..MaxTickets, again \in BOOLEAN : ConsumeTicket(r, v, p, k, again)
      PROVE Remembered'
  BY <1>1, <1>4 DEF BeginAuthorize, ConsumeTicket, time, history
<1>5. ASSUME NEW r \in Requests,
             \/ Reserve(r) \/ OpenReservation(r) \/ ReservationExpires(r) \/ Regenerate(r)
             \/ CommitReservation(r) \/ RetryReservation(r) \/ RequestFails(r)
      PROVE Remembered'
  BY <1>1, <1>5 DEF Reserve, OpenReservation, ReservationExpires, Regenerate, CommitReservation,
                    RetryReservation, RequestFails, memory, time, history
<1>6. ASSUME NEW r \in Requests, FinishAuthorize(r) PROVE Remembered'
  BY <1>6, FinishRemembers
<1>7. ASSUME NEW p \in Projects, JobEnds(p) \/ JobLost(p) \/ Expire(p) PROVE Remembered'
  BY <1>1, <1>7 DEF JobEnds, JobLost, Expire, JobTo, memory, time, history
<1>8. CASE SelectExpired \/ DeleteSelected \/ UNCHANGED vars
  BY <1>1, <1>8 DEF SelectExpired, DeleteSelected, vars, memory, time, history
<1>9. CASE Tick
  <2>1. clock <= clock'
    BY <1>0, <1>9 DEF Tick
  <2> QED BY <1>9, <2>1, RememberedKept DEF Tick, memory, history
<1>10. CASE Restart
  <2>1. /\ used' = {} /\ marked' = {} /\ challenge' = challenge /\ clock' = clock
    BY <1>10 DEF Restart
  <2>2. IsFiniteSet({}) /\ Cardinality({}) = 0
    BY FS_EmptySet
  <2> QED BY <2>1, <2>2, LimitTypes DEF Remembered, UsedMap, IssuedLately, MarkedIsKept, HonouredIsRemembered, Numbered
<1> QED BY <1>2, <1>3, <1>4, <1>5, <1>6, <1>7, <1>8, <1>9, <1>10 DEF Next

\* As long as a challenge is valid, the process that honoured its solution
\* remembers it, unless the map is full of entries that outlive the challenge.
THEOREM SolutionsAreRemembered == Spec => []HonouredIsRemembered
<1>1. TypeOK /\ Remembered => HonouredIsRemembered
  BY DEF Remembered, MarkedIsKept
<1> QED BY <1>1, TypeCorrect, RememberedInit, RememberedStep, PTL DEF Spec

============================================================================
