---------------------------- MODULE TrendProofs ----------------------------
(***************************************************************************)
(* Proofs about the trends.  TrendRefresh: when a source is asked again,   *)
(* for any number of sources, parts and readers.  SourceFetch: which       *)
(* requests wait - X's while its window is closed, Qianfan's within an     *)
(* interval, and second attempts as long as they were told, up to a cap -  *)
(* for any number of boards, any interval and any waits asked for.         *)
(***************************************************************************)
EXTENDS TrendRefresh, SourceFetch, TLAPS, FiniteSetTheorems

-----------------------------------------------------------------------------
(* The refresh: type correctness.                                          *)

LEMMA TrendConstants ==
  /\ Ttl \in [Sources -> 1..Retention] /\ PartsOf \in [Sources -> (SUBSET Parts) \ {{}}]
  /\ Base \in Nat \ {0} /\ MaxDelay \in Nat /\ Base <= MaxDelay /\ MaxTime \in Nat \ {0}
  /\ Len(Order) \in Nat \ {0} /\ DOMAIN Order = 1..Len(Order)
  /\ \A i \in DOMAIN Order : Order[i] \in Sources
  /\ Self \in Hydrators /\ Readers \subseteq Hydrators
<1>1. Order \in Seq(Sources) /\ Order # <<>>
  BY TrendAssumption
<1>2. Len(Order) \in Nat \ {0} /\ DOMAIN Order = 1..Len(Order) /\ \A i \in DOMAIN Order : Order[i] \in Sources
  BY <1>1
<1> QED BY <1>2, TrendAssumption DEF Hydrators

\* Rests are as long as the cap allows.
LEMMA DelayRange == \A k \in 1..8 : Delay(k) \in 0..MaxDelay
<1> SUFFICES ASSUME NEW k \in 1..8 PROVE Delay(k) \in 0..MaxDelay
  OBVIOUS
<1>1. Doublings[k] \in Nat
  <2>1. k = 1 \/ k = 2 \/ k = 3 \/ k = 4 \/ k = 5 \/ k = 6 \/ k = 7 \/ k = 8
    OBVIOUS
  <2> QED BY <2>1 DEF Doublings
<1>2. \A a, b \in Nat : a * b \in Nat
  OBVIOUS
<1>3. Base * Doublings[k] \in Nat
  BY <1>1, <1>2, TrendConstants
<1> QED BY <1>3, TrendConstants DEF Delay, MinTime

\* Among moments there is a latest one.
LEMMA NewestIsOne ==
  ASSUME NEW S \in SUBSET Times, S # {}
  PROVE  Newest(S) \in S
<1> DEFINE above == {c..MaxTime : c \in S}
<1>1. MaxTime \in Nat /\ IsFiniteSet(Times) /\ S \subseteq Times
  BY TrendConstants, FS_Interval DEF Times, Never
<1>2. above \subseteq FiniteSubsetsOf(Times) /\ above # {}
  <2>1. ASSUME NEW c \in S PROVE c..MaxTime \in FiniteSubsetsOf(Times)
    <3>1. IsFiniteSet(c..MaxTime) /\ c..MaxTime \subseteq Times
      BY <1>1, FS_Interval DEF Times
    <3> QED BY <3>1 DEF FiniteSubsetsOf
  <2> QED BY <2>1
<1>3. PICK least \in above : \A high \in above : <<high, least>> \notin StrictSubsetOrdering(Times)
  BY <1>2, FS_StrictSubsetOrderingWellFounded, WFMin
<1>4. PICK c \in S : least = c..MaxTime
  OBVIOUS
<1>5. ASSUME NEW d \in S, c < d PROVE FALSE
  <2>1. c \in 0..MaxTime /\ d \in 0..MaxTime
    BY <1>1 DEF Times
  <2>2. d..MaxTime \in above /\ d..MaxTime \subseteq least /\ d..MaxTime # least
    BY <1>1, <1>4, <1>5, <2>1
  <2>3. d..MaxTime \subseteq Times /\ least \subseteq Times
    BY <1>1, <1>4, <2>1 DEF Times
  <2>4. <<d..MaxTime, least>> \in StrictSubsetOrdering(Times)
    BY <2>2, <2>3 DEF StrictSubsetOrdering
  <2> QED BY <1>3, <2>2, <2>4
<1>6. \A d \in S : d <= c
  BY <1>1, <1>5 DEF Times
<1> QED BY <1>6 DEF Newest

LEMMA RefreshTyped ==
  /\ Idle \in RefreshType /\ [at |-> "hydrate"] \in RefreshType
  /\ \A open, due \in SUBSET Sources : Due(open, due) \in RefreshType
  /\ \A todo, whole, part \in SUBSET Sources, got \in SUBSET Parts :
       /\ Choosing(todo, got, whole, part) \in RefreshType
       /\ \A s \in Sources : [at |-> "fetch", of |-> s, todo |-> todo, got |-> got,
                               whole |-> whole, part |-> part] \in RefreshType
       /\ \A t \in Times, at \in {"store", "complete"} :
            [at |-> at, got |-> got, whole |-> whole, part |-> part, time |-> t] \in RefreshType
BY DEF RefreshType, Idle, Due, Choosing

LEMMA RefreshFields ==
  ASSUME NEW f \in RefreshType
  PROVE  /\ f.at \in {"idle", "hydrate", "due", "choose", "fetch", "store", "complete"}
         /\ f.at = "idle" => f = Idle
         /\ f.at = "due" => f.open \subseteq Sources /\ f.due \subseteq Sources
         /\ f.at \in {"choose", "fetch"} => f.todo \subseteq Sources
         /\ f.at = "fetch" => f.of \in Sources
         /\ f.at \in {"choose", "fetch", "store", "complete"} =>
              f.got \subseteq Parts /\ f.whole \subseteq Sources /\ f.part \subseteq Sources
         /\ f.at \in {"store", "complete"} => f.time \in Times
BY DEF RefreshType, Idle

LEMMA ReaderTyped ==
  /\ Idle \in ReaderType /\ [at |-> "wait"] \in ReaderType
  /\ \A i \in DOMAIN Order, current \in StatusType :
       /\ [at |-> "read", i |-> i, current |-> current] \in ReaderType
       /\ \A t \in Times : [at |-> "write", i |-> i, current |-> current, newest |-> t] \in ReaderType
BY DEF ReaderType, Idle

LEMMA ReaderFields ==
  ASSUME NEW h \in ReaderType
  PROVE  /\ h.at \in {"read", "write"} => h.i \in DOMAIN Order /\ h.current \in StatusType
         /\ h.at = "write" => h.newest \in Times
BY DEF ReaderType

LEMMA TypeInit == Init => TypeOK
<1> SUFFICES ASSUME Init PROVE TypeOK
  OBVIOUS
<1>1. 1 \in 1..MaxTime /\ {Never, 1} \subseteq Times /\ 0 \in 0..(MaxTime + MaxDelay)
  BY TrendConstants DEF Times, Never
<1>2. Waiting \in StatusType
  BY <1>1 DEF Waiting, StatusType
<1> QED BY <1>1, <1>2, RefreshTyped, ReaderTyped DEF Init, TypeOK

LEMMA RefreshedType ==
  ASSUME TypeOK, Refreshed
  PROVE  next' \in [Sources -> 0..(MaxTime + MaxDelay)] /\ refresh' \in RefreshType
<1>1. CASE refresh # Idle
  BY <1>1 DEF Refreshed, TypeOK
<1>2. CASE refresh = Idle
  <2> DEFINE open == {s \in Sources : next[s] <= now}
  <2>1. next' = [s \in Sources |-> IF s \in open THEN 0 ELSE next[s]] /\ refresh' = Due(open, {})
    BY <1>2 DEF Refreshed
  <2>2. open \in SUBSET Sources /\ {} \in SUBSET Sources
    OBVIOUS
  <2>3. 0 \in 0..(MaxTime + MaxDelay)
    BY TrendConstants
  <2> HIDE DEF open
  <2> QED BY <2>1, <2>2, <2>3, RefreshTyped DEF TypeOK
<1> QED BY <1>1, <1>2

LEMMA HydratingType ==
  ASSUME TypeOK, NEW i \in DOMAIN Order
  PROVE  Hydrating(i) \in ReaderType
BY TrendConstants, ReaderTyped DEF Hydrating, TypeOK

\* A retry time lies at most one rest after the present.
LEMMA RestRange ==
  ASSUME TypeOK
  PROVE  /\ now + Base \in 0..(MaxTime + MaxDelay)
         /\ \A k \in 1..8 : now + Delay(k) \in 0..(MaxTime + MaxDelay)
         /\ \A k \in 0..8 : MinTime(8, k + 1) \in 1..8
         /\ now \in Times /\ now # 0
<1>1. now \in 1..MaxTime
  BY DEF TypeOK
<1>2. \A k \in 1..8 : now + Delay(k) \in 0..(MaxTime + MaxDelay)
  <2> SUFFICES ASSUME NEW k \in 1..8 PROVE now + Delay(k) \in 0..(MaxTime + MaxDelay)
    OBVIOUS
  <2>1. Delay(k) \in 0..MaxDelay
    BY DelayRange
  <2> QED BY <1>1, <2>1, TrendConstants
<1>3. now + Base \in 0..(MaxTime + MaxDelay) /\ now \in Times /\ now # 0
  BY <1>1, TrendConstants DEF Times
<1>4. \A k \in 0..8 : MinTime(8, k + 1) \in 1..8
  BY DEF MinTime
<1> QED BY <1>2, <1>3, <1>4

LEMMA DeferredType ==
  ASSUME TypeOK, NEW S, DeferSourceRetry(S)
  PROVE  /\ failures' \in [Sources -> 0..8]
         /\ next' \in [Sources -> 0..(MaxTime + MaxDelay)]
         /\ failed' \in [Sources -> Times]
<1> DEFINE k == [s \in Sources |-> IF s \in S THEN MinTime(8, failures[s] + 1) ELSE failures[s]]
<1>1. \A s \in Sources : k[s] \in 0..8 /\ (s \in S => k[s] \in 1..8)
  BY RestRange DEF TypeOK
<1>2. failures' = k /\ next' = [s \in Sources |-> IF s \in S THEN now + Delay(k[s]) ELSE next[s]]
      /\ failed' = [s \in Sources |-> IF s \in S THEN now ELSE failed[s]]
  BY DEF DeferSourceRetry
<1>3. k = [s \in Sources |-> k[s]]
  OBVIOUS
<1> HIDE DEF k
<1>4. failures' \in [Sources -> 0..8]
  BY <1>1, <1>2, <1>3
<1>5. next' \in [Sources -> 0..(MaxTime + MaxDelay)]
  BY <1>1, <1>2, RestRange DEF TypeOK
<1>6. failed' \in [Sources -> Times]
  BY <1>2, RestRange DEF TypeOK
<1> QED BY <1>4, <1>5, <1>6

LEMMA CompletedType ==
  ASSUME TypeOK, NEW at \in Times, Completed(at)
  PROVE  /\ failures' \in [Sources -> 0..8]
         /\ next' \in [Sources -> 0..(MaxTime + MaxDelay)]
         /\ failed' \in [Sources -> Times]
         /\ status' \in [Sources -> StatusType]
         /\ refresh' \in RefreshType
<1> DEFINE whole == refresh.whole
           part == refresh.part
           k == [s \in Sources |-> IF s \in part THEN MinTime(8, failures[s] + 1) ELSE failures[s]]
<1>1. \A s \in Sources : k[s] \in 0..8 /\ (s \in part => k[s] \in 1..8)
  BY RestRange DEF TypeOK
<1>2. /\ failures' = [s \in Sources |-> IF s \in whole THEN 0 ELSE k[s]]
      /\ next' = [s \in Sources |-> IF s \in whole THEN 0
                                    ELSE IF s \in part THEN now + Delay(k[s]) ELSE next[s]]
      /\ failed' = [s \in Sources |-> IF s \in part THEN now ELSE failed[s]]
      /\ status' = [s \in Sources |-> IF s \in whole \cup part THEN [heard |-> TRUE, at |-> at]
                                      ELSE status[s]]
      /\ refresh' = Idle
  BY DEF Completed
<1> HIDE DEF whole, part, k
<1>3. failures' \in [Sources -> 0..8]
  BY <1>1, <1>2
<1>4. next' \in [Sources -> 0..(MaxTime + MaxDelay)]
  <2>1. 0 \in 0..(MaxTime + MaxDelay)
    BY TrendConstants
  <2> QED BY <1>1, <1>2, <2>1, RestRange DEF TypeOK
<1>5. failed' \in [Sources -> Times]
  BY <1>2, RestRange DEF TypeOK
<1>6. [heard |-> TRUE, at |-> at] \in StatusType
  BY DEF StatusType
<1>7. status' \in [Sources -> StatusType]
  BY <1>2, <1>6 DEF TypeOK
<1> QED BY <1>2, <1>3, <1>4, <1>5, <1>7, RefreshTyped

LEMMA TypeStep == TypeOK /\ [Next]_vars => TypeOK'
<1> SUFFICES ASSUME TypeOK, [Next]_vars PROVE TypeOK'
  OBVIOUS
<1>t. /\ now \in 1..MaxTime /\ observed \in [Parts -> Times] /\ status \in [Sources -> StatusType]
      /\ next \in [Sources -> 0..(MaxTime + MaxDelay)] /\ failures \in [Sources -> 0..8]
      /\ failed \in [Sources -> Times] /\ refresh \in RefreshType
      /\ reader \in [Hydrators -> ReaderType]
  BY DEF TypeOK
<1>f. /\ refresh.at = "due" => refresh.open \subseteq Sources /\ refresh.due \subseteq Sources
      /\ refresh.at \in {"choose", "fetch"} => refresh.todo \subseteq Sources
      /\ refresh.at = "fetch" => refresh.of \in Sources
      /\ refresh.at \in {"choose", "fetch", "store", "complete"} =>
           refresh.got \subseteq Parts /\ refresh.whole \subseteq Sources /\ refresh.part \subseteq Sources
      /\ refresh.at \in {"store", "complete"} => refresh.time \in Times
  BY <1>t, RefreshFields
<1>h. Hydrating(1) \in ReaderType /\ Self \in Hydrators /\ Readers \subseteq Hydrators
  <2>1. 1 \in DOMAIN Order
    BY TrendConstants
  <2> QED BY <2>1, HydratingType, TrendConstants
<1>1. ASSUME NEW r \in Readers, List(r) PROVE TypeOK'
  <2>1. reader' \in [Hydrators -> ReaderType]
    BY <1>1, <1>t, <1>h DEF List
  <2> QED BY <1>1, <1>t, <2>1, RefreshedType DEF List, TypeOK
<1>2. ASSUME NEW r \in Readers, RefreshManual(r) PROVE TypeOK'
  <2>1. reader' \in [Hydrators -> ReaderType]
    BY <1>2, <1>t, <1>h, ReaderTyped DEF RefreshManual
  <2> QED BY <1>2, <1>t, <2>1, RefreshedType DEF RefreshManual, TypeOK
<1>3. ASSUME NEW r \in Readers, RefreshAwaited(r) PROVE TypeOK'
  <2>1. reader' \in [Hydrators -> ReaderType]
    BY <1>3, <1>t, <1>h DEF RefreshAwaited
  <2> QED BY <1>3, <1>t, <2>1 DEF RefreshAwaited, TypeOK, memory
<1>4. ASSUME NEW r \in Hydrators, ReadSnapshots(r) PROVE TypeOK'
  <2> DEFINE h == reader[r]
             times == {observed[p] : p \in PartsOf[Order[h.i]]}
  <2>1. h.i \in DOMAIN Order /\ h.current \in StatusType
    BY <1>4, <1>t, ReaderFields DEF ReadSnapshots
  <2>2. PartsOf[Order[h.i]] \in SUBSET Parts /\ PartsOf[Order[h.i]] # {}
    BY <2>1, TrendConstants
  <2>3. times \in SUBSET Times /\ times # {}
    BY <1>t, <2>2
  <2>4. Newest(times) \in Times
    BY <2>3, NewestIsOne
  <2>5. reader' = [reader EXCEPT ![r] = [at |-> "write", i |-> h.i, current |-> h.current, newest |-> Newest(times)]]
    BY <1>4 DEF ReadSnapshots
  <2> HIDE DEF times
  <2>6. reader' \in [Hydrators -> ReaderType]
    BY <1>t, <2>1, <2>4, <2>5, ReaderTyped
  <2> QED BY <1>4, <1>t, <2>6 DEF ReadSnapshots, TypeOK, memory
<1>5. ASSUME NEW r \in Hydrators, WriteStatus(r) PROVE TypeOK'
  <2> DEFINE h == reader[r]
  <2>1. h.i \in DOMAIN Order /\ h.current \in StatusType /\ h.newest \in Times
    BY <1>5, <1>t, ReaderFields DEF WriteStatus
  <2>2. \A t \in Times : [heard |-> TRUE, at |-> t] \in StatusType
    BY DEF StatusType
  <2>3. h.current.at \in Times
    BY <2>1 DEF StatusType
  <2>4. status' \in [Sources -> StatusType]
    <3>1. \/ status' = status
          \/ \E t \in Times : status' = [status EXCEPT ![Order[h.i]] = [heard |-> TRUE, at |-> t]]
      BY <1>5, <2>1, <2>3 DEF WriteStatus
    <3>2. ASSUME NEW t \in Times, status' = [status EXCEPT ![Order[h.i]] = [heard |-> TRUE, at |-> t]]
          PROVE  status' \in [Sources -> StatusType]
      <4>1. [heard |-> TRUE, at |-> t] \in StatusType
        BY <2>2
      <4> QED BY <1>t, <3>2, <4>1
    <3> QED BY <1>t, <3>1, <3>2
  <2>5. \/ reader' = [reader EXCEPT ![r] = Idle]
        \/ /\ h.i # Len(Order)
           /\ reader' = [reader EXCEPT ![r] = [at |-> "read", i |-> h.i + 1, current |-> status'[Order[h.i + 1]]]]
    BY <1>5 DEF WriteStatus
  <2>6. h.i # Len(Order) => h.i + 1 \in DOMAIN Order /\ status'[Order[h.i + 1]] \in StatusType
    <3>1. h.i # Len(Order) => h.i + 1 \in DOMAIN Order
      BY <2>1, TrendConstants
    <3> QED BY <2>4, <3>1, TrendConstants
  <2>7. reader' \in [Hydrators -> ReaderType]
    <3> DEFINE later == [at |-> "read", i |-> h.i + 1, current |-> status'[Order[h.i + 1]]]
    <3>1. Idle \in ReaderType /\ (h.i # Len(Order) => later \in ReaderType)
      BY <2>6, ReaderTyped
    <3> HIDE DEF later
    <3> QED BY <1>t, <2>5, <3>1 DEF later
  <2> QED BY <1>5, <1>t, <2>4, <2>7 DEF WriteStatus, TypeOK, memory
<1>6. CASE TimerFires
  BY <1>6, <1>t, RefreshedType DEF TimerFires, TypeOK
<1>7. ASSUME NEW s \in Sources, CheckSource(s) PROVE TypeOK'
  <2>1. refresh' \in RefreshType
    <3>1. \E due \in SUBSET Sources : refresh' = Due(refresh.open \ {s}, due)
      BY <1>7, <1>f DEF CheckSource
    <3> QED BY <1>7, <1>f, <3>1, RefreshTyped DEF CheckSource
  <2> QED BY <1>7, <1>t, <2>1 DEF CheckSource, TypeOK, memory
<1>8. CASE SourcesChosen
  <2>1. reader' \in [Hydrators -> ReaderType]
    BY <1>8, <1>t, <1>h DEF SourcesChosen
  <2>2. refresh' \in RefreshType
    BY <1>8, <1>f, RefreshTyped DEF SourcesChosen
  <2> QED BY <1>8, <1>t, <2>1, <2>2 DEF SourcesChosen, TypeOK, memory
<1>9. CASE Hydrated \/ CheckFails \/ StoreFails
  BY <1>9, <1>t, RefreshTyped DEF Hydrated, CheckFails, StoreFails, TypeOK, memory
<1>10. ASSUME NEW s \in Sources, BeginSourceAttempt(s) PROVE TypeOK'
  <2>1. refresh' \in RefreshType
    <3>1. refresh.todo \ {s} \in SUBSET Sources /\ refresh.got \in SUBSET Parts
          /\ refresh.whole \in SUBSET Sources /\ refresh.part \in SUBSET Sources
      BY <1>10, <1>f DEF BeginSourceAttempt
    <3> QED BY <1>10, <3>1, RefreshTyped DEF BeginSourceAttempt
  <2>2. failed' \in [Sources -> Times]
    <3>1. Never \in Times
      BY TrendConstants DEF Times, Never
    <3>2. failed \in [Sources -> Times] /\ failed' = [failed EXCEPT ![s] = Never]
      BY <1>10, <1>t DEF BeginSourceAttempt, TypeOK
    <3> QED BY <3>1, <3>2
  <2> QED BY <1>10, <1>t, <2>1, <2>2, RestRange DEF BeginSourceAttempt, TypeOK
<1>11. CASE FetchFails
  <2>1. refresh' \in RefreshType
    BY <1>11, <1>f, RefreshTyped DEF FetchFails
  <2>2. status' \in [Sources -> StatusType]
    <3>1. [status[refresh.of] EXCEPT !.heard = TRUE] \in StatusType
      BY <1>11, <1>t, <1>f DEF FetchFails, StatusType
    <3>2. status' = [status EXCEPT ![refresh.of] = [status[refresh.of] EXCEPT !.heard = TRUE]]
      BY <1>11 DEF FetchFails
    <3> QED BY <1>t, <3>1, <3>2
  <2> QED BY <1>11, <1>t, <2>1, <2>2, DeferredType DEF FetchFails, TypeOK
<1>12. ASSUME NEW answered \in SUBSET Parts, NEW got \in SUBSET Parts, FetchDelivers(answered, got)
       PROVE  TypeOK'
  <2>1. refresh' \in RefreshType
    <3>1. /\ refresh.todo \in SUBSET Sources /\ refresh.got \cup got \in SUBSET Parts
          /\ refresh.whole \in SUBSET Sources /\ refresh.whole \cup {refresh.of} \in SUBSET Sources
          /\ refresh.part \in SUBSET Sources /\ refresh.part \cup {refresh.of} \in SUBSET Sources
      BY <1>12, <1>f DEF FetchDelivers
    <3> QED BY <1>12, <3>1, RefreshTyped DEF FetchDelivers
  <2> QED BY <1>12, <1>t, <2>1 DEF FetchDelivers, TypeOK, memory
<1>13. CASE CompleteEmpty
  BY <1>13, <1>t, RestRange, CompletedType DEF CompleteEmpty, TypeOK
<1>14. CASE BeginStore
  <2>1. refresh' \in RefreshType
    BY <1>14, <1>f, RestRange, RefreshTyped DEF BeginStore, Storing
  <2> QED BY <1>14, <1>t, <2>1 DEF BeginStore, TypeOK, memory
<1>15. CASE Commit
  <2>1. refresh' = [at |-> "complete", got |-> refresh.got, whole |-> refresh.whole,
                    part |-> refresh.part, time |-> refresh.time]
    BY <1>15, <1>t DEF Commit, RefreshType
  <2>2. refresh' \in RefreshType /\ refresh.time \in Times
    <3>1. /\ refresh.got \in SUBSET Parts /\ refresh.whole \in SUBSET Sources
          /\ refresh.part \in SUBSET Sources /\ refresh.time \in Times
      BY <1>15, <1>f DEF Commit
    <3> QED BY <2>1, <3>1, RefreshTyped
  <2>3. observed' \in [Parts -> Times]
    BY <1>15, <1>t, <2>2 DEF Commit
  <2> QED BY <1>15, <1>t, <2>2, <2>3 DEF Commit, TypeOK, memory
<1>16. CASE CompleteStored
  <2>1. refresh.time \in Times
    BY <1>16, <1>f DEF CompleteStored
  <2> QED BY <1>16, <1>t, <2>1, CompletedType DEF CompleteStored, TypeOK
<1>17. CASE CleanupRetention
  <2>1. Never \in Times
    BY TrendConstants DEF Times, Never
  <2>2. observed' \in [Parts -> Times]
    BY <1>17, <1>t, <2>1 DEF CleanupRetention
  <2> QED BY <1>17, <1>t, <2>2 DEF CleanupRetention, TypeOK, memory
<1>18. CASE Tick
  BY <1>18, <1>t, TrendConstants DEF Tick, TypeOK, memory
<1>19. CASE UNCHANGED vars
  BY <1>19, <1>t DEF vars, TypeOK
<1> QED BY <1>1, <1>2, <1>3, <1>4, <1>5, <1>6, <1>7, <1>8, <1>9, <1>10, <1>11, <1>12, <1>13, <1>14,
           <1>15, <1>16, <1>17, <1>18, <1>19 DEF Next

\* Every variable of the refresh keeps its type: what the process remembers of
\* a source (TrendsService), and the requests that write it back.
THEOREM RefreshTypeCorrect == Spec => []TypeOK
BY TypeInit, TypeStep, PTL DEF Spec

-----------------------------------------------------------------------------
(* The refresh: when a source is asked again.                              *)

\* The sources found due and not asked yet, and those whose retry time has
\* passed and was dropped.
Chosen == IF refresh.at = "due" THEN refresh.due
          ELSE IF refresh.at \in {"choose", "fetch"} THEN refresh.todo ELSE {}
Cleared == IF refresh.at = "due" THEN refresh.open \cup refresh.due ELSE Chosen

\* What was found due stays due: its parts are stored by this refresh alone,
\* and only after it has been asked.
ChosenAreStale == \A s \in Chosen : Stale(s)

\* A source that failed keeps a retry time until its rest is over.
RetriesKept ==
  /\ \A s \in Cleared : next[s] = 0
  /\ refresh.at = "fetch" => refresh.of \notin refresh.todo
  /\ \A s \in Sources : failures[s] > 0 =>
       failed[s] + Delay(failures[s]) <= IF next[s] = 0 THEN now ELSE next[s]

LEMMA Constructed ==
  /\ \A open, due : /\ Due(open, due).at = "due" /\ Due(open, due).open = open
                     /\ Due(open, due).due = due
  /\ \A todo, got, whole, part : /\ Choosing(todo, got, whole, part).at = "choose"
                                  /\ Choosing(todo, got, whole, part).todo = todo
  /\ \A time : Storing(time).at = "store"
  /\ Idle.at = "idle"
BY DEF Due, Choosing, Storing, Idle

\* Time and the cleanup leave a stale source stale.
LEMMA StaleStays ==
  ASSUME TypeOK, now' >= now, now' \in Nat, NEW s \in Sources, Stale(s),
         \A p \in Parts : observed'[p] = observed[p] \/ observed'[p] = Never
  PROVE  Stale(s)'
<1>1. PICK p \in PartsOf[s] : observed[p] = Never \/ now - observed[p] >= Ttl[s]
  BY DEF Stale
<1>2. p \in Parts /\ Ttl[s] \in 1..Retention /\ Retention \in Nat
  BY TrendConstants, TrendAssumption
<1>3. now \in 1..MaxTime /\ observed[p] \in Times /\ MaxTime \in Nat
  BY <1>2, TrendConstants DEF TypeOK
<1>4. observed'[p] = Never \/ now' - observed'[p] >= Ttl[s]
  BY <1>1, <1>2, <1>3 DEF Times
<1> QED BY <1>4 DEF Stale

LEMMA StaleInit == Init => ChosenAreStale /\ RetriesKept
BY Constructed DEF Init, ChosenAreStale, RetriesKept, Chosen, Cleared

LEMMA StaleStep == TypeOK /\ TypeOK' /\ ChosenAreStale /\ [Next]_vars => ChosenAreStale'
<1> SUFFICES ASSUME TypeOK, TypeOK', ChosenAreStale, [Next]_vars PROVE ChosenAreStale'
  OBVIOUS
<1>t. /\ now \in 1..MaxTime /\ now' \in 1..MaxTime /\ MaxTime \in Nat
      /\ refresh \in RefreshType /\ Chosen \subseteq Sources
  BY RefreshFields, TrendConstants DEF TypeOK, Chosen
\* Steps that find nothing due and store nothing.
<1>0. ASSUME Chosen' \subseteq Chosen, now' >= now,
             \A p \in Parts : observed'[p] = observed[p] \/ observed'[p] = Never
      PROVE  ChosenAreStale'
  <2> SUFFICES ASSUME NEW s \in Chosen' PROVE Stale(s)'
    BY DEF ChosenAreStale
  <2>1. s \in Sources /\ Stale(s)
    BY <1>0, <1>t DEF ChosenAreStale
  <2> QED BY <1>0, <1>t, <2>1, StaleStays
<1>1. ASSUME Chosen' = {} PROVE ChosenAreStale'
  BY <1>1 DEF ChosenAreStale
<1>2. ASSUME Refreshed, UNCHANGED <<now, observed>> PROVE ChosenAreStale'
  <2>1. CASE refresh # Idle
    BY <1>0, <1>2, <1>t, <2>1 DEF Refreshed, Chosen
  <2>2. CASE refresh = Idle
    BY <1>1, <1>2, <2>2, Constructed DEF Refreshed, Chosen
  <2> QED BY <2>1, <2>2
<1>3. ASSUME NEW r \in Readers, List(r) \/ RefreshManual(r) PROVE ChosenAreStale'
  BY <1>2, <1>3 DEF List, RefreshManual
<1>4. CASE TimerFires
  BY <1>2, <1>4 DEF TimerFires
<1>5. ASSUME UNCHANGED <<refresh, observed>>, now' >= now PROVE ChosenAreStale'
  BY <1>0, <1>5 DEF Chosen
<1>6. ASSUME NEW r \in Hydrators, ReadSnapshots(r) \/ WriteStatus(r) PROVE ChosenAreStale'
  BY <1>5, <1>6, <1>t DEF ReadSnapshots, WriteStatus
<1>7. ASSUME NEW r \in Readers, RefreshAwaited(r) PROVE ChosenAreStale'
  BY <1>5, <1>7, <1>t DEF RefreshAwaited
<1>8. ASSUME NEW s \in Sources, CheckSource(s) PROVE ChosenAreStale'
  <2>1. UNCHANGED <<now, observed>> /\ refresh.at = "due"
    BY <1>8 DEF CheckSource
  <2>2. CASE IsDue({observed[p] : p \in PartsOf[s]}, Ttl[s], status[s].at)
    <3>1. Stale(s)
      BY <2>2 DEF IsDue, Stale
    <3>2. Chosen' = Chosen \cup {s}
      BY <1>8, <2>2, Constructed DEF CheckSource, Chosen
    <3>3. \A q \in Chosen \cup {s} : Stale(q)
      BY <3>1 DEF ChosenAreStale
    <3>4. \A q \in Sources : Stale(q) => Stale(q)'
      BY <2>1 DEF Stale
    <3> QED BY <1>t, <3>2, <3>3, <3>4 DEF ChosenAreStale
  <2>3. CASE ~IsDue({observed[p] : p \in PartsOf[s]}, Ttl[s], status[s].at)
    <3>1. Chosen' = Chosen
      BY <1>8, <2>3, Constructed DEF CheckSource, Chosen
    <3> QED BY <1>0, <1>t, <2>1, <3>1
  <2> QED BY <2>2, <2>3
<1>9. CASE SourcesChosen
  <2>1. Chosen' \subseteq Chosen
    BY <1>9, Constructed DEF SourcesChosen, Chosen
  <2> QED BY <1>0, <1>9, <1>t, <2>1 DEF SourcesChosen
<1>10. CASE Hydrated \/ CheckFails \/ StoreFails \/ BeginStore
  <2>1. Chosen' = {}
    BY <1>10, Constructed DEF Hydrated, CheckFails, StoreFails, BeginStore, Chosen
  <2> QED BY <1>1, <2>1
<1>11. ASSUME NEW s \in Sources, BeginSourceAttempt(s) PROVE ChosenAreStale'
  <2>1. Chosen' \subseteq Chosen
    BY <1>11 DEF BeginSourceAttempt, Chosen
  <2> QED BY <1>0, <1>11, <1>t, <2>1 DEF BeginSourceAttempt
<1>12. CASE FetchFails
  <2>1. Chosen' = Chosen
    BY <1>12, Constructed DEF FetchFails, Chosen
  <2> QED BY <1>0, <1>12, <1>t, <2>1 DEF FetchFails
<1>13. ASSUME NEW answered, NEW got, FetchDelivers(answered, got) PROVE ChosenAreStale'
  <2>1. Chosen' = Chosen
    BY <1>13, Constructed DEF FetchDelivers, Chosen
  <2> QED BY <1>0, <1>13, <1>t, <2>1 DEF FetchDelivers
<1>14. CASE CompleteEmpty \/ CompleteStored
  <2>1. Chosen' = {}
    BY <1>14, Constructed DEF CompleteEmpty, CompleteStored, Completed, Chosen
  <2> QED BY <1>1, <2>1
<1>15. CASE Commit
  <2>1. refresh'.at = "complete"
    BY <1>15, <1>t DEF Commit, RefreshType
  <2> QED BY <1>1, <2>1 DEF Chosen
<1>16. CASE CleanupRetention
  <2>1. Chosen' = Chosen
    BY <1>16 DEF CleanupRetention, Chosen
  <2> QED BY <1>0, <1>16, <1>t, <2>1 DEF CleanupRetention
<1>17. CASE Tick
  BY <1>5, <1>17, <1>t DEF Tick
<1>18. CASE UNCHANGED vars
  BY <1>5, <1>18, <1>t DEF vars
<1> QED BY <1>3, <1>4, <1>6, <1>7, <1>8, <1>9, <1>10, <1>11, <1>12, <1>13, <1>14, <1>15, <1>16, <1>17,
           <1>18 DEF Next

LEMMA RetriesStep == TypeOK /\ TypeOK' /\ RetriesKept /\ [Next]_vars => RetriesKept'
<1> SUFFICES ASSUME TypeOK, TypeOK', RetriesKept, [Next]_vars PROVE RetriesKept'
  OBVIOUS
<1> DEFINE Rested(s) == failures[s] > 0 =>
                          failed[s] + Delay(failures[s]) <= IF next[s] = 0 THEN now ELSE next[s]
<1>t. /\ now \in 1..MaxTime /\ MaxTime \in Nat /\ refresh \in RefreshType
      /\ failures \in [Sources -> 0..8] /\ failed \in [Sources -> Times]
      /\ next \in [Sources -> 0..(MaxTime + MaxDelay)] /\ MaxDelay \in Nat
      /\ Cleared \subseteq Sources
  BY RefreshFields, TrendConstants DEF TypeOK, Cleared, Chosen
<1>d. \A s \in Sources : failures[s] > 0 => failed[s] + Delay(failures[s]) \in Nat
  <2> SUFFICES ASSUME NEW s \in Sources, failures[s] > 0 PROVE failed[s] + Delay(failures[s]) \in Nat
    OBVIOUS
  <2>1. Delay(failures[s]) \in 0..MaxDelay
    BY <1>t, DelayRange
  <2> QED BY <1>t, <2>1 DEF Times
<1>r. /\ \A s \in Cleared : next[s] = 0
      /\ refresh.at = "fetch" => refresh.of \notin refresh.todo
      /\ \A s \in Sources : Rested(s)
  BY DEF RetriesKept
\* Steps that leave the retry times as they are.
<1>0. ASSUME Cleared' \subseteq Cleared, UNCHANGED memory, now' = now,
             refresh'.at = "fetch" => refresh'.of \notin refresh'.todo
      PROVE  RetriesKept'
  BY <1>0, <1>r DEF RetriesKept, memory
<1>1. ASSUME Refreshed, UNCHANGED <<now, failures, failed>> PROVE RetriesKept'
  <2>1. CASE refresh # Idle
    <3>1. UNCHANGED <<next, refresh>>
      BY <1>1, <2>1 DEF Refreshed
    <3>2. Cleared' = Cleared
      BY <3>1 DEF Cleared, Chosen
    <3> QED BY <1>0, <1>1, <1>r, <3>1, <3>2 DEF memory
  <2>2. CASE refresh = Idle
    <3> DEFINE open == {s \in Sources : next[s] <= now}
    <3>1. next' = [s \in Sources |-> IF s \in open THEN 0 ELSE next[s]] /\ refresh' = Due(open, {})
      BY <1>1, <2>2 DEF Refreshed
    <3>2. Cleared' = open /\ refresh'.at = "due"
      BY <3>1, Constructed DEF Cleared
    <3>3. ASSUME NEW s \in Sources, failures[s] > 0
          PROVE  failed[s] + Delay(failures[s]) <= IF next'[s] = 0 THEN now ELSE next'[s]
      <4>1. failed[s] + Delay(failures[s]) <= IF next[s] = 0 THEN now ELSE next[s]
        BY <1>r, <3>3
      <4>2. failed[s] + Delay(failures[s]) \in Nat /\ next[s] \in Nat /\ now \in Nat
        BY <1>d, <1>t, <3>3
      <4> HIDE DEF Rested
      <4> QED BY <3>1, <4>1, <4>2
    <3>4. \A s \in open : next'[s] = 0
      BY <3>1
    <3> HIDE DEF open
    <3> QED BY <1>1, <3>2, <3>3, <3>4 DEF RetriesKept
  <2> QED BY <2>1, <2>2
<1>2. ASSUME NEW r \in Readers, List(r) \/ RefreshManual(r) PROVE RetriesKept'
  BY <1>1, <1>2 DEF List, RefreshManual
<1>3. CASE TimerFires
  BY <1>1, <1>3 DEF TimerFires
<1>4. ASSUME UNCHANGED <<refresh, memory, now>> PROVE RetriesKept'
  BY <1>0, <1>4, <1>r DEF Cleared, Chosen
<1>5. ASSUME NEW r \in Hydrators, ReadSnapshots(r) \/ WriteStatus(r) PROVE RetriesKept'
  BY <1>4, <1>5 DEF ReadSnapshots, WriteStatus
<1>6. ASSUME NEW r \in Readers, RefreshAwaited(r) PROVE RetriesKept'
  BY <1>4, <1>6 DEF RefreshAwaited
<1>7. ASSUME NEW s \in Sources, CheckSource(s) PROVE RetriesKept'
  <2>1. Cleared' \subseteq Cleared /\ refresh'.at = "due"
    BY <1>7, Constructed DEF CheckSource, Cleared
  <2> QED BY <1>0, <1>7, <2>1 DEF CheckSource
<1>8. CASE SourcesChosen
  <2>1. Cleared' \subseteq Cleared /\ refresh'.at # "fetch"
    BY <1>8, Constructed DEF SourcesChosen, Cleared, Chosen
  <2> QED BY <1>0, <1>8, <2>1 DEF SourcesChosen
<1>9. CASE Hydrated \/ CheckFails \/ StoreFails \/ BeginStore
  <2>1. Cleared' = {} /\ refresh'.at # "fetch"
    BY <1>9, Constructed DEF Hydrated, CheckFails, StoreFails, BeginStore, Cleared, Chosen
  <2> QED BY <1>0, <1>9, <2>1 DEF Hydrated, CheckFails, StoreFails, BeginStore
<1>10. ASSUME NEW s \in Sources, BeginSourceAttempt(s) PROVE RetriesKept'
  <2>1. /\ refresh.at = "choose" /\ s \in refresh.todo /\ next' = [next EXCEPT ![s] = now + Base]
        /\ refresh'.at = "fetch" /\ refresh'.of = s /\ refresh'.todo = refresh.todo \ {s}
        /\ failed' = [failed EXCEPT ![s] = Never] /\ UNCHANGED <<now, failures>>
    BY <1>10 DEF BeginSourceAttempt, IsFirst
  <2>2. Cleared' = Cleared \ {s} /\ s \in Cleared
    BY <2>1 DEF Cleared, Chosen
  <2>3. ASSUME NEW q \in Sources, failures[q] > 0
        PROVE  failed'[q] + Delay(failures[q]) <= IF next'[q] = 0 THEN now ELSE next'[q]
    <3>1. failed[q] + Delay(failures[q]) <= IF next[q] = 0 THEN now ELSE next[q]
      BY <1>r, <2>3
    <3>2. next[s] = 0
      BY <1>r, <2>2
    <3>3. failed[q] + Delay(failures[q]) \in Nat /\ now \in Nat /\ Base \in Nat \ {0}
      BY <1>d, <1>t, <2>3, TrendConstants
    <3>4. failed'[q] <= failed[q] /\ failed'[q] \in Nat /\ failed[q] \in Nat
      BY <1>t, <2>1 DEF Times, Never
    <3>5. Delay(failures[q]) \in 0..MaxDelay
      BY <1>t, <2>3, DelayRange
    <3> HIDE DEF Rested
    <3> QED BY <1>t, <2>1, <3>1, <3>2, <3>3, <3>4, <3>5
  <2>4. \A q \in Cleared' : next'[q] = 0
    BY <1>r, <1>t, <2>1, <2>2
  <2> HIDE DEF Rested
  <2> QED BY <2>1, <2>3, <2>4 DEF RetriesKept
<1>11. CASE FetchFails
  <2> DEFINE S == {refresh.of}
             k == [s \in Sources |-> IF s \in S THEN MinTime(8, failures[s] + 1) ELSE failures[s]]
  <2>1. /\ refresh.at = "fetch" /\ now' = now /\ failures' = k
        /\ next' = [s \in Sources |-> IF s \in S THEN now + Delay(k[s]) ELSE next[s]]
        /\ failed' = [s \in Sources |-> IF s \in S THEN now ELSE failed[s]]
    BY <1>11 DEF FetchFails, DeferSourceRetry
  <2>2. Cleared' = Cleared /\ refresh'.at = "choose" /\ refresh.of \notin Cleared
    BY <1>11, <1>r, Constructed DEF FetchFails, Cleared, Chosen
  <2>3. \A s \in Sources : s \in S => k[s] \in 1..8 /\ Delay(k[s]) \in 0..MaxDelay
    BY <1>t, RestRange, DelayRange
  <2>4. ASSUME NEW s \in Sources, failures'[s] > 0
        PROVE  failed'[s] + Delay(failures'[s]) <= IF next'[s] = 0 THEN now' ELSE next'[s]
    <3>1. CASE s \in S
      <4>1. failed'[s] = now /\ failures'[s] = k[s] /\ next'[s] = now + Delay(k[s])
        BY <2>1, <3>1
      <4> HIDE DEF k, S
      <4> QED BY <1>t, <2>3, <3>1, <4>1
    <3>2. CASE s \notin S
      <4>1. failed'[s] = failed[s] /\ failures'[s] = failures[s] /\ next'[s] = next[s]
        BY <2>1, <3>2
      <4> QED BY <1>r, <2>1, <2>4, <4>1
    <3> QED BY <3>1, <3>2
  <2>5. \A s \in Cleared' : next'[s] = 0
    BY <1>r, <1>t, <2>1, <2>2
  <2> HIDE DEF Rested, S, k
  <2> QED BY <2>2, <2>4, <2>5 DEF RetriesKept
<1>12. ASSUME NEW answered, NEW got, FetchDelivers(answered, got) PROVE RetriesKept'
  <2>1. Cleared' = Cleared /\ refresh'.at = "choose"
    BY <1>12, Constructed DEF FetchDelivers, Cleared, Chosen
  <2> QED BY <1>0, <1>12, <2>1 DEF FetchDelivers
<1>13. ASSUME NEW at, Completed(at), now' = now PROVE RetriesKept'
  <2> DEFINE whole == refresh.whole
             part == refresh.part
             k == [s \in Sources |-> IF s \in part THEN MinTime(8, failures[s] + 1) ELSE failures[s]]
  <2>1. /\ failures' = [s \in Sources |-> IF s \in whole THEN 0 ELSE k[s]]
        /\ next' = [s \in Sources |-> IF s \in whole THEN 0
                                      ELSE IF s \in part THEN now + Delay(k[s]) ELSE next[s]]
        /\ failed' = [s \in Sources |-> IF s \in part THEN now ELSE failed[s]]
    BY <1>13 DEF Completed
  <2>2. Cleared' = {} /\ refresh'.at = "idle"
    BY <1>13, Constructed DEF Completed, Cleared, Chosen
  <2>3. \A s \in Sources : s \in part => k[s] \in 1..8 /\ Delay(k[s]) \in 0..MaxDelay
    BY <1>t, RestRange, DelayRange
  <2>4. ASSUME NEW s \in Sources, failures'[s] > 0
        PROVE  failed'[s] + Delay(failures'[s]) <= IF next'[s] = 0 THEN now' ELSE next'[s]
    <3>1. s \notin whole
      BY <2>1, <2>4
    <3>2. CASE s \in part
      <4>1. failed'[s] = now /\ failures'[s] = k[s] /\ next'[s] = now + Delay(k[s])
        BY <2>1, <3>1, <3>2
      <4> HIDE DEF k, part, whole
      <4> QED BY <1>t, <2>3, <3>2, <4>1
    <3>3. CASE s \notin part
      <4>1. failed'[s] = failed[s] /\ failures'[s] = failures[s] /\ next'[s] = next[s]
        BY <2>1, <3>1, <3>3
      <4> QED BY <1>13, <1>r, <2>4, <4>1
    <3> QED BY <3>2, <3>3
  <2> HIDE DEF Rested, whole, part, k
  <2> QED BY <2>2, <2>4 DEF RetriesKept
<1>14. CASE CompleteEmpty
  BY <1>13, <1>14 DEF CompleteEmpty
<1>15. CASE CompleteStored
  BY <1>13, <1>15 DEF CompleteStored
<1>16. CASE Commit
  <2>1. refresh'.at = "complete"
    BY <1>16, <1>t DEF Commit, RefreshType
  <2>2. Cleared' = {}
    BY <2>1 DEF Cleared, Chosen
  <2> QED BY <1>0, <1>16, <2>1, <2>2 DEF Commit
<1>17. CASE CleanupRetention
  BY <1>4, <1>17 DEF CleanupRetention
<1>18. CASE Tick
  <2>1. UNCHANGED <<refresh, next, failures, failed>> /\ now' = now + 1
    BY <1>18 DEF Tick, memory
  <2>2. Cleared' = Cleared
    BY <2>1 DEF Cleared, Chosen
  <2>3. ASSUME NEW s \in Sources, failures[s] > 0
        PROVE  failed[s] + Delay(failures[s]) <= IF next[s] = 0 THEN now' ELSE next[s]
    <3>1. failed[s] + Delay(failures[s]) <= IF next[s] = 0 THEN now ELSE next[s]
      BY <1>r, <2>3
    <3> HIDE DEF Rested
    <3> QED BY <1>d, <1>t, <2>1, <2>3, <3>1
  <2> HIDE DEF Rested
  <2> QED BY <1>r, <2>1, <2>2, <2>3 DEF RetriesKept
<1>19. CASE UNCHANGED vars
  BY <1>4, <1>19 DEF vars, memory
<1> HIDE DEF Rested
<1> QED BY <1>2, <1>3, <1>5, <1>6, <1>7, <1>8, <1>9, <1>10, <1>11, <1>12, <1>14, <1>15, <1>16, <1>17,
           <1>18, <1>19 DEF Next

\* Whoever begins to be asked was chosen.
LEMMA BegunWasChosen ==
  ASSUME TypeOK, [Next]_vars, NEW s \in Sources, Begins(s)
  PROVE  s \in refresh.todo /\ refresh.at = "choose"
<1>1. refresh.at = "choose" /\ refresh'.at = "fetch" /\ s = refresh'.of
  BY DEF Begins
<1>2. CASE \E q \in Sources : BeginSourceAttempt(q)
  BY <1>1, <1>2 DEF BeginSourceAttempt, IsFirst
<1>3. CASE SourcesChosen \/ CompleteEmpty \/ BeginStore
  BY <1>1, <1>3, Constructed DEF SourcesChosen, CompleteEmpty, Completed, BeginStore
<1>4. CASE UNCHANGED vars
  BY <1>1, <1>4 DEF vars
<1>5. ~Unbroken => FALSE
  BY <1>1 DEF Unbroken
<1> QED BY <1>1, <1>2, <1>3, <1>4, <1>5 DEF Next

\* A source all of whose parts are stored is not asked again before its time to
\* live has passed (sourcesDueForRefresh), for any number of sources, parts and
\* readers and whatever the readers write back to the memory.
THEOREM SnapshotsStayFresh == Spec => StoredSnapshotObeysTtl
<1>1. TypeOK /\ ChosenAreStale /\ [Next]_vars => (\A s \in Sources : Begins(s) => Stale(s))
  BY BegunWasChosen DEF ChosenAreStale, Chosen
<1> QED BY <1>1, TypeInit, TypeStep, StaleInit, StaleStep, PTL DEF Spec, StoredSnapshotObeysTtl

\* After its k-th failure in a row a source rests as long as deferSourceRetry
\* says, whoever starts refreshes meanwhile and however they end.
THEOREM FailuresRest == Spec => FailedSourceBacksOff
<1>1. TypeOK /\ RetriesKept /\ [Next]_vars =>
        (\A s \in Sources : Begins(s) /\ failures[s] > 0 => now >= failed[s] + Delay(failures[s]))
  <2> SUFFICES ASSUME TypeOK, RetriesKept, [Next]_vars, NEW s \in Sources, Begins(s), failures[s] > 0
               PROVE  now >= failed[s] + Delay(failures[s])
    OBVIOUS
  <2>1. s \in Cleared
    BY BegunWasChosen DEF Cleared, Chosen
  <2>2. failed[s] + Delay(failures[s]) <= now
    BY <2>1 DEF RetriesKept
  <2>3. failures[s] \in 1..8 /\ failed[s] \in Times /\ now \in 1..MaxTime
    BY DEF TypeOK
  <2>4. Delay(failures[s]) \in 0..MaxDelay
    BY <2>3, DelayRange
  <2> QED BY <2>2, <2>3, <2>4, TrendConstants DEF Times
<1> QED BY <1>1, TypeInit, TypeStep, StaleInit, RetriesStep, PTL DEF Spec, FailedSourceBacksOff

-----------------------------------------------------------------------------
(* A fetch.  What the source keeps (window, pace, hold, wait) is compared  *)
(* with what the provider was told (closed, since, told): LimitsKeepUp     *)
(* says it never runs out first.                                           *)

\* Left of what the source waits for before the next attempt.
Patience == IF kind = "qianfan" THEN hold ELSE wait

\* Where a fetch is among its boards and attempts.
BoardsCounted ==
  /\ fetch.at = "open" => fetch.board \in 1..(LastBoard + 1)
  /\ fetch.at \in {"send", "sent"} => fetch.board \in 1..LastBoard
  /\ fetch.at = "open" => fetch.attempt = 0
  /\ fetch.at = "send" => fetch.attempt <= 1
  /\ kind \in {"x", "youtube"} /\ fetch.at = "send" => fetch.attempt = 0

\* The source's own limits cover those it was told; an X region is asked for
\* with the window over.
LimitsKeepUp ==
  /\ kind = "x" => closed <= window
  /\ kind = "x" /\ fetch.at = "send" => window = 0
  /\ fetch.at = "send" /\ fetch.attempt > 0 => told <= Patience
  /\ since <= Interval
  /\ kind = "qianfan" => Interval <= since + pace

FetchInv == FetchTypeOK /\ BoardsCounted /\ LimitsKeepUp

-----------------------------------------------------------------------------
(* What the steps of a fetch leave of it.                                  *)

LEMMA LastBoardRange ==
  ASSUME FetchTypeOK PROVE LastBoard \in 1..(Boards + Batches)
  <1>1. CASE kind \in {"weibo", "feed"}
    BY <1>1, FetchAssumption DEF LastBoard
  <1>2. CASE kind = "wikimedia"
    BY <1>2, FetchAssumption DEF LastBoard
  <1>3. CASE kind \in {"x", "youtube", "qianfan"}
    BY <1>3, FetchAssumption DEF LastBoard
  <1> QED BY <1>1, <1>2, <1>3 DEF FetchTypeOK, Kinds

LEMMA OpenFetch ==
  ASSUME FetchTypeOK, NEW b \in 0..(Boards + Batches + 1), Open(b)
  PROVE  /\ fetch' \in Fetches /\ fetch'.at = "open"
         /\ fetch'.board = b /\ fetch'.attempt = 0
  <1>1. fetch' = [at |-> "open", board |-> b, attempt |-> 0, failed |-> fetch.failed]
    BY DEF FetchTypeOK, Fetches, Open
  <1>2. fetch.failed \in SUBSET (1..Boards) /\ 0 \in 0..2
    BY DEF FetchTypeOK, Fetches
  <1> QED BY <1>1, <1>2 DEF Fetches

LEMMA IdleFetch == NoFetch \in Fetches /\ NoFetch.at = "idle"
  BY FetchAssumption DEF NoFetch, Fetches

LEMMA AgainFetch ==
  ASSUME FetchTypeOK, Again
  PROVE  /\ fetch' \in Fetches /\ fetch'.at = "send" /\ outcome' = outcome
         /\ fetch'.board = fetch.board /\ fetch'.attempt = fetch.attempt
  BY DEF FetchTypeOK, Fetches, Again

LEMMA BoardReadFetch ==
  ASSUME FetchTypeOK, BoardRead, fetch.board \in 1..(Boards + Batches)
  PROVE  /\ fetch' \in Fetches /\ fetch'.at = "open" /\ outcome' = outcome
         /\ fetch'.board = fetch.board + 1 /\ fetch'.attempt = 0
  <1>1. fetch.board + 1 \in 0..(Boards + Batches + 1)
    BY FetchAssumption
  <1> QED BY <1>1, OpenFetch DEF BoardRead

LEMMA BoardFailsFetch ==
  ASSUME FetchTypeOK, BoardFails, fetch.board \in 1..Boards
  PROVE  /\ fetch' \in Fetches /\ fetch'.at = "open" /\ outcome' = outcome
         /\ fetch'.board = fetch.board + 1 /\ fetch'.attempt = 0
  <1>1. fetch.board + 1 \in 0..(Boards + Batches + 1)
    BY FetchAssumption
  <1>2. fetch.failed \cup {fetch.board} \in SUBSET (1..Boards)
    <2>1. fetch.failed \in SUBSET (1..Boards)
      BY DEF FetchTypeOK, Fetches
    <2> QED BY <2>1
  <1>3. fetch' = [at |-> "open", board |-> fetch.board + 1, attempt |-> 0,
                  failed |-> fetch.failed \cup {fetch.board}]
    BY DEF BoardFails, FetchTypeOK, Fetches
  <1>4. 0 \in 0..2
    OBVIOUS
  <1> QED BY <1>1, <1>2, <1>3, <1>4 DEF BoardFails, Fetches

-----------------------------------------------------------------------------
(* The invariant.                                                          *)

LEMMA InitInv == FetchInit => FetchInv
  BY FetchAssumption, IdleFetch
  DEF FetchInit, FetchInv, FetchTypeOK, BoardsCounted, LimitsKeepUp, Kinds

\* A step that leaves the kind and the limits alone, and opens a board or ends
\* the fetch.
LEMMA QuietStep ==
  ASSUME FetchInv, UNCHANGED <<kind, wait, limits, history>>,
         fetch' \in Fetches, outcome' \in {"none", "failed", "part", "whole"},
         \/ fetch'.at = "idle"
         \/ fetch'.at = "open" /\ fetch'.board \in 1..(LastBoard + 1)
            /\ fetch'.attempt = 0
         \/ fetch'.at = "send" /\ fetch'.board \in 1..LastBoard
            /\ fetch'.attempt = 0 /\ (kind = "x" => window = 0)
  PROVE  FetchInv'
  <1>1. LastBoard' = LastBoard
    BY DEF LastBoard
  <1>2. FetchTypeOK'
    BY DEF FetchInv, FetchTypeOK, limits, history
  <1>3. BoardsCounted'
    BY <1>1 DEF FetchInv, BoardsCounted
  <1>4. LimitsKeepUp'
    BY DEF FetchInv, FetchTypeOK, LimitsKeepUp, limits, history
  <1> QED BY <1>2, <1>3, <1>4 DEF FetchInv

LEMMA StartInv == FetchInv /\ Start => FetchInv'
  <1> SUFFICES ASSUME FetchInv, Start PROVE FetchInv'
    OBVIOUS
  <1>1. CASE Ends("failed")
    BY <1>1, IdleFetch, QuietStep DEF Start, Ends
  <1>2. CASE Open(1) /\ UNCHANGED outcome
    <2>1. 1 \in 0..(Boards + Batches + 1) /\ 1 \in 1..(LastBoard + 1)
      BY FetchAssumption, LastBoardRange DEF FetchInv
    <2>2. fetch' \in Fetches /\ fetch'.at = "open" /\ fetch'.board = 1 /\ fetch'.attempt = 0
      BY <1>2, <2>1, OpenFetch DEF FetchInv
    <2> QED BY <1>2, <2>1, <2>2, QuietStep DEF Start, FetchInv, FetchTypeOK
  <1> QED BY <1>1, <1>2 DEF Start

LEMMA OpenBoardInv == FetchInv /\ OpenBoard => FetchInv'
  <1> SUFFICES ASSUME FetchInv, OpenBoard PROVE FetchInv'
    OBVIOUS
  <1>1. fetch.board \in 1..LastBoard /\ LastBoard \in 1..(Boards + Batches)
    BY LastBoardRange DEF FetchInv, BoardsCounted, OpenBoard
  <1>2. CASE XSkips
    <2>1. fetch.board \in 1..Boards
      BY <1>1, <1>2 DEF XSkips, LastBoard
    <2>2. /\ fetch' \in Fetches /\ fetch'.at = "open" /\ outcome' = outcome
          /\ fetch'.board = fetch.board + 1 /\ fetch'.attempt = 0
      BY <1>2, <2>1, BoardFailsFetch DEF FetchInv, OpenBoard
    <2>3. fetch'.board \in 1..(LastBoard + 1)
      BY <1>1, <2>2
    <2> QED BY <2>2, <2>3, QuietStep DEF OpenBoard, FetchInv, FetchTypeOK
  <1>3. CASE ~XSkips
    <2>1. /\ fetch' \in Fetches /\ fetch'.at = "send"
          /\ fetch'.board = fetch.board /\ fetch'.attempt = 0
      BY <1>3 DEF OpenBoard, FetchInv, FetchTypeOK, BoardsCounted, Fetches
    <2>2. kind = "x" => window = 0
      BY <1>3 DEF XSkips, FetchInv, FetchTypeOK
    <2> QED BY <1>1, <1>3, <2>1, <2>2, QuietStep DEF OpenBoard, FetchInv, FetchTypeOK
  <1> QED BY <1>2, <1>3

LEMMA FinishInv == FetchInv /\ Finish => FetchInv'
  <1> SUFFICES ASSUME FetchInv, Finish PROVE FetchInv'
    OBVIOUS
  <1>1. outcome' \in {"whole", "failed", "part"}
    BY DEF Finish, Ends
  <1> QED BY <1>1, IdleFetch, QuietStep DEF Finish, Ends

LEMMA SendInv == FetchInv /\ Send => FetchInv'
  <1> SUFFICES ASSUME FetchInv, Send PROVE FetchInv'
    OBVIOUS
  <1>1. /\ fetch' \in Fetches /\ fetch'.at = "sent"
        /\ fetch'.board = fetch.board
    <2>1. fetch.attempt + 1 \in 0..2
      BY DEF Send, FetchInv, FetchTypeOK, BoardsCounted, Fetches
    <2>2. fetch' = [at |-> "sent", board |-> fetch.board,
                    attempt |-> fetch.attempt + 1, failed |-> fetch.failed]
      BY DEF Send, FetchInv, FetchTypeOK, Fetches
    <2>3. fetch.board \in 0..(Boards + Batches + 1) /\ fetch.failed \in SUBSET (1..Boards)
      BY DEF FetchInv, FetchTypeOK, Fetches
    <2> QED BY <2>1, <2>2, <2>3 DEF Fetches
  <1>2. FetchTypeOK'
    BY <1>1, FetchAssumption DEF Send, FetchInv, FetchTypeOK
  <1>3. BoardsCounted'
    BY <1>1 DEF Send, FetchInv, BoardsCounted, LastBoard
  <1>4. LimitsKeepUp'
    BY <1>1, FetchAssumption DEF Send, FetchInv, FetchTypeOK, LimitsKeepUp
  <1> QED BY <1>2, <1>3, <1>4 DEF FetchInv

LEMMA TickInv == FetchInv /\ TimePasses => FetchInv'
  <1> SUFFICES ASSUME FetchInv, TimePasses PROVE FetchInv'
    OBVIOUS
  <1>1. FetchTypeOK'
    BY FetchAssumption DEF TimePasses, Less, Shortest, FetchInv, FetchTypeOK
  <1>2. BoardsCounted'
    BY DEF TimePasses, FetchInv, BoardsCounted, LastBoard
  <1>3. LimitsKeepUp'
    BY FetchAssumption DEF TimePasses, Less, Shortest, FetchInv, FetchTypeOK, LimitsKeepUp, Patience
  <1> QED BY <1>1, <1>2, <1>3 DEF FetchInv

\* What the end of a request does to the fetch, whatever the source: it is
\* over, at its next board, or at the second attempt for this one, told of a
\* wait no longer than the one the source sets itself.
Advanced(a) ==
  /\ fetch' \in Fetches /\ outcome' \in {"none", "failed", "part", "whole"}
  /\ \/ fetch'.at = "idle"
     \/ fetch'.at = "open" /\ fetch'.board \in 1..(LastBoard + 1) /\ fetch'.attempt = 0
     \/ /\ fetch'.at = "send" /\ fetch'.board = fetch.board /\ fetch'.attempt = fetch.attempt
        /\ fetch.attempt < 2 /\ kind \notin {"x", "youtube"}
        /\ Shortest(Cap, a.ask) <= (IF kind = "qianfan" THEN hold' ELSE wait')
  /\ wait' \in Nat /\ window' \in Nat /\ hold' \in Nat /\ pace' = pace
  /\ kind = "x" => window' = Longest(window, a.ask)

LEMMA AskRange == ASSUME NEW a \in Answers PROVE a.ask \in Nat
  BY FetchAssumption DEF Answers

\* A board that was read leaves the limits alone or, for X, closes the window.
LEMMA ReadOrFailed ==
  ASSUME FetchInv, fetch.at = "sent", NEW a \in Answers,
         BoardRead \/ (BoardFails /\ kind \in {"x", "youtube", "qianfan"}),
         wait' = wait, pace' = pace, hold' = hold, window' \in Nat,
         kind = "x" => window' = Longest(window, a.ask)
  PROVE  Advanced(a)
  <1>1. LastBoard \in 1..(Boards + Batches) /\ fetch.board \in 1..LastBoard
    BY LastBoardRange DEF FetchInv, BoardsCounted
  <1>2. fetch.board \in 1..(Boards + Batches)
    BY <1>1, FetchAssumption
  <1>3. CASE BoardRead
    BY <1>1, <1>2, <1>3, BoardReadFetch DEF Advanced, FetchInv, FetchTypeOK
  <1>4. CASE BoardFails /\ kind \in {"x", "youtube", "qianfan"}
    <2>1. fetch.board \in 1..Boards
      BY <1>1, <1>4 DEF LastBoard
    <2> QED BY <1>1, <1>4, <2>1, BoardFailsFetch DEF Advanced, FetchInv, FetchTypeOK
  <1> QED BY <1>3, <1>4

LEMMA FetchOver ==
  ASSUME FetchInv, NEW a \in Answers, Ends("failed"), kind # "x", UNCHANGED <<wait, limits>>
  PROVE  Advanced(a)
  BY IdleFetch DEF Ends, Advanced, FetchInv, FetchTypeOK, limits

LEMMA RequestAdvances ==
  ASSUME FetchInv, fetch.at = "sent", NEW a \in Answers,
         \/ JsonRetry(a) \/ XRegionEnds(a) \/ YouTubeRegionEnds(a)
         \/ QianfanTabEnds(a) \/ WeiboEnds(a) \/ WikimediaEnds(a) \/ FeedEnds(a)
  PROVE  Advanced(a)
  <1>1. CASE JsonRetry(a)
    <2>1. /\ kind \in {"weibo", "wikimedia", "feed"} /\ fetch.attempt < 2
          /\ wait' = Shortest(Cap, Longest(Backoff, a.ask)) /\ UNCHANGED limits
      BY <1>1 DEF JsonRetry, JsonRetries, RetryDelay
    <2>2. Shortest(Cap, a.ask) <= wait' /\ wait' \in Nat
      BY <2>1, AskRange, FetchAssumption DEF Shortest, Longest
    <2>3. /\ fetch' \in Fetches /\ fetch'.at = "send" /\ outcome' = outcome
          /\ fetch'.board = fetch.board /\ fetch'.attempt = fetch.attempt
      BY <1>1, AgainFetch DEF JsonRetry, FetchInv
    <2> QED BY <2>1, <2>2, <2>3 DEF Advanced, FetchInv, FetchTypeOK, limits
  <1>2. CASE XRegionEnds(a)
    <2>1. /\ BoardRead \/ BoardFails
          /\ window' = Longest(window, a.ask) /\ window' \in Nat
      BY <1>2, AskRange DEF XRegionEnds, WindowAfter, Longest, FetchInv, FetchTypeOK
    <2> QED BY <1>2, <2>1, ReadOrFailed DEF XRegionEnds
  <1>3. CASE YouTubeRegionEnds(a)
    <2>1. BoardRead \/ BoardFails
      BY <1>3 DEF YouTubeRegionEnds
    <2> QED BY <1>3, <2>1, ReadOrFailed DEF YouTubeRegionEnds, limits, FetchInv, FetchTypeOK
  <1>4. CASE QianfanTabEnds(a) /\ QianfanRetries(a)
    <2>1. /\ kind = "qianfan" /\ fetch.attempt < 2 /\ Again
          /\ hold' = Longest(hold, Shortest(Cap, a.ask))
          /\ UNCHANGED <<wait, window, pace>>
      <3>1. kind = "qianfan" /\ fetch.attempt < 2 /\ UNCHANGED <<wait, window, pace>>
        BY <1>4 DEF QianfanTabEnds, QianfanRetries
      <3>2. Again
        BY <1>4 DEF QianfanTabEnds
      <3>3. hold' = Longest(hold, Shortest(Cap, a.ask))
        BY <1>4 DEF QianfanTabEnds, HoldAfter
      <3> QED BY <3>1, <3>2, <3>3
    <2>2. Shortest(Cap, a.ask) <= hold' /\ hold' \in Nat
      BY <2>1, AskRange, FetchAssumption DEF Shortest, Longest, FetchInv, FetchTypeOK
    <2>3. /\ fetch' \in Fetches /\ fetch'.at = "send" /\ outcome' = outcome
          /\ fetch'.board = fetch.board /\ fetch'.attempt = fetch.attempt
      BY <2>1, AgainFetch DEF FetchInv
    <2> QED BY <2>1, <2>2, <2>3 DEF Advanced, FetchInv, FetchTypeOK
  <1>5. CASE QianfanTabEnds(a) /\ ~QianfanRetries(a)
    <2>1. /\ kind = "qianfan" /\ (BoardRead \/ BoardFails)
          /\ UNCHANGED <<wait, window, pace, hold>>
      BY <1>5 DEF QianfanTabEnds
    <2> QED BY <2>1, ReadOrFailed DEF FetchInv, FetchTypeOK
  <1>6. CASE WeiboEnds(a)
    <2>1. kind = "weibo" /\ (BoardRead \/ Ends("failed")) /\ UNCHANGED <<wait, limits>>
      BY <1>6 DEF WeiboEnds
    <2> QED BY <2>1, ReadOrFailed, FetchOver DEF limits, FetchInv, FetchTypeOK
  <1>7. CASE WikimediaEnds(a)
    <2>1. kind = "wikimedia" /\ UNCHANGED <<wait, limits>>
      BY <1>7 DEF WikimediaEnds
    <2>2. CASE BoardRead \/ Ends("failed")
      BY <2>1, <2>2, ReadOrFailed, FetchOver DEF limits, FetchInv, FetchTypeOK
    <2>3. ASSUME NEW none \in 0..Batches, Open(Boards + none + 1), UNCHANGED outcome
          PROVE  Advanced(a)
      <3>1. Boards + none + 1 \in 0..(Boards + Batches + 1)
        BY FetchAssumption
      <3>2. Boards + none + 1 \in 1..(LastBoard + 1)
        BY <2>1, FetchAssumption DEF LastBoard
      <3>3. /\ fetch' \in Fetches /\ fetch'.at = "open"
            /\ fetch'.board = Boards + none + 1 /\ fetch'.attempt = 0
        BY <2>3, <3>1, OpenFetch DEF FetchInv
      <3> QED BY <2>1, <2>3, <3>2, <3>3 DEF Advanced, limits, FetchInv, FetchTypeOK
    <2>4. \/ BoardRead \/ Ends("failed")
          \/ \E none \in 0..Batches : Open(Boards + none + 1) /\ UNCHANGED outcome
      BY <1>7 DEF WikimediaEnds, RankingEnds, DetailsEnd
    <2> QED BY <2>2, <2>3, <2>4
  <1>8. CASE FeedEnds(a)
    <2>1. kind = "feed" /\ (BoardRead \/ Ends("failed")) /\ UNCHANGED <<wait, limits>>
      BY <1>8 DEF FeedEnds
    <2> QED BY <2>1, ReadOrFailed, FetchOver DEF limits, FetchInv, FetchTypeOK
  <1> QED BY <1>1, <1>2, <1>3, <1>4, <1>5, <1>6, <1>7, <1>8

LEMMA RequestEndsInv == FetchInv /\ RequestEnds => FetchInv'
  <1> SUFFICES ASSUME FetchInv, RequestEnds PROVE FetchInv'
    OBVIOUS
  <1>1. PICK a \in Answers :
          /\ \/ JsonRetry(a) \/ XRegionEnds(a) \/ YouTubeRegionEnds(a)
             \/ QianfanTabEnds(a) \/ WeiboEnds(a) \/ WikimediaEnds(a) \/ FeedEnds(a)
          /\ told' = Shortest(Cap, a.ask)
          /\ closed' = IF kind = "x" THEN Longest(closed, a.ask) ELSE closed
    BY DEF RequestEnds
  <1>2. Advanced(a) /\ a.ask \in Nat /\ UNCHANGED <<kind, since>>
    BY <1>1, RequestAdvances, AskRange DEF RequestEnds
  <1>3. fetch.board \in 1..LastBoard /\ LastBoard' = LastBoard
    BY <1>2 DEF RequestEnds, FetchInv, BoardsCounted, LastBoard
  <1>4. FetchTypeOK'
    BY <1>1, <1>2, FetchAssumption DEF Advanced, FetchInv, FetchTypeOK, Shortest, Longest
  <1>5. BoardsCounted'
    <2>1. fetch.attempt \in 0..2 /\ fetch'.attempt \in 0..2
      BY <1>2 DEF Advanced, FetchInv, FetchTypeOK, Fetches
    <2>2. fetch.attempt < 2 => fetch.attempt <= 1
      BY <2>1
    <2> QED BY <1>2, <1>3, <2>1, <2>2 DEF Advanced, BoardsCounted
  <1>6. LimitsKeepUp'
    <2>1. kind = "x" => closed' <= window' /\ fetch'.at # "send"
      BY <1>1, <1>2 DEF Advanced, FetchInv, FetchTypeOK, LimitsKeepUp, Longest
    <2>2. fetch'.at = "send" => told' <= Patience'
      BY <1>1, <1>2 DEF Advanced, Patience
    <2>3. since' <= Interval /\ (kind = "qianfan" => Interval <= since' + pace')
      BY <1>2 DEF Advanced, FetchInv, LimitsKeepUp
    <2> QED BY <1>2, <2>1, <2>2, <2>3 DEF LimitsKeepUp
  <1> QED BY <1>4, <1>5, <1>6 DEF FetchInv

\* The parts of the invariant hold in every reachable state.
LEMMA NextInv == FetchInv /\ [FetchNext]_fetchVars => FetchInv'
  <1> SUFFICES ASSUME FetchInv, [FetchNext]_fetchVars PROVE FetchInv'
    OBVIOUS
  <1>1. CASE UNCHANGED fetchVars
    BY <1>1 DEF fetchVars, limits, history, FetchInv, FetchTypeOK, BoardsCounted, LimitsKeepUp,
       LastBoard, Patience
  <1> QED BY <1>1, StartInv, OpenBoardInv, FinishInv, SendInv, RequestEndsInv,
      TickInv DEF FetchNext

LEMMA FetchInvariant == FetchSpec => []FetchInv
  BY InitInv, NextInv, PTL DEF FetchSpec

\* The variables of a source's fetch keep their types.
THEOREM FetchTypeCorrect == FetchSpec => []FetchTypeOK
  <1>1. FetchInv => FetchTypeOK
    BY DEF FetchInv
  <1> QED BY <1>1, FetchInvariant, PTL

\* For every number of boards, every interval and every wait asked for: X is not
\* asked while the window it closed is shut, Qianfan not within an interval of the
\* request before, and a second attempt for the same board not before the wait the
\* first was told of, cut to the cap of thirty seconds, is over (trend-text.ts, the
\* limits of the X and Qianfan sources). Nothing is said of the first request for the
\* next board or tab, which does not wait for what a last 429 asked.
THEOREM RequestsWait == FetchSpec => WaitsAsTold
  <1>1. FetchInv /\ [FetchNext]_fetchVars => [SendsInTime]_fetchVars
    <2> SUFFICES ASSUME FetchInv, FetchNext PROVE SendsInTime \/ UNCHANGED fetchVars
      BY DEF fetchVars
    <2>1. CASE Send
      BY <2>1, FetchAssumption DEF Send, Slot, SendsInTime, FetchInv, FetchTypeOK, LimitsKeepUp, Patience
    <2>2. CASE Start
      <3>1. CASE Ends("failed")
        BY <3>1 DEF Ends, NoFetch, SendsInTime
      <3>2. CASE Open(1)
        BY <3>2 DEF Open, SendsInTime, FetchInv, FetchTypeOK, Fetches
      <3> QED BY <2>2, <3>1, <3>2 DEF Start
    <2>3. CASE OpenBoard
      BY <2>3 DEF OpenBoard, BoardFails, SendsInTime, FetchInv, FetchTypeOK, Fetches
    <2>4. CASE Finish
      BY <2>4 DEF Finish, Ends, NoFetch, SendsInTime
    <2>5. CASE RequestEnds
      BY <2>5 DEF RequestEnds, SendsInTime
    <2>6. CASE TimePasses
      BY <2>6 DEF TimePasses, SendsInTime
    <2> QED BY <2>1, <2>2, <2>3, <2>4, <2>5, <2>6 DEF FetchNext
  <1> QED BY <1>1, FetchInvariant, PTL DEF FetchSpec, WaitsAsTold
=============================================================================
