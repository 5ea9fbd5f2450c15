---------------------------- MODULE TrendRefresh ----------------------------
(***************************************************************************)
(* The refresh of the trend sources (TrendsService): which sources are     *)
(* fetched and when, what is stored, what the process remembers of each    *)
(* source, and the readers that write to that memory while a refresh runs. *)
(*                                                                         *)
(* A source delivers one or more parts (boards, regions); a part's latest  *)
(* snapshot in the database is known by its time.  Readers take the memory *)
(* of a source, wait for the database and write the memory back.  One API  *)
(* process; a restart loses the memory, and the run from there is one that *)
(* begins with what earlier processes stored.                              *)
(***************************************************************************)
EXTENDS Integers, Sequences, SequencesExt

CONSTANTS Order,            \* the enabled sources, in the order the service lists them
          Parts, PartsOf,   \* what a source stores
          Ttl,              \* how long a source's snapshot stays fresh
          Base, MaxDelay,   \* the backoff after a failure and its cap
          Retention,        \* how long observations are kept
          Readers, Self,    \* requests, and the refresh itself when it reads
          MaxTime           \* bound of the model

Sources == Range(Order)
Hydrators == Readers \cup {Self}

ASSUME TrendAssumption ==
  /\ Order \in Seq(Sources) \ {<<>>}
  /\ PartsOf \in [Sources -> (SUBSET Parts) \ {{}}]
  /\ Ttl \in [Sources -> 1..Retention]
  /\ Base \in Nat \ {0} /\ MaxDelay \in Nat /\ Base <= MaxDelay
  /\ Retention \in Nat /\ MaxTime \in Nat \ {0}

VARIABLES now,
          observed,  \* the latest stored observation of each part
          status,    \* what the process remembers of each source
          next,      \* nextSourceAttemptAt
          failures,  \* sourceFailureCounts
          refresh,   \* the refresh in flight
          reader,    \* a list or refresh request writing back the memory
          failed     \* history: when each source failed or delivered only in part, until it is
                     \* asked again

vars == <<now, observed, status, next, failures, refresh, reader, failed>>
memory == <<next, failures, failed>>

Never == 0
Times == 0..MaxTime
MinTime(a, b) == IF a < b THEN a ELSE b
Newest(times) == CHOOSE t \in times : \A u \in times : u <= t

\* A status: has the source been heard of in this process, and its last success.
Waiting == [heard |-> FALSE, at |-> Never]
Idle == [at |-> "idle"]

\* A refresh checks what is due, fetches it one source after the other and stores it.
Due(open, due) == [at |-> "due", open |-> open, due |-> due]
Choosing(todo, got, whole, part) ==
  [at |-> "choose", todo |-> todo, got |-> got, whole |-> whole, part |-> part]
Storing(time) ==
  [at |-> "store", got |-> refresh.got, whole |-> refresh.whole, part |-> refresh.part, time |-> time]

StatusType == [heard : BOOLEAN, at : Times]
RefreshType ==
  [at : {"idle", "hydrate"}]
  \cup [at : {"due"}, open : SUBSET Sources, due : SUBSET Sources]
  \cup [at : {"choose"}, todo : SUBSET Sources, got : SUBSET Parts,
        whole : SUBSET Sources, part : SUBSET Sources]
  \cup [at : {"fetch"}, of : Sources, todo : SUBSET Sources, got : SUBSET Parts,
        whole : SUBSET Sources, part : SUBSET Sources]
  \cup [at : {"store", "complete"}, got : SUBSET Parts, whole : SUBSET Sources,
        part : SUBSET Sources, time : Times]
ReaderType ==
  [at : {"idle", "wait"}]
  \cup [at : {"read"}, i : DOMAIN Order, current : StatusType]
  \cup [at : {"write"}, i : DOMAIN Order, current : StatusType, newest : Times]

TypeOK ==
  /\ now \in 1..MaxTime
  /\ observed \in [Parts -> Times]
  /\ status \in [Sources -> StatusType]
  /\ next \in [Sources -> 0..(MaxTime + MaxDelay)]
  /\ failures \in [Sources -> 0..8]
  /\ failed \in [Sources -> Times]
  /\ refresh \in RefreshType
  /\ reader \in [Hydrators -> ReaderType]

Init ==
  /\ now = 1
  /\ observed \in [Parts -> {Never, now}]
  /\ status = [s \in Sources |-> Waiting]
  /\ next = [s \in Sources |-> 0]
  /\ failures = [s \in Sources |-> 0]
  /\ refresh = Idle
  /\ reader = [r \in Hydrators |-> Idle]
  /\ failed = [s \in Sources |-> Never]

-----------------------------------------------------------------------------
(* Starting a refresh.  The sources whose retry time has passed lose it and *)
(* are checked against the database.                                        *)

\* A refresh that is under way is shared.
Refreshed ==
  IF refresh # Idle THEN UNCHANGED <<next, refresh>>
  ELSE LET open == {s \in Sources : next[s] <= now} IN
       /\ next' = [s \in Sources |-> IF s \in open THEN 0 ELSE next[s]]
       /\ refresh' = Due(open, {})

TimerFires ==
  /\ refresh = Idle
  /\ Refreshed
  /\ UNCHANGED <<now, observed, status, failures, failed, reader>>

\* Variant for StoredSnapshotObeysTtl: only the memory of the process is asked.
IsDueByMemory(times, ttl, fallback) == fallback = Never \/ now - fallback >= ttl

IsDue(times, ttl, fallback) ==
  \E t \in times : LET known == IF t # Never THEN t ELSE fallback
                   IN  known = Never \/ now - known >= ttl

CheckSource(s) ==
  /\ refresh.at = "due" /\ s \in refresh.open
  /\ LET open == refresh.open \ {s} IN
     refresh' = IF IsDue({observed[p] : p \in PartsOf[s]}, Ttl[s], status[s].at)
                THEN Due(open, refresh.due \cup {s}) ELSE Due(open, refresh.due)
  /\ UNCHANGED <<now, observed, status, memory, reader>>

\* One reader's way through the sources: read a source's memory, then its latest snapshots.
Hydrating(i) == [at |-> "read", i |-> i, current |-> status[Order[i]]]

\* With nothing due the refresh only hydrates, as the reader Self.
SourcesChosen ==
  /\ refresh.at = "due" /\ refresh.open = {}
  /\ IF refresh.due = {}
     THEN /\ refresh' = [at |-> "hydrate"]
          /\ reader' = [reader EXCEPT ![Self] = Hydrating(1)]
     ELSE refresh' = Choosing(refresh.due, {}, {}, {}) /\ UNCHANGED reader
  /\ UNCHANGED <<now, observed, status, memory>>

Hydrated ==
  /\ refresh.at = "hydrate" /\ reader[Self] = Idle
  /\ refresh' = Idle
  /\ UNCHANGED <<now, observed, status, memory, reader>>

CheckFails ==
  /\ refresh.at = "due"
  /\ refresh' = Idle
  /\ UNCHANGED <<now, observed, status, memory, reader>>

-----------------------------------------------------------------------------
(* Fetching, one source after the other.                                    *)

\* The sources that are due, in the order of the list.
IsFirst(s, S) == s \in S /\ \E i \in DOMAIN Order : Order[i] = s /\ \A k \in 1..(i - 1) : Order[k] \notin S

BeginSourceAttempt(s) ==
  /\ refresh.at = "choose" /\ IsFirst(s, refresh.todo)
  /\ next' = [next EXCEPT ![s] = now + Base]
  /\ refresh' = [at |-> "fetch", of |-> s, todo |-> refresh.todo \ {s}, got |-> refresh.got,
                 whole |-> refresh.whole, part |-> refresh.part]
  /\ failed' = [failed EXCEPT ![s] = Never]
  /\ UNCHANGED <<now, observed, status, failures, reader>>

\* Failures are counted up to eight.
Doublings == <<1, 2, 4, 8, 16, 32, 64, 128>>
Delay(k) == MinTime(MaxDelay, Base * Doublings[k])

\* Variant for FailedSourceBacksOff: the time given to the attempt stands.
DeferSourceRetryNever(S) ==
  /\ failures' = [s \in Sources |-> IF s \in S THEN MinTime(8, failures[s] + 1) ELSE failures[s]]
  /\ failed' = [s \in Sources |-> IF s \in S THEN now ELSE failed[s]]
  /\ UNCHANGED next

\* The retry of a source after a failure or a success in part.
DeferSourceRetry(S) ==
  LET k == [s \in Sources |-> IF s \in S THEN MinTime(8, failures[s] + 1) ELSE failures[s]] IN
  /\ failures' = k
  /\ next' = [s \in Sources |-> IF s \in S THEN now + Delay(k[s]) ELSE next[s]]
  /\ failed' = [s \in Sources |-> IF s \in S THEN now ELSE failed[s]]

\* All parts failed, or X's rate-limit window has not opened again: the fetch throws.
FetchFails ==
  /\ refresh.at = "fetch"
  /\ DeferSourceRetry({refresh.of})
  /\ status' = [status EXCEPT ![refresh.of].heard = TRUE]
  /\ refresh' = Choosing(refresh.todo, refresh.got, refresh.whole, refresh.part)
  /\ UNCHANGED <<now, observed, reader>>

\* Some parts answer, with items (got) or without; the others are reported as lost.
FetchDelivers(answered, got) ==
  LET s == refresh.of IN
  /\ refresh.at = "fetch"
  /\ answered # {} /\ answered \subseteq PartsOf[s] /\ got \subseteq answered
  /\ refresh' = IF answered = PartsOf[s]
                THEN Choosing(refresh.todo, refresh.got \cup got, refresh.whole \cup {s}, refresh.part)
                ELSE Choosing(refresh.todo, refresh.got \cup got, refresh.whole, refresh.part \cup {s})
  /\ UNCHANGED <<now, observed, status, memory, reader>>

-----------------------------------------------------------------------------
(* Storing what was fetched.                                                *)

\* A whole success forgets the retry time, one in part defers it.
Completed(at) ==
  LET whole == refresh.whole
      part  == refresh.part
      k == [s \in Sources |-> IF s \in part THEN MinTime(8, failures[s] + 1) ELSE failures[s]]
  IN
  /\ failures' = [s \in Sources |-> IF s \in whole THEN 0 ELSE k[s]]
  /\ next' = [s \in Sources |-> IF s \in whole THEN 0
                                ELSE IF s \in part THEN now + Delay(k[s]) ELSE next[s]]
  /\ failed' = [s \in Sources |-> IF s \in part THEN now ELSE failed[s]]
  /\ status' = [s \in Sources |-> IF s \in whole \cup part THEN [heard |-> TRUE, at |-> at]
                                  ELSE status[s]]
  /\ refresh' = Idle

\* Nothing to store: the sources that answered complete in memory only.
CompleteEmpty ==
  /\ refresh.at = "choose" /\ refresh.todo = {} /\ refresh.got = {}
  /\ Completed(now)
  /\ UNCHANGED <<now, observed, reader>>

BeginStore ==
  /\ refresh.at = "choose" /\ refresh.todo = {} /\ refresh.got # {}
  /\ refresh' = Storing(now)
  /\ UNCHANGED <<now, observed, status, memory, reader>>

Commit ==
  /\ refresh.at = "store"
  /\ observed' = [p \in Parts |-> IF p \in refresh.got THEN refresh.time ELSE observed[p]]
  /\ refresh' = [refresh EXCEPT !.at = "complete"]
  /\ UNCHANGED <<now, status, memory, reader>>

\* The transaction fails: the refresh rejects and the next one starts anew.
StoreFails ==
  /\ refresh.at = "store"
  /\ refresh' = Idle
  /\ UNCHANGED <<now, observed, status, memory, reader>>

CompleteStored ==
  /\ refresh.at = "complete"
  /\ Completed(refresh.time)
  /\ UNCHANGED <<now, observed, reader>>

-----------------------------------------------------------------------------
(* Readers.                                                                 *)

\* GET /trends starts a refresh and does not wait for it.
List(r) ==
  /\ reader[r] = Idle
  /\ Refreshed
  /\ reader' = [reader EXCEPT ![r] = Hydrating(1)]
  /\ UNCHANGED <<now, observed, status, failures, failed>>

\* POST /trends/refresh waits for it.
RefreshManual(r) ==
  /\ reader[r] = Idle
  /\ Refreshed
  /\ reader' = [reader EXCEPT ![r] = [at |-> "wait"]]
  /\ UNCHANGED <<now, observed, status, failures, failed>>

RefreshAwaited(r) ==
  /\ reader[r].at = "wait" /\ refresh = Idle
  /\ reader' = [reader EXCEPT ![r] = Hydrating(1)]
  /\ UNCHANGED <<now, observed, status, memory, refresh>>

ReadSnapshots(r) ==
  /\ reader[r].at = "read"
  /\ LET h == reader[r] IN
     reader' = [reader EXCEPT ![r] =
                  [at |-> "write", i |-> h.i, current |-> h.current,
                   newest |-> Newest({observed[p] : p \in PartsOf[Order[h.i]]})]]
  /\ UNCHANGED <<now, observed, status, memory, refresh>>

\* What was read before the wait is written back after it.
WriteStatus(r) ==
  LET h == reader[r] IN
  /\ h.at = "write"
  /\ status' = IF h.current.heard
               THEN [status EXCEPT ![Order[h.i]] =
                       [heard |-> TRUE, at |-> IF h.newest # Never THEN h.newest ELSE h.current.at]]
               ELSE IF h.newest # Never
               THEN [status EXCEPT ![Order[h.i]] = [heard |-> TRUE, at |-> h.newest]]
               ELSE status
  /\ reader' = [reader EXCEPT ![r] =
                  IF h.i = Len(Order) THEN Idle
                  ELSE [at |-> "read", i |-> h.i + 1, current |-> status'[Order[h.i + 1]]]]
  /\ UNCHANGED <<now, observed, memory, refresh>>

-----------------------------------------------------------------------------
(* Cleanup and time.                                                         *)

CleanupRetention ==
  /\ \E p \in Parts : observed[p] # Never /\ observed[p] < now - Retention
  /\ observed' = [p \in Parts |-> IF observed[p] < now - Retention THEN Never ELSE observed[p]]
  /\ UNCHANGED <<now, status, memory, refresh, reader>>

Tick ==
  /\ now < MaxTime
  /\ now' = now + 1
  /\ UNCHANGED <<observed, status, memory, refresh, reader>>

\* What the refresh does between two waits runs without a break.
Unbroken == refresh.at = "choose" \/ (refresh.at = "due" /\ refresh.open = {})

Next ==
  \/ SourcesChosen \/ CompleteEmpty \/ BeginStore
  \/ \E s \in Sources : BeginSourceAttempt(s)
  \/ /\ ~Unbroken
     /\ \/ TimerFires \/ CheckFails \/ Hydrated \/ FetchFails
        \/ Commit \/ StoreFails \/ CompleteStored
        \/ \E s \in Sources : CheckSource(s)
        \/ \E answered \in SUBSET Parts : \E got \in SUBSET answered : FetchDelivers(answered, got)
        \/ \E r \in Readers : List(r) \/ RefreshManual(r) \/ RefreshAwaited(r)
        \/ \E r \in Hydrators : ReadSnapshots(r) \/ WriteStatus(r)
        \/ CleanupRetention \/ Tick

Spec == Init /\ [][Next]_vars

-----------------------------------------------------------------------------
(* Properties.                                                               *)

Begins(s) == refresh.at = "choose" /\ refresh'.at = "fetch" /\ s = refresh'.of

\* A part of the source has no stored snapshot, or one whose time to live has passed.
Stale(s) == \E p \in PartsOf[s] : observed[p] = Never \/ now - observed[p] >= Ttl[s]

\* A source all of whose parts are stored is not fetched again before its time to live has passed,
\* across restarts and whatever the readers write back (sourcesDueForRefresh).
StoredSnapshotObeysTtl ==
  [][\A s \in Sources : Begins(s) => Stale(s)]_vars

\* After its k-th failure in a row a source rests for Base * 2^(k-1), at most MaxDelay; requests of
\* readers and refreshes that store other sources, or fail to, do not shorten that.
FailedSourceBacksOff ==
  [][\A s \in Sources : Begins(s) /\ failures[s] > 0 => now >= failed[s] + Delay(failures[s])]_vars

=============================================================================
