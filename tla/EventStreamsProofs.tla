------------------------ MODULE EventStreamsProofs ------------------------
(***************************************************************************)
(* Proofs about EventStreams for any number of streams, jobs and events,   *)
(* any batch size and any limit on open streams.                           *)
(***************************************************************************)
EXTENDS EventStreams, TLAPS, SequenceTheorems, FiniteSetTheorems

-----------------------------------------------------------------------------
(* Sequences of events.                                                    *)

\* What a client has received and what comes next is one run of events.
LEMMA EventsJoin ==
  ASSUME NEW a \in Nat, NEW b \in Nat, NEW c \in Nat, a <= b, b <= c
  PROVE  EventsAfter(a, b) \o EventsAfter(b, c) = EventsAfter(a, c)
<1>1. EventsAfter(a, b) \in Seq(Nat) /\ Len(EventsAfter(a, b)) = b - a
  BY DEF EventsAfter
<1>2. EventsAfter(b, c) \in Seq(Nat) /\ Len(EventsAfter(b, c)) = c - b
  BY DEF EventsAfter
<1>3. EventsAfter(a, c) \in Seq(Nat) /\ Len(EventsAfter(a, c)) = c - a
  BY DEF EventsAfter
<1> DEFINE joined == EventsAfter(a, b) \o EventsAfter(b, c)
<1>4. joined \in Seq(Nat) /\ Len(joined) = c - a
  <2>1. joined \in Seq(Nat) /\ Len(joined) = Len(EventsAfter(a, b)) + Len(EventsAfter(b, c))
    BY <1>1, <1>2, ConcatProperties
  <2> QED BY <1>1, <1>2, <2>1
<1>5. \A i \in 1..(c - a) : joined[i] = a + i
  <2> SUFFICES ASSUME NEW i \in 1..(c - a) PROVE joined[i] = a + i
    OBVIOUS
  <2>1. joined[i] = IF i <= b - a THEN EventsAfter(a, b)[i] ELSE EventsAfter(b, c)[i - (b - a)]
    BY <1>1, <1>2, ConcatProperties
  <2> QED BY <2>1 DEF EventsAfter
<1>6. \A i \in 1..(c - a) : EventsAfter(a, c)[i] = a + i
  BY DEF EventsAfter
<1> QED BY <1>3, <1>4, <1>5, <1>6, SeqEqual

\* A stream that is up to date receives nothing.
LEMMA NoEvents ==
  ASSUME NEW a \in Nat, NEW b \in Nat, b <= a
  PROVE  EventsAfter(a, b) = <<>>
BY DEF EventsAfter

\* A set of cursors has a least one.
LEMMA LeastExists ==
  ASSUME NEW S \in SUBSET Nat, S # {}
  PROVE  \E c \in S : \A d \in S : c <= d
<1> DEFINE below == {0..c : c \in S}
<1>1. IsWellFoundedOn(StrictSubsetOrdering(Nat), FiniteSubsetsOf(Nat))
  BY FS_StrictSubsetOrderingWellFounded
<1>2. below \subseteq FiniteSubsetsOf(Nat) /\ below # {}
  <2>1. ASSUME NEW c \in S PROVE 0..c \in FiniteSubsetsOf(Nat)
    <3>1. IsFiniteSet(0..c)
      BY FS_Interval
    <3> QED BY <3>1 DEF FiniteSubsetsOf
  <2> QED BY <2>1
<1>3. PICK low \in below : \A high \in below : <<high, low>> \notin StrictSubsetOrdering(Nat)
  BY <1>1, <1>2, WFMin
<1>4. PICK c \in S : low = 0..c
  OBVIOUS
<1>5. ASSUME NEW d \in S, d < c PROVE FALSE
  <2>1. 0..d \in below /\ 0..d \subseteq low /\ 0..d # low
    BY <1>4, <1>5
  <2>2. <<0..d, low>> \in StrictSubsetOrdering(Nat)
    BY <2>1, <1>4 DEF StrictSubsetOrdering
  <2> QED BY <1>3, <2>1, <2>2
<1> QED BY <1>5
-----------------------------------------------------------------------------
(* Type correctness.                                                       *)

LEMMA NoPollType == NoPoll \in PollType
<1>1. [j \in {} |-> 0] \in PartOf(RowType) /\ [j \in {} |-> 0] \in PartOf(0..MaxEvents)
  <2>1. [j \in {} |-> 0] \in [{} -> RowType] /\ [j \in {} |-> 0] \in [{} -> 0..MaxEvents]
    OBVIOUS
  <2> QED BY <2>1 DEF PartOf
<1> QED BY <1>1 DEF NoPoll, PollType

\* The next batch, or the end of the poll, keeps the types.
LEMMA ContinueType ==
  ASSUME NEW todo \in SUBSET Jobs, NEW seen \in SUBSET Streams, NEW open,
         Continue(todo, seen, open)
  PROVE  /\ poll' \in PollType /\ poll'.pc \in {"idle", "jobs"}
         /\ timer' \in {"none", "now", "later"}
<1>1. CASE todo = {}
  <2>1. poll' = NoPoll /\ timer' \in {"none", "now", "later"}
    BY <1>1 DEF Continue
  <2>2. NoPoll.pc = "idle"
    BY DEF NoPoll
  <2> QED BY <2>1, <2>2, NoPollType
<1>2. CASE todo # {}
  <2>1. PICK batch \in SUBSET todo :
          poll' = [NoPoll EXCEPT !.pc = "jobs", !.todo = todo \ batch, !.seen = seen,
                                 !.pending = batch]
    BY <1>2 DEF Continue
  <2>2. poll' \in PollType /\ poll'.pc = "jobs"
    BY <2>1, NoPollType DEF PollType
  <2> QED BY <1>2, <2>2 DEF Continue
<1> QED BY <1>1, <1>2

LEMMA ClosedType ==
  ASSUME stream \in [Streams -> StreamType], NEW closing \in SUBSET Open,
         NEW state \in {"complete", "gone", "expired", "error", "left"}
  PROVE  Closed(closing, state) \in [Streams -> StreamType]
BY DEF Closed, StreamType, Open

LEMMA RowEndType ==
  ASSUME row \in [Jobs -> RowType], NEW j \in Jobs, NEW last \in 0..MaxEvents,
         NEW state \in {"active", "ended", "deleted"}
  PROVE  [row EXCEPT ![j] = [state |-> state, last |-> last]] \in [Jobs -> RowType]
BY DEF RowType

LEMMA TypeInit == Init => TypeOK
<1> SUFFICES ASSUME Init PROVE TypeOK
  OBVIOUS
<1>1. row \in [Jobs -> RowType]
  BY StreamsAssumption DEF Init, RowType
<1>2. stream \in [Streams -> StreamType]
  BY StreamsAssumption DEF Init, NewStream, StreamType
<1> QED BY <1>1, <1>2, NoPollType DEF Init, TypeOK, NoPoll

LEMMA PartOfValues ==
  ASSUME NEW T, NEW f \in PartOf(T)
  PROVE  DOMAIN f \subseteq Jobs /\ \A k \in DOMAIN f : f[k] \in T
BY DEF PartOf

\* A snapshot of fewer or of newer rows.
LEMMA PartOfUpdate ==
  ASSUME NEW T, NEW f \in PartOf(T), NEW j, NEW x \in T
  PROVE  /\ [f EXCEPT ![j] = x] \in PartOf(T)
         /\ [k \in DOMAIN f \ {j} |-> f[k]] \in PartOf(T)
<1>1. PICK S \in SUBSET Jobs : f \in [S -> T]
  BY DEF PartOf
<1>2. [f EXCEPT ![j] = x] \in [S -> T] /\ [k \in DOMAIN f \ {j} |-> f[k]] \in [S \ {j} -> T]
  BY <1>1
<1> QED BY <1>1, <1>2 DEF PartOf

LEMMA TypeStep == TypeOK /\ [Next]_vars => TypeOK'
<1> SUFFICES ASSUME TypeOK, [Next]_vars PROVE TypeOK'
  OBVIOUS
<1> USE DEF TypeOK
<1>1. ASSUME NEW j \in Jobs, AppendEvent(j) PROVE TypeOK'
  <2>1. row[j].last \in 0..MaxEvents
    BY DEF RowType
  <2>2. PICK state \in {"active", "ended"}, last \in row[j].last + 1..MaxEvents :
          row' = [row EXCEPT ![j] = [state |-> state, last |-> last]]
    BY <1>1 DEF AppendEvent
  <2>3. row' \in [Jobs -> RowType]
    <3>1. last \in 0..MaxEvents
      BY <2>1, StreamsAssumption
    <3> QED BY <2>2, <3>1, RowEndType
  <2> QED BY <1>1, <2>3 DEF AppendEvent
<1>2. ASSUME NEW j \in Jobs, DeleteJob(j) PROVE TypeOK'
  <2>1. row' \in [Jobs -> RowType]
    <3>1. 0 \in 0..MaxEvents
      BY StreamsAssumption
    <3> QED BY <1>2, <3>1, RowEndType DEF DeleteJob
  <2> QED BY <1>2, <2>1 DEF DeleteJob
<1>3. ASSUME NEW s \in Streams, NEW j \in Jobs, NEW after \in 0..MaxEvents, Subscribe(s, j, after)
      PROVE TypeOK'
  <2>1. stream' \in [Streams -> StreamType]
    BY <1>3 DEF Subscribe, StreamType
  <2>2. timer' \in {"none", "now", "later"} /\ requested' \in BOOLEAN
    BY <1>3 DEF Subscribe, WakeUp
  <2> QED BY <1>3, <2>1, <2>2 DEF Subscribe
<1>4. ASSUME NEW s \in Streams, Disconnect(s) PROVE TypeOK'
  <2>1. stream' \in [Streams -> StreamType]
    BY <1>4 DEF Disconnect, StreamType
  <2> QED BY <1>4, <2>1 DEF Disconnect, TimerIfNeeded
<1>5. ASSUME StartPoll PROVE TypeOK'
  <2>1. PICK old \in SUBSET Open :
          /\ stream' = Closed(old, "expired") /\ requested' = FALSE
          /\ Continue({stream[s].job : s \in Open \ old}, Open \ old, Open \ old)
    BY <1>5 DEF StartPoll
  <2>2. stream' \in [Streams -> StreamType]
    BY <2>1, ClosedType
  <2>3. {stream[s].job : s \in Open \ old} \subseteq Jobs
    BY DEF Open, StreamType
  <2>4. poll' \in PollType /\ poll'.pc \in {"idle", "jobs"} /\ timer' \in {"none", "now", "later"}
    BY <2>1, <2>3, ContinueType DEF Open
  <2> QED BY <1>5, <2>1, <2>2, <2>4 DEF StartPoll
<1>6. ASSUME NEW batch, BatchFails(batch) PROVE TypeOK'
  <2>1. UNION {LiveStreams(j) : j \in batch} \subseteq Open
    BY DEF LiveStreams, Open, PollType
  <2>2. stream' \in [Streams -> StreamType]
    BY <1>6, <2>1, ClosedType DEF BatchFails
  <2>3. poll' \in PollType /\ poll'.pc \in {"idle", "jobs"} /\ timer' \in {"none", "now", "later"}
    <3>1. poll.todo \in SUBSET Jobs /\ poll.seen \in SUBSET Streams
      BY DEF PollType
    <3> QED BY <1>6, <3>1, ContinueType DEF BatchFails
  <2> QED BY <1>6, <2>2, <2>3 DEF BatchFails
<1>7. ASSUME ReadJobs PROVE TypeOK'
  <2> DEFINE there == {j \in poll.pending : row[j].state # "deleted"}
             orphans == UNION {LiveStreams(j) : j \in poll.pending \ there}
  <2>1. CASE BatchFails(poll.pending)
    BY <2>1, <1>6
  <2>2. ASSUME stream' = Closed(orphans, "gone"), UNCHANGED <<row, got, requested>>,
               there = {}, Continue(poll.todo, poll.seen, Open \ orphans)
        PROVE TypeOK'
    <3>1. orphans \subseteq Open
      BY DEF LiveStreams, Open, PollType
    <3>2. stream' \in [Streams -> StreamType]
      BY <2>2, <3>1, ClosedType
    <3>3. poll.todo \in SUBSET Jobs /\ poll.seen \in SUBSET Streams
      BY DEF PollType
    <3>4. poll' \in PollType /\ poll'.pc \in {"idle", "jobs"} /\ timer' \in {"none", "now", "later"}
      BY <2>2, <3>3, ContinueType
    <3> QED BY <2>2, <3>2, <3>4
  <2>3. ASSUME stream' = Closed(orphans, "gone"), UNCHANGED <<row, got, requested, timer>>,
               poll' = [poll EXCEPT !.pc = "reconcile", !.pending = there,
                                    !.snap = [j \in there |-> row[j]]]
        PROVE TypeOK'
    <3>1. orphans \subseteq Open
      BY DEF LiveStreams, Open, PollType
    <3>2. stream' \in [Streams -> StreamType]
      BY <2>3, <3>1, ClosedType
    <3>3. there \in SUBSET Jobs
      BY DEF PollType
    <3>4. [j \in there |-> row[j]] \in PartOf(RowType)
      <4>1. [j \in there |-> row[j]] \in [there -> RowType]
        BY <3>3
      <4> QED BY <3>3, <4>1 DEF PartOf
    <3>5. poll' \in PollType /\ poll'.pc = "reconcile"
      BY <2>3, <3>3, <3>4 DEF PollType
    <3> QED BY <2>3, <3>2, <3>5
  <2> QED BY <1>7, <2>1, <2>2, <2>3 DEF ReadJobs
<1>8. ASSUME NEW j \in Jobs, ReconcileJob(j) PROVE TypeOK'
  <2>1. LiveStreams(j) \subseteq Open
    BY DEF LiveStreams, Open, PollType
  <2>2. poll.snap \in PartOf(RowType) /\ Reconciled(j) \in PollType /\ Reconciled(j).snap = poll.snap
    BY DEF Reconciled, PollType
  <2>9. poll.pc = "reconcile" /\ Reconciled(j).pc \in {"reconcile", "events"}
    BY <1>8 DEF ReconcileJob, Reconciled, PollType
  <2>3. CASE poll' = Reconciled(j) /\ UNCHANGED <<row, stream, timer, got, requested>>
    BY <2>2, <2>3, <2>9
  <2>4. CASE poll' = [Reconciled(j) EXCEPT !.snap[j] = row[j]] /\ UNCHANGED <<row, stream, timer, got, requested>>
    <3>1. [poll.snap EXCEPT ![j] = row[j]] \in PartOf(RowType)
      BY <2>2, PartOfUpdate
    <3>2. poll' \in PollType /\ poll'.pc \in {"reconcile", "events"}
      BY <2>2, <2>9, <2>4, <3>1 DEF PollType
    <3> QED BY <2>4, <3>2
  <2>5. ASSUME row[j].last < MaxEvents,
               row' = [row EXCEPT ![j] = [state |-> "ended", last |-> row[j].last + 1]],
               poll' = [Reconciled(j) EXCEPT !.snap[j] = row'[j]],
               UNCHANGED <<stream, timer, got, requested>>
        PROVE TypeOK'
    <3>1. row[j].last + 1 \in 0..MaxEvents
      BY <2>5, StreamsAssumption DEF RowType
    <3>2. row' \in [Jobs -> RowType]
      BY <2>5, <3>1, RowEndType
    <3>3. [poll.snap EXCEPT ![j] = row'[j]] \in PartOf(RowType)
      BY <2>2, <3>2, PartOfUpdate
    <3>4. poll' \in PollType /\ poll'.pc \in {"reconcile", "events"}
      BY <2>2, <2>9, <2>5, <3>3 DEF PollType
    <3> QED BY <2>5, <3>2, <3>4
  <2>6. ASSUME poll' = [Reconciled(j) EXCEPT !.snap = [k \in DOMAIN @ \ {j} |-> @[k]]],
               stream' = Closed(LiveStreams(j), "error"), TimerIfNeeded(Open \ LiveStreams(j)),
               UNCHANGED <<row, got, requested>>
        PROVE TypeOK'
    <3>1. [k \in DOMAIN poll.snap \ {j} |-> poll.snap[k]] \in PartOf(RowType)
      <4>1. \A x \in RowType : [k \in DOMAIN poll.snap \ {j} |-> poll.snap[k]] \in PartOf(RowType)
        BY <2>2, PartOfUpdate
      <4> QED BY <4>1
    <3>2. poll' \in PollType /\ poll'.pc \in {"reconcile", "events"}
      BY <2>2, <2>9, <2>6, <3>1 DEF PollType
    <3>3. stream' \in [Streams -> StreamType]
      BY <2>1, <2>6, ClosedType
    <3> QED BY <2>6, <3>2, <3>3 DEF TimerIfNeeded
  <2> QED BY <1>8, <2>3, <2>4, <2>5, <2>6 DEF ReconcileJob
<1>9. ASSUME ReadEvents PROVE TypeOK'
  <2>1. CASE BatchFails(DOMAIN poll.snap)
    BY <2>1, <1>6
  <2>2. CASE /\ poll' = [poll EXCEPT !.pc = "deliver", !.last = [j \in DOMAIN poll.snap |-> row[j].last]]
             /\ UNCHANGED <<row, stream, got, timer, requested>>
    <3>1. DOMAIN poll.snap \subseteq Jobs
      <4>1. poll.snap \in PartOf(RowType)
        BY DEF PollType
      <4> QED BY <4>1, PartOfValues
    <3>2. [j \in DOMAIN poll.snap |-> row[j].last] \in PartOf(0..MaxEvents)
      BY <3>1 DEF PartOf, RowType
    <3>3. poll' \in PollType /\ DOMAIN poll'.last = DOMAIN poll'.snap
      BY <2>2, <3>2 DEF PollType
    <3> QED BY <2>2, <3>3
  <2> QED BY <1>9, <2>1, <2>2 DEF ReadEvents
<1>10. ASSUME DeliverEvents PROVE TypeOK'
  <2> DEFINE live == UNION {LiveStreams(j) : j \in DOMAIN poll.snap}
             ended == {s \in live : Ended(s)}
  <2>1. poll.pc = "deliver"
    BY <1>10 DEF DeliverEvents
  <2>2. ASSUME NEW s \in live
        PROVE  s \in Open /\ stream[s].job \in DOMAIN poll.snap /\ Moved(s) \in 0..MaxEvents
    <3>1. s \in Open /\ stream[s].job \in DOMAIN poll.snap
      BY DEF LiveStreams, Open, PollType
    <3>2. poll.last[stream[s].job] \in 0..MaxEvents
      <4>1. poll.last \in PartOf(0..MaxEvents)
        BY DEF PollType
      <4>2. \A j \in DOMAIN poll.last : poll.last[j] \in 0..MaxEvents
        BY <4>1 DEF PartOf
      <4> QED BY <2>1, <3>1, <4>2
    <3>3. stream[s].cursor \in 0..MaxEvents
      BY <3>1 DEF Open, StreamType
    <3> QED BY <3>1, <3>2, <3>3 DEF Moved, LargerOf
  <2>3. stream' = [s \in Streams |->
                     IF s \notin live THEN stream[s]
                     ELSE [stream[s] EXCEPT !.cursor = Moved(s),
                                            !.state = IF s \in ended THEN "complete" ELSE @]]
    BY <1>10 DEF DeliverEvents
  <2>4. stream' \in [Streams -> StreamType]
    <3>1. ASSUME NEW s \in live
          PROVE  [stream[s] EXCEPT !.cursor = Moved(s),
                                   !.state = IF s \in ended THEN "complete" ELSE @] \in StreamType
      <4>1. s \in Streams /\ stream[s].state = "open" /\ Moved(s) \in 0..MaxEvents
        BY <2>2 DEF Open
      <4> HIDE DEF live, ended
      <4> QED BY <4>1 DEF StreamType
    <3> HIDE DEF live
    <3> QED BY <2>3, <3>1
  <2>5. poll.todo \in SUBSET Jobs /\ poll.seen \in SUBSET Streams
    BY DEF PollType
  <2>6. poll' \in PollType /\ poll'.pc \in {"idle", "jobs"} /\ timer' \in {"none", "now", "later"}
    BY <1>10, <2>5, ContinueType DEF DeliverEvents
  <2> QED BY <1>10, <2>4, <2>6 DEF DeliverEvents
<1>11. CASE UNCHANGED vars
  BY <1>11 DEF vars
<1> QED BY <1>1, <1>2, <1>3, <1>4, <1>5, <1>7, <1>8, <1>9, <1>10, <1>11 DEF Next, PollStep

\* Whatever is stored of jobs, streams and polls has the shape the code gives
\* it; a subscription that was accepted names a job, and a poll delivers only
\* events it has read.
THEOREM TypeCorrect == Spec => []TypeOK
BY TypeInit, TypeStep, PTL DEF Spec
-----------------------------------------------------------------------------
(* One wake-up: a poll or a timer, never both, while a stream is open.     *)

\* The end of a poll sets the timer that the streams left open need.
LEMMA ContinueWakes ==
  ASSUME NEW todo, NEW seen, NEW open, Continue(todo, seen, open)
  PROVE  /\ poll'.pc = "idle" => (timer' = "none" <=> open = {})
         /\ poll'.pc # "idle" => timer' = "none"
<1>1. CASE todo = {}
  <2>1. poll'.pc = "idle"
    BY <1>1 DEF Continue, NoPoll
  <2>2. timer' = IF open = {} THEN "none" ELSE IF requested' THEN "now" ELSE "later"
    BY <1>1 DEF Continue
  <2> QED BY <2>1, <2>2
<1>2. CASE todo # {}
  <2>1. poll'.pc = "jobs" /\ timer' = "none"
    BY <1>2 DEF Continue, NoPoll
  <2> QED BY <2>1
<1> QED BY <1>1, <1>2

\* After the streams of a set have closed, the others are open.
LEMMA OpenAfterClosed ==
  ASSUME stream \in [Streams -> StreamType], NEW closing \in SUBSET Streams, NEW state,
         state # "open", stream' = Closed(closing, state)
  PROVE  Open' = Open \ closing
<1>1. \A s \in Streams : stream'[s] = IF s \in closing THEN [stream[s] EXCEPT !.state = state]
                                                       ELSE stream[s]
  BY DEF Closed
<1>2. \A s \in closing : stream'[s].state = state
  BY <1>1 DEF StreamType
<1> QED BY <1>1, <1>2 DEF Open

LEMMA LiveIsOpen ==
  ASSUME TypeOK, NEW j
  PROVE  LiveStreams(j) \subseteq Open
BY DEF LiveStreams, Open, TypeOK, PollType

LEMMA WakeUpStep == TypeOK /\ TypeOK' /\ OneWakeUp /\ [Next]_vars => OneWakeUp'
<1> SUFFICES ASSUME TypeOK, TypeOK', OneWakeUp, [Next]_vars PROVE OneWakeUp'
  OBVIOUS
<1>s. stream \in [Streams -> StreamType]
  BY DEF TypeOK
<1>0. ASSUME NEW todo, NEW seen, NEW open, Continue(todo, seen, open), Open' = open
      PROVE  OneWakeUp'
  BY <1>0, ContinueWakes DEF OneWakeUp, Polling
<1>1. ASSUME UNCHANGED <<stream, timer, poll>> PROVE OneWakeUp'
  BY <1>1 DEF OneWakeUp, Open, Polling
<1>3. ASSUME NEW s \in Streams, NEW j \in Jobs, NEW after \in 0..MaxEvents, Subscribe(s, j, after)
      PROVE OneWakeUp'
  <2>1. CASE Cardinality(Open) >= StreamLimit
    <3>1. stream' = [stream EXCEPT ![s].state = "error"] /\ UNCHANGED <<timer, poll>>
      BY <1>3, <2>1 DEF Subscribe
    <3>2. stream[s].state = "new"
      BY <1>3 DEF Subscribe
    <3>3. Open' = Open
      BY <1>s, <3>1, <3>2 DEF Open, StreamType
    <3> QED BY <3>1, <3>3 DEF OneWakeUp, Polling
  <2>2. CASE ~(Cardinality(Open) >= StreamLimit)
    <3>1. s \in Open' /\ WakeUp /\ poll' = poll
      BY <1>3, <2>2, <1>s DEF Subscribe, Open
    <3>2. Polling => timer = "none"
      BY DEF OneWakeUp
    <3> QED BY <3>1, <3>2 DEF WakeUp, OneWakeUp, Polling
  <2> QED BY <2>1, <2>2
<1>4. ASSUME NEW s \in Streams, Disconnect(s) PROVE OneWakeUp'
  <2>1. Open' = Open \ {s}
    BY <1>4, <1>s DEF Disconnect, Open, StreamType
  <2>2. s \in Open
    BY <1>4 DEF Disconnect, Open
  <2> QED BY <1>4, <2>1, <2>2 DEF Disconnect, TimerIfNeeded, OneWakeUp, Polling
<1>5. ASSUME StartPoll PROVE OneWakeUp'
  <2>1. PICK old \in SUBSET Open :
          /\ stream' = Closed(old, "expired")
          /\ Continue({stream[s].job : s \in Open \ old}, Open \ old, Open \ old)
    BY <1>5 DEF StartPoll
  <2>2. Open' = Open \ old
    BY <2>1, <1>s, OpenAfterClosed DEF Open
  <2> QED BY <2>1, <2>2, <1>0
<1>6. ASSUME NEW batch, BatchFails(batch) PROVE OneWakeUp'
  <2> DEFINE failing == UNION {LiveStreams(j) : j \in batch}
  <2>1. failing \subseteq Streams
    BY LiveIsOpen DEF Open
  <2>2. Open' = Open \ failing
    BY <2>1, <1>6, <1>s, OpenAfterClosed DEF BatchFails
  <2> QED BY <2>2, <1>6, <1>0 DEF BatchFails
<1>7. ASSUME ReadJobs PROVE OneWakeUp'
  <2> DEFINE there == {j \in poll.pending : row[j].state # "deleted"}
             orphans == UNION {LiveStreams(j) : j \in poll.pending \ there}
  <2>1. CASE BatchFails(poll.pending)
    BY <2>1, <1>6
  <2>2. ASSUME stream' = Closed(orphans, "gone") PROVE Open' = Open \ orphans
    <3>1. orphans \subseteq Streams
      BY LiveIsOpen DEF Open
    <3> QED BY <2>2, <3>1, <1>s, OpenAfterClosed
  <2>3. CASE stream' = Closed(orphans, "gone") /\ Continue(poll.todo, poll.seen, Open \ orphans)
    BY <2>2, <2>3, <1>0
  <2>4. CASE /\ stream' = Closed(orphans, "gone") /\ UNCHANGED timer
             /\ poll' = [poll EXCEPT !.pc = "reconcile", !.pending = there,
                                     !.snap = [j \in there |-> row[j]]]
    <3>1. Open' \subseteq Open
      BY <2>2, <2>4
    <3>2. Polling
      BY <1>7 DEF ReadJobs, Polling
    <3>3. Polling'
      BY <2>4 DEF Polling, TypeOK, PollType
    <3> QED BY <2>4, <3>1, <3>2, <3>3 DEF OneWakeUp
  <2> QED BY <1>7, <2>1, <2>3, <2>4 DEF ReadJobs
<1>8. ASSUME NEW j \in Jobs, ReconcileJob(j) PROVE OneWakeUp'
  <2>1. Polling /\ poll'.pc \in {"reconcile", "events"}
    BY <1>8 DEF ReconcileJob, Reconciled, Polling, TypeOK, PollType
  <2>2. CASE UNCHANGED <<stream, timer>>
    BY <2>1, <2>2 DEF OneWakeUp, Open, Polling
  <2>3. CASE stream' = Closed(LiveStreams(j), "error") /\ TimerIfNeeded(Open \ LiveStreams(j))
    <3>1. LiveStreams(j) \subseteq Streams
      BY LiveIsOpen DEF Open
    <3>2. Open' = Open \ LiveStreams(j)
      BY <3>1, <2>3, <1>s, OpenAfterClosed
    <3> QED BY <2>1, <2>3, <3>2 DEF OneWakeUp, TimerIfNeeded, Polling
  <2> QED BY <1>8, <2>2, <2>3 DEF ReconcileJob
<1>9. ASSUME ReadEvents PROVE OneWakeUp'
  <2>1. CASE BatchFails(DOMAIN poll.snap)
    BY <2>1, <1>6
  <2>2. CASE poll'.pc = "deliver" /\ UNCHANGED <<stream, timer>>
    BY <1>9, <2>2 DEF ReadEvents, OneWakeUp, Open, Polling
  <2> QED BY <1>9, <2>1, <2>2 DEF ReadEvents, TypeOK, PollType
<1>10. ASSUME DeliverEvents PROVE OneWakeUp'
  <2> DEFINE live == UNION {LiveStreams(j) : j \in DOMAIN poll.snap}
             ended == {s \in live : Ended(s)}
  <2>1. /\ stream' = [s \in Streams |->
                       IF s \notin live THEN stream[s]
                       ELSE [stream[s] EXCEPT !.cursor = Moved(s),
                                              !.state = IF s \in ended THEN "complete" ELSE @]]
        /\ Continue(poll.todo, poll.seen, Open \ ended)
    BY <1>10 DEF DeliverEvents
  <2>2. live \subseteq Open
    BY LiveIsOpen
  <2>3. \A s \in live : stream'[s].state = IF s \in ended THEN "complete" ELSE "open"
    <3> HIDE DEF live, ended
    <3> QED BY <2>1, <2>2, <1>s DEF Open, StreamType
  <2>4. Open' = Open \ ended
    <3>1. \A s \in Streams \ live : stream'[s] = stream[s]
      BY <2>1
    <3>2. ended \subseteq live
      OBVIOUS
    <3> HIDE DEF live, ended
    <3> QED BY <2>2, <2>3, <3>1, <3>2 DEF Open
  <2> QED BY <2>1, <2>4, <1>0
<1>11. CASE UNCHANGED vars
  BY <1>11, <1>1 DEF vars
<1>12. ASSUME NEW j \in Jobs, AppendEvent(j) \/ DeleteJob(j) PROVE OneWakeUp'
  BY <1>12, <1>1 DEF AppendEvent, DeleteJob
<1> QED BY <1>3, <1>4, <1>5, <1>7, <1>8, <1>9, <1>10, <1>11, <1>12 DEF Next, PollStep

\* While a stream is open exactly one of poll and timer will look at it again,
\* whatever awaits clients come and go at; without streams no timer is left.
THEOREM StreamsAreWoken == Spec => []OneWakeUp
<1>1. Init => OneWakeUp
  BY DEF Init, OneWakeUp, Open, Polling, NewStream, NoPoll
<1> QED BY <1>1, TypeCorrect, WakeUpStep, PTL DEF Spec
-----------------------------------------------------------------------------
(* What the clients receive.                                               *)

\* One query serves the streams of a job from the lowest of their cursors on.
LEMMA LowestIsLowest ==
  ASSUME TypeOK, NEW s \in Streams, s \in LiveStreams(stream[s].job)
  PROVE  Lowest(stream[s].job) \in Nat /\ Lowest(stream[s].job) <= stream[s].cursor
<1> DEFINE of == LiveStreams(stream[s].job)
           cursors == {stream[t].cursor : t \in of}
<1>1. \A t \in of : t \in Streams /\ stream[t].cursor \in Nat
  BY StreamsAssumption DEF TypeOK, LiveStreams, StreamType, PollType
<1>2. cursors \in SUBSET Nat /\ cursors # {} /\ stream[s].cursor \in cursors
  BY <1>1
<1>3. PICK c \in cursors : \A d \in cursors : c <= d
  BY <1>2, LeastExists
<1>4. c \in cursors /\ \A t \in of : c <= stream[t].cursor
  BY <1>3
<1>5. /\ Lowest(stream[s].job) \in cursors
      /\ \A t \in of : Lowest(stream[s].job) <= stream[t].cursor
  BY <1>4 DEF Lowest
<1> QED BY <1>2, <1>5

Delivered == \A s \in Streams : /\ stream[s].after <= stream[s].cursor
                                /\ got[s] = EventsAfter(stream[s].after, stream[s].cursor)

LEMMA DeliveredStep == TypeOK /\ Delivered /\ [Next]_vars => Delivered'
<1> SUFFICES ASSUME TypeOK, Delivered, [Next]_vars PROVE Delivered'
  OBVIOUS
<1>s. stream \in [Streams -> StreamType]
  BY DEF TypeOK
<1>0. ASSUME NEW closing \in SUBSET Streams, NEW state, stream' = Closed(closing, state), UNCHANGED got
      PROVE  Delivered'
  <2>1. ASSUME NEW s \in Streams
        PROVE  stream'[s].after = stream[s].after /\ stream'[s].cursor = stream[s].cursor
    BY <1>0, <1>s DEF Closed, StreamType
  <2> QED BY <1>0, <2>1 DEF Delivered
<1>1. ASSUME UNCHANGED <<stream, got>> PROVE Delivered'
  BY <1>1 DEF Delivered
<1>l. \A j : LiveStreams(j) \subseteq Streams
  BY LiveIsOpen DEF Open
<1>3. ASSUME NEW s \in Streams, NEW j \in Jobs, NEW after \in 0..MaxEvents, Subscribe(s, j, after)
      PROVE Delivered'
  <2>1. stream[s].after = 0 /\ stream[s].cursor = 0
    BY <1>3, <1>s DEF Subscribe, StreamType
  <2>2. got' = got /\ got[s] = <<>>
    BY <1>3, <2>1, NoEvents DEF Subscribe, Delivered
  <2>3. EventsAfter(after, after) = <<>>
    BY NoEvents
  <2>4. \A t \in Streams \ {s} : stream'[t] = stream[t]
    BY <1>3, <1>s DEF Subscribe
  <2>5. stream'[s].after = stream'[s].cursor /\ stream'[s].after \in {0, after}
    BY <1>3, <1>s, <2>1 DEF Subscribe, StreamType
  <2>6. stream'[s].after <= stream'[s].cursor
        /\ got'[s] = EventsAfter(stream'[s].after, stream'[s].cursor)
    BY <2>2, <2>3, <2>5, NoEvents
  <2> QED BY <2>2, <2>4, <2>6 DEF Delivered
<1>4. ASSUME NEW s \in Streams, Disconnect(s) PROVE Delivered'
  <2>1. stream' = [stream EXCEPT ![s].state = "left"] /\ got' = got
    BY <1>4 DEF Disconnect
  <2>2. ASSUME NEW t \in Streams
        PROVE  stream'[t].after = stream[t].after /\ stream'[t].cursor = stream[t].cursor
    BY <1>s, <2>1 DEF StreamType
  <2> QED BY <2>1, <2>2 DEF Delivered
<1>5. ASSUME StartPoll PROVE Delivered'
  BY <1>5, <1>0 DEF StartPoll, Open
<1>6. ASSUME NEW batch, BatchFails(batch) PROVE Delivered'
  <2> DEFINE failing == UNION {LiveStreams(j) : j \in batch}
  <2>1. failing \in SUBSET Streams
    BY <1>l
  <2>2. stream' = Closed(failing, "error") /\ UNCHANGED got
    BY <1>6 DEF BatchFails
  <2> QED BY <2>1, <2>2, <1>0
<1>7. ASSUME ReadJobs PROVE Delivered'
  <2> DEFINE there == {j \in poll.pending : row[j].state # "deleted"}
             orphans == UNION {LiveStreams(j) : j \in poll.pending \ there}
  <2>1. CASE BatchFails(poll.pending)
    BY <2>1, <1>6
  <2>2. CASE stream' = Closed(orphans, "gone") /\ UNCHANGED got
    <3>1. orphans \in SUBSET Streams
      BY <1>l
    <3> QED BY <2>2, <3>1, <1>0
  <2> QED BY <1>7, <2>1, <2>2 DEF ReadJobs
<1>8. ASSUME NEW j \in Jobs, ReconcileJob(j) PROVE Delivered'
  BY <1>8, <1>0, <1>1, <1>l DEF ReconcileJob
<1>9. ASSUME ReadEvents PROVE Delivered'
  BY <1>9, <1>1, <1>6 DEF ReadEvents
<1>10. ASSUME DeliverEvents PROVE Delivered'
  <2> DEFINE live == UNION {LiveStreams(j) : j \in DOMAIN poll.snap}
             ended == {s \in live : Ended(s)}
  <2>1. /\ got' = [s \in Streams |-> IF s \in live
                                     THEN got[s] \o EventsFor(s, Lowest(stream[s].job))
                                     ELSE got[s]]
        /\ stream' = [s \in Streams |->
                        IF s \notin live THEN stream[s]
                        ELSE [stream[s] EXCEPT !.cursor = Moved(s),
                                               !.state = IF s \in ended THEN "complete" ELSE @]]
    BY <1>10 DEF DeliverEvents
  <2>2. ASSUME NEW s \in live
        PROVE  /\ stream'[s].after = stream[s].after /\ stream'[s].cursor = Moved(s)
               /\ stream[s].after <= Moved(s)
               /\ got'[s] = EventsAfter(stream[s].after, Moved(s))
    <3> DEFINE after == stream[s].after
               cursor == stream[s].cursor
               last == poll.last[stream[s].job]
    <3>1. s \in Streams /\ s \in LiveStreams(stream[s].job) /\ stream[s].job \in DOMAIN poll.snap
      BY <1>l DEF LiveStreams
    <3>2. after \in Nat /\ cursor \in Nat /\ after <= cursor
      BY <1>s, <3>1, StreamsAssumption DEF StreamType, Delivered
    <3>3. last \in Nat
      <4>1. poll.last \in PartOf(0..MaxEvents) /\ poll.pc = "deliver"
        BY <1>10 DEF DeliverEvents, TypeOK, PollType
      <4>2. last \in 0..MaxEvents
        <5>1. stream[s].job \in DOMAIN poll.last
          BY <3>1, <4>1 DEF TypeOK
        <5> QED BY <4>1, <5>1, PartOfValues
      <4> QED BY <4>2, StreamsAssumption
    <3>4. EventsFor(s, Lowest(stream[s].job)) = EventsAfter(cursor, last)
      <4>1. LargerOf(Lowest(stream[s].job), cursor) = cursor
        BY <3>1, <3>2, LowestIsLowest DEF LargerOf
      <4> QED BY <4>1 DEF EventsFor
    <3>5. got'[s] = EventsAfter(after, cursor) \o EventsAfter(cursor, last)
      <4> HIDE DEF live
      <4> QED BY <2>1, <3>1, <3>4 DEF Delivered
    <3>6. stream'[s].after = after /\ stream'[s].cursor = Moved(s)
      <4> HIDE DEF live, ended
      <4> QED BY <2>1, <3>1, <1>s DEF StreamType
    <3>7. CASE cursor <= last
      <4>1. Moved(s) = last
        BY <3>2, <3>3, <3>7 DEF Moved, LargerOf
      <4>2. EventsAfter(after, cursor) \o EventsAfter(cursor, last) = EventsAfter(after, last)
        <5> HIDE DEF live, ended, last, cursor, after
        <5> QED BY <3>2, <3>3, <3>7, EventsJoin
      <4>3. after <= last
        BY <3>2, <3>3, <3>7
      <4> HIDE DEF live, ended, last
      <4> QED BY <3>5, <3>6, <4>1, <4>2, <4>3
    <3>8. CASE last < cursor
      <4>1. Moved(s) = cursor
        BY <3>2, <3>3, <3>8 DEF Moved, LargerOf
      <4>2. EventsAfter(cursor, last) = EventsAfter(cursor, cursor)
        BY <3>2, <3>3, <3>8, NoEvents
      <4>3. EventsAfter(after, cursor) \o EventsAfter(cursor, cursor) = EventsAfter(after, cursor)
        <5>1. cursor <= cursor
          BY <3>2
        <5> HIDE DEF live, ended, last, cursor, after
        <5> QED BY <3>2, <5>1, EventsJoin
      <4> QED BY <3>2, <3>5, <3>6, <4>1, <4>2, <4>3
    <3> QED BY <3>2, <3>3, <3>7, <3>8
  <2>3. ASSUME NEW s \in Streams, s \notin live PROVE got'[s] = got[s] /\ stream'[s] = stream[s]
    BY <2>1, <2>3
  <2> HIDE DEF live, ended
  <2> QED BY <2>2, <2>3 DEF Delivered
<1>11. CASE UNCHANGED vars
  BY <1>11, <1>1 DEF vars
<1>12. ASSUME NEW j \in Jobs, AppendEvent(j) \/ DeleteJob(j) PROVE Delivered'
  BY <1>12, <1>1 DEF AppendEvent, DeleteJob
<1> QED BY <1>3, <1>4, <1>5, <1>7, <1>8, <1>9, <1>10, <1>11, <1>12 DEF Next, PollStep

\* Every client receives each event of its job once and in order, from the
\* one it asked for on, whoever shares the query and whatever fails.
THEOREM EventsArriveInOrder == Spec => []DeliveredInOrder
<1>1. Init => Delivered
  BY NoEvents DEF Init, Delivered, NewStream
<1>2. Delivered => DeliveredInOrder
  BY DEF Delivered, DeliveredInOrder
<1> QED BY <1>1, <1>2, TypeCorrect, DeliveredStep, PTL DEF Spec

-----------------------------------------------------------------------------
(* The end of a stream.                                                    *)

\* What a poll knows of a job that has ended stays so until it is deleted,
\* and a stream that is complete stays behind neither.
Finished(j, last) == row[j].state = "deleted" \/ (row[j].state = "ended" /\ row[j].last = last)

SnapshotHolds == \A j \in DOMAIN poll.snap :
                   poll.snap[j].state = "ended" => Finished(j, poll.snap[j].last)

\* A row that has ended only changes by being deleted.
LEMMA EndedRowStays ==
  ASSUME TypeOK, [Next]_vars, NEW j \in Jobs, NEW last, Finished(j, last)
  PROVE  Finished(j, last)' /\ (row[j].state = "deleted" => row'[j].state = "deleted")
<1> DEFINE Stays == Finished(j, last)' /\ (row[j].state = "deleted" => row'[j].state = "deleted")
<1> USE DEF Finished
<1>1. ASSUME NEW k \in Jobs, AppendEvent(k) PROVE Stays
  BY <1>1 DEF AppendEvent, TypeOK
<1>2. ASSUME NEW k \in Jobs, DeleteJob(k) PROVE Stays
  BY <1>2 DEF DeleteJob, TypeOK
<1>3. ASSUME NEW k \in Jobs, ReconcileJob(k) PROVE Stays
  <2>1. \/ UNCHANGED row
        \/ /\ poll.snap[k].state = "active" /\ row[k] = poll.snap[k]
           /\ row' = [row EXCEPT ![k] = [state |-> "ended", last |-> row[k].last + 1]]
    BY <1>3 DEF ReconcileJob
  <2> QED BY <2>1 DEF TypeOK
<1>4. CASE UNCHANGED row
  BY <1>4
<1> QED BY <1>1, <1>2, <1>3, <1>4 DEF Next, PollStep, Subscribe, Disconnect, StartPoll, ReadJobs,
      BatchFails, ReadEvents, DeliverEvents, vars
LEMMA ContinueForgets ==
  ASSUME NEW todo, NEW seen, NEW open, Continue(todo, seen, open)
  PROVE  DOMAIN poll'.snap = {}
<1>1. poll' = NoPoll \/ \E batch : poll' = [NoPoll EXCEPT !.pc = "jobs", !.todo = todo \ batch,
                                                         !.seen = seen, !.pending = batch]
  BY DEF Continue
<1>2. poll'.snap = NoPoll.snap
  BY <1>1 DEF NoPoll
<1> QED BY <1>2 DEF NoPoll

LEMMA SnapshotStep == TypeOK /\ SnapshotHolds /\ [Next]_vars => SnapshotHolds'
<1> SUFFICES ASSUME TypeOK, SnapshotHolds, [Next]_vars PROVE SnapshotHolds'
  OBVIOUS
<1>s. DOMAIN poll.snap \subseteq Jobs
  <2>1. poll.snap \in PartOf(RowType)
    BY DEF TypeOK, PollType
  <2> QED BY <2>1, PartOfValues
<1>0. ASSUME UNCHANGED poll PROVE SnapshotHolds'
  <2> SUFFICES ASSUME NEW j \in DOMAIN poll.snap, poll.snap[j].state = "ended"
               PROVE  Finished(j, poll.snap[j].last)'
    BY <1>0 DEF SnapshotHolds
  <2>1. Finished(j, poll.snap[j].last)
    BY DEF SnapshotHolds
  <2>2. \A last : Finished(j, last) => Finished(j, last)'
    BY <1>s, EndedRowStays
  <2> QED BY <1>0, <2>1, <2>2 DEF Finished
<1>1. ASSUME NEW todo, NEW seen, NEW open, Continue(todo, seen, open) PROVE SnapshotHolds'
  BY <1>1, ContinueForgets DEF SnapshotHolds
<1>2. ASSUME NEW batch, BatchFails(batch) PROVE SnapshotHolds'
  BY <1>1, <1>2 DEF BatchFails
<1>3. CASE ReadJobs
  <2> DEFINE there == {j \in poll.pending : row[j].state # "deleted"}
  <2>1. CASE /\ poll' = [poll EXCEPT !.pc = "reconcile", !.pending = there,
                                     !.snap = [j \in there |-> row[j]]]
             /\ UNCHANGED row
    <3>1. poll'.snap = [j \in there |-> row[j]]
      BY <2>1 DEF TypeOK, PollType
    <3> QED BY <2>1, <3>1 DEF SnapshotHolds, Finished
  <2> QED BY <1>1, <1>2, <1>3, <2>1 DEF ReadJobs
<1>4. ASSUME NEW j \in Jobs, ReconcileJob(j) PROVE SnapshotHolds'
  <2>1. Reconciled(j).snap = poll.snap
    BY DEF Reconciled, TypeOK, PollType
  <2>2. ASSUME NEW S, NEW T,
               \/ poll' = [Reconciled(j) EXCEPT !.snap = S]
               \/ poll' = Reconciled(j) /\ S = poll.snap
        PROVE  poll'.snap = S
    BY <2>1, <2>2 DEF Reconciled, TypeOK, PollType
  <2>3. ASSUME NEW k \in DOMAIN poll.snap, poll.snap[k].state = "ended"
        PROVE  Finished(k, poll.snap[k].last) /\ (row'[k] = row[k] \/ row'[k].state = "deleted")
    <3>1. Finished(k, poll.snap[k].last)
      BY <2>3 DEF SnapshotHolds
    <3>2. row' # row => row' = [row EXCEPT ![j] = [state |-> "ended", last |-> row[j].last + 1]]
                        /\ row[j].state = "active"
      BY <1>4 DEF ReconcileJob
    <3>3. k \in Jobs
      BY <1>s
    <3> QED BY <3>1, <3>2, <3>3 DEF Finished, TypeOK
  <2>4. CASE poll'.snap = poll.snap
    BY <2>3, <2>4 DEF SnapshotHolds, Finished
  <2>5. CASE poll'.snap = [poll.snap EXCEPT ![j] = row'[j]] /\ row'[j].state # "deleted"
    BY <2>3, <2>5 DEF SnapshotHolds, Finished
  <2>6. CASE poll'.snap = [k \in DOMAIN poll.snap \ {j} |-> poll.snap[k]]
    BY <2>3, <2>6 DEF SnapshotHolds, Finished
  <2>7. \/ poll' = Reconciled(j)
        \/ /\ poll' = [Reconciled(j) EXCEPT !.snap = [poll.snap EXCEPT ![j] = row'[j]]]
           /\ row'[j].state # "deleted"
        \/ poll' = [Reconciled(j) EXCEPT !.snap = [k \in DOMAIN poll.snap \ {j} |-> poll.snap[k]]]
    BY <1>4, <2>1 DEF ReconcileJob, TypeOK
  <2> QED BY <2>2, <2>4, <2>5, <2>6, <2>7
<1>5. CASE ReadEvents
  <2>1. CASE /\ poll' = [poll EXCEPT !.pc = "deliver", !.last = [j \in DOMAIN poll.snap |-> row[j].last]]
             /\ UNCHANGED row
    <3>1. poll'.snap = poll.snap
      BY <2>1 DEF TypeOK, PollType
    <3> QED BY <2>1, <3>1 DEF SnapshotHolds, Finished
  <2> QED BY <1>5, <2>1, <1>2 DEF ReadEvents
<1> QED BY <1>0, <1>1, <1>3, <1>4, <1>5 DEF Next, PollStep, AppendEvent, DeleteJob, Subscribe, Disconnect,
      StartPoll, DeliverEvents, vars

\* A stream is complete because it was, or because this poll has sent it the
\* last event of a job it had seen ended.
LEMMA CompletedBy ==
  ASSUME TypeOK, [Next]_vars, NEW s \in Streams, stream'[s].state = "complete"
  PROVE  \/ stream'[s] = stream[s]
         \/ /\ stream'[s].job = stream[s].job /\ stream[s].job \in DOMAIN poll.snap
            /\ poll.snap[stream[s].job].state = "ended"
            /\ stream'[s].cursor >= poll.snap[stream[s].job].last
<1>s. stream \in [Streams -> StreamType]
  BY DEF TypeOK
<1>0. ASSUME NEW closing, NEW state, state # "complete", stream' = Closed(closing, state)
      PROVE  stream'[s] = stream[s]
  BY <1>0, <1>s DEF Closed, StreamType
<1>1. ASSUME NEW t \in Streams, NEW j \in Jobs, NEW after \in 0..MaxEvents, Subscribe(t, j, after)
      PROVE  stream'[s] = stream[s]
  BY <1>1, <1>s DEF Subscribe, StreamType
<1>2. ASSUME NEW t \in Streams, Disconnect(t) PROVE stream'[s] = stream[s]
  BY <1>2, <1>s DEF Disconnect, StreamType
<1>3. ASSUME StartPoll \/ ReadJobs \/ ReadEvents \/ \E j \in Jobs : ReconcileJob(j)
      PROVE  stream'[s] = stream[s]
  BY <1>3, <1>0 DEF StartPoll, ReadJobs, ReadEvents, ReconcileJob, BatchFails
<1>4. ASSUME UNCHANGED stream PROVE stream'[s] = stream[s]
  BY <1>4
<1>5. CASE DeliverEvents
  <2> DEFINE live == UNION {LiveStreams(j) : j \in DOMAIN poll.snap}
             ended == {t \in live : Ended(t)}
  <2>1. stream' = [t \in Streams |->
                     IF t \notin live THEN stream[t]
                     ELSE [stream[t] EXCEPT !.cursor = Moved(t),
                                            !.state = IF t \in ended THEN "complete" ELSE @]]
    BY <1>5 DEF DeliverEvents
  <2>2. CASE s \in live
    <3>1. stream[s].job \in DOMAIN poll.snap /\ stream[s].state = "open"
      BY <2>2 DEF LiveStreams
    <3>2. /\ stream'[s].job = stream[s].job /\ stream'[s].cursor = Moved(s)
          /\ stream'[s].state = IF s \in ended THEN "complete" ELSE "open"
      <4> HIDE DEF live, ended
      <4> QED BY <2>1, <2>2, <3>1, <1>s DEF StreamType
    <3>3. Ended(s)
      BY <3>2
    <3> QED BY <3>1, <3>2, <3>3 DEF Ended
  <2> QED BY <2>1, <2>2
<1> QED BY <1>1, <1>2, <1>3, <1>4, <1>5 DEF Next, PollStep, AppendEvent, DeleteJob, vars

LEMMA CompleteStep == TypeOK /\ SnapshotHolds /\ CompleteMeansAll /\ [Next]_vars => CompleteMeansAll'
<1> SUFFICES ASSUME TypeOK, SnapshotHolds, CompleteMeansAll, [Next]_vars,
                    NEW s \in Streams, stream'[s].state = "complete"
             PROVE  LET r == row'[stream'[s].job]
                    IN r.state = "deleted" \/ (r.state = "ended" /\ stream'[s].cursor >= r.last)
  BY DEF CompleteMeansAll
<1>j. PICK j : j = stream[s].job
  OBVIOUS
<1>1. CASE stream'[s] = stream[s]
  <2>1. j \in Jobs
    BY <1>j, <1>1 DEF TypeOK, StreamType
  <2>2. Finished(j, row[j].last) /\ (row[j].state = "deleted" \/ stream[s].cursor >= row[j].last)
    BY <1>j, <1>1 DEF CompleteMeansAll, Finished
  <2>3. \/ row'[j].state = "deleted"
        \/ row[j].state # "deleted" /\ row'[j].state = "ended" /\ row'[j].last = row[j].last
    <3>1. \A last : Finished(j, last) =>
                      Finished(j, last)' /\ (row[j].state = "deleted" => row'[j].state = "deleted")
      BY <2>1, EndedRowStays
    <3> QED BY <2>2, <3>1 DEF Finished
  <2> QED BY <1>j, <1>1, <2>2, <2>3 DEF Finished
<1>2. CASE /\ stream'[s].job = j /\ j \in DOMAIN poll.snap
           /\ poll.snap[j].state = "ended" /\ stream'[s].cursor >= poll.snap[j].last
  <2>1. j \in Jobs
    <3>1. poll.snap \in PartOf(RowType)
      BY DEF TypeOK, PollType
    <3> QED BY <1>2, <3>1, PartOfValues
  <2>2. Finished(j, poll.snap[j].last)
    BY <1>2 DEF SnapshotHolds
  <2>3. \A last : Finished(j, last) => Finished(j, last)'
    BY <2>1, EndedRowStays
  <2> QED BY <1>j, <1>2, <2>2, <2>3 DEF Finished
<1> QED BY <1>j, <1>1, <1>2, CompletedBy

\* A stream is only ended as complete when its client has the last event of a
\* job that has ended: the job is read before its events, and it is the job as
\* it was read that decides.
THEOREM CompleteStreamsHaveAll == Spec => []CompleteMeansAll
<1>1. Init => SnapshotHolds /\ CompleteMeansAll
  BY DEF Init, SnapshotHolds, CompleteMeansAll, NewStream, NoPoll
<1> QED BY <1>1, TypeCorrect, SnapshotStep, CompleteStep, PTL DEF Spec

=============================================================================
