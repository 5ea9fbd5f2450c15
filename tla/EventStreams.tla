---------------------------- MODULE EventStreams ----------------------------
(***************************************************************************)
(* The server-sent events of GenerationJobsService: any number of streams  *)
(* share one timer and one poll at a time.  A poll reads the jobs of a     *)
(* batch, reconciles each of them, reads the events and delivers them; at  *)
(* every await clients come and go and jobs move on.  An event is its      *)
(* sequence number: the rows of a job are 1 .. last.                       *)
(***************************************************************************)
EXTENDS Integers, FiniteSets, Sequences

CONSTANTS Streams,      \* subscriptions, each opened once
          Jobs,
          MaxEvents,    \* bound: events of one job
          BatchSize,    \* ssePollBatchSize
          StreamLimit   \* streams that may be open at once

ASSUME StreamsAssumption ==
  /\ {MaxEvents, BatchSize} \subseteq Nat \ {0} /\ StreamLimit \in Nat
  /\ IsFiniteSet(Streams)

VARIABLES
  row,        \* the GenerationJob rows: status and eventSequence
  stream,     \* SseStreamState, and whether a poll has served the stream
  got,        \* history: the events each client received, in order
  timer,      \* ssePollTimer: none, now (delay 0) or later
  requested,  \* ssePollRequested
  poll        \* the poll in progress, with what it has read

vars == <<row, stream, got, timer, requested, poll>>

NoPoll == [pc |-> "idle", todo |-> {}, seen |-> {}, pending |-> {},
           snap |-> [j \in {} |-> 0], last |-> [j \in {} |-> 0]]
NewStream == [state |-> "new", job |-> 0, after |-> 0, cursor |-> 0]

Open == {s \in Streams : stream[s].state = "open"}
Polling == poll.pc # "idle"
\* streamsByJob, without the streams that have stopped since.
LiveStreams(j) == {s \in poll.seen : stream[s].job = j /\ stream[s].state = "open"}

Init ==
  /\ row = [j \in Jobs |-> [state |-> "active", last |-> 1]]
  /\ stream = [s \in Streams |-> NewStream]
  /\ got = [s \in Streams |-> <<>>]
  /\ timer = "none"
  /\ requested = FALSE
  /\ poll = NoPoll

-----------------------------------------------------------------------------
(* The worker and the writer's requests. *)

\* One transaction appends events of the job, the last ones with its outcome.
AppendEvent(j) ==
  /\ row[j].state = "active"
  /\ \E state \in {"active", "ended"}, last \in row[j].last + 1..MaxEvents :
       row' = [row EXCEPT ![j] = [state |-> state, last |-> last]]
  /\ UNCHANGED <<stream, got, timer, requested, poll>>

\* The project is deleted, and its jobs and events with it; neither the
\* writer's request nor the cleanup deletes one that has an active job.
DeleteJob(j) ==
  /\ row[j].state = "ended"
  /\ row' = [row EXCEPT ![j] = [state |-> "deleted", last |-> 0]]
  /\ UNCHANGED <<stream, got, timer, requested, poll>>

-----------------------------------------------------------------------------
(* Clients. *)

\* scheduleSsePoll(0): a poll in progress is told to run again, a longer
\* timer is replaced.
WakeUp ==
  IF Polling THEN requested' = TRUE /\ UNCHANGED timer
             ELSE timer' = "now" /\ UNCHANGED requested

\* events(): subscribe, with the last event the client has seen.
Subscribe(s, j, after) ==
  /\ stream[s].state = "new" /\ after <= row[j].last
  /\ IF Cardinality(Open) >= StreamLimit
     THEN /\ stream' = [stream EXCEPT ![s].state = "error"]
          /\ UNCHANGED <<timer, requested>>
     ELSE /\ stream' = [stream EXCEPT ![s] = [state |-> "open", job |-> j, after |-> after,
                                              cursor |-> after]]
          /\ WakeUp
  /\ UNCHANGED <<row, got, poll>>

\* clearSseTimerIfIdle, after a stream was removed.
TimerIfNeeded(open) == timer' = IF open = {} THEN "none" ELSE timer

\* removeSseStream: the client goes away.
Disconnect(s) ==
  /\ stream[s].state = "open"
  /\ stream' = [stream EXCEPT ![s].state = "left"]
  /\ TimerIfNeeded(Open \ {s})
  /\ UNCHANGED <<row, got, requested, poll>>

-----------------------------------------------------------------------------
(* The poll. *)

Closed(closing, state) ==
  [s \in Streams |-> IF s \in closing THEN [stream[s] EXCEPT !.state = state] ELSE stream[s]]

\* Variant that polls again only on request.
ContinueOnRequest(todo, seen, open) ==
  IF todo = {}
  THEN /\ poll' = NoPoll
       /\ timer' = IF open # {} /\ requested' THEN "now" ELSE "none"
  ELSE /\ \E batch \in SUBSET todo :
            /\ Cardinality(batch) = IF Cardinality(todo) < BatchSize THEN Cardinality(todo)
                                                                    ELSE BatchSize
            /\ poll' = [NoPoll EXCEPT !.pc = "jobs", !.todo = todo \ batch, !.seen = seen,
                                      !.pending = batch]
       /\ timer' = "none"

\* The next batch, or the finally of pollSseStreams: poll again at once when
\* that was asked for meanwhile, otherwise after the interval.
Continue(todo, seen, open) ==
  IF todo = {}
  THEN /\ poll' = NoPoll
       /\ timer' = IF open = {} THEN "none" ELSE IF requested' THEN "now" ELSE "later"
  ELSE /\ \E batch \in SUBSET todo :
            /\ Cardinality(batch) = IF Cardinality(todo) < BatchSize THEN Cardinality(todo)
                                                                    ELSE BatchSize
            /\ poll' = [NoPoll EXCEPT !.pc = "jobs", !.todo = todo \ batch, !.seen = seen,
                                      !.pending = batch]
       /\ timer' = "none"

\* pollSseStreams up to its first await: streams older than half an hour end.
StartPoll ==
  /\ timer # "none"
  /\ \E old \in SUBSET Open :
       LET seen == Open \ old
       IN /\ stream' = Closed(old, "expired")
          /\ requested' = FALSE
          /\ Continue({stream[s].job : s \in seen}, seen, seen)
  /\ UNCHANGED <<row, got>>

\* The catch around pollSseBatch: the streams of the batch fail.
BatchFails(batch) ==
  LET failing == UNION {LiveStreams(j) : j \in batch}
  IN /\ stream' = Closed(failing, "error")
     /\ UNCHANGED requested
     /\ Continue(poll.todo, poll.seen, Open \ failing)
     /\ UNCHANGED <<row, got>>

\* Read the jobs of the batch; streams of a job that is gone end.
ReadJobs ==
  /\ poll.pc = "jobs"
  /\ \/ LET there == {j \in poll.pending : row[j].state # "deleted"}
            orphans == UNION {LiveStreams(j) : j \in poll.pending \ there}
        IN /\ stream' = Closed(orphans, "gone")
           /\ UNCHANGED <<row, got, requested>>
           /\ IF there = {}
              THEN Continue(poll.todo, poll.seen, Open \ orphans)
              ELSE /\ poll' = [poll EXCEPT !.pc = "reconcile", !.pending = there,
                                           !.snap = [j \in there |-> row[j]]]
                   /\ UNCHANGED timer
     \/ BatchFails(poll.pending)

Reconciled(j) ==
  [poll EXCEPT !.pending = @ \ {j}, !.pc = IF poll.pending = {j} THEN "events" ELSE @]

\* reconcileQueueState and repairTerminalFailedConsistency of one job: the
\* snapshot stays, is read again, or this poll ends the job itself; an error
\* ends its streams and forgets the snapshot.
ReconcileJob(j) ==
  /\ poll.pc = "reconcile" /\ j \in poll.pending
  /\ \/ /\ poll' = Reconciled(j)
        /\ UNCHANGED <<row, stream, timer>>
     \/ /\ LiveStreams(j) # {} /\ row[j].state # "deleted"
        /\ poll' = [Reconciled(j) EXCEPT !.snap[j] = row[j]]
        /\ UNCHANGED <<row, stream, timer>>
     \/ /\ LiveStreams(j) # {} /\ poll.snap[j].state = "active"
        /\ row[j] = poll.snap[j] /\ row[j].last < MaxEvents
        /\ row' = [row EXCEPT ![j] = [state |-> "ended", last |-> row[j].last + 1]]
        /\ poll' = [Reconciled(j) EXCEPT !.snap[j] = row'[j]]
        /\ UNCHANGED <<stream, timer>>
     \/ /\ LiveStreams(j) # {}
        /\ poll' = [Reconciled(j) EXCEPT !.snap = [k \in DOMAIN @ \ {j} |-> @[k]]]
        /\ stream' = Closed(LiveStreams(j), "error")
        /\ TimerIfNeeded(Open \ LiveStreams(j))
        /\ UNCHANGED row
  /\ UNCHANGED <<got, requested>>

\* Read the events; they are handed out in the next callback.
ReadEvents ==
  /\ poll.pc = "events"
  /\ \/ /\ poll' = [poll EXCEPT !.pc = "deliver", !.last = [j \in DOMAIN poll.snap |-> row[j].last]]
        /\ UNCHANGED <<row, stream, got, timer, requested>>
     \/ BatchFails(DOMAIN poll.snap)

LargerOf(a, b) == IF a > b THEN a ELSE b
EventsAfter(after, last) == [i \in 1..(last - after) |-> after + i]

\* Variant that hands out every event of the query.
EventsOfJob(s, lowest) == EventsAfter(lowest, poll.last[stream[s].job])

\* The events of the query that the stream has not seen; the query starts
\* after the lowest cursor of the job's streams.
EventsFor(s, lowest) ==
  EventsAfter(LargerOf(lowest, stream[s].cursor), poll.last[stream[s].job])

Lowest(j) == CHOOSE c \in {stream[s].cursor : s \in LiveStreams(j)} :
               \A s \in LiveStreams(j) : c <= stream[s].cursor

\* The stream's cursor after the delivery.
Moved(s) == LargerOf(poll.last[stream[s].job], stream[s].cursor)

\* Variant that looks at the job again after the events.
EndedByNow(s) == row[stream[s].job].state = "ended"

\* The job had ended when it was read, and its last event has been sent.
Ended(s) == LET job == poll.snap[stream[s].job]
            IN job.state = "ended" /\ Moved(s) >= job.last

\* The tail of pollSseBatch.
DeliverEvents ==
  /\ poll.pc = "deliver"
  /\ LET live == UNION {LiveStreams(j) : j \in DOMAIN poll.snap}
         ended == {s \in live : Ended(s)}
     IN /\ got' = [s \in Streams |-> IF s \in live
                                     THEN got[s] \o EventsFor(s, Lowest(stream[s].job))
                                     ELSE got[s]]
        /\ stream' = [s \in Streams |->
                        IF s \notin live THEN stream[s]
                        ELSE [stream[s] EXCEPT !.cursor = Moved(s),
                                               !.state = IF s \in ended THEN "complete" ELSE @]]
        /\ UNCHANGED <<row, requested>>
        /\ Continue(poll.todo, poll.seen, Open \ ended)

PollStep == ReadJobs \/ (\E j \in Jobs : ReconcileJob(j)) \/ ReadEvents \/ DeliverEvents

Next ==
  \/ \E j \in Jobs : AppendEvent(j) \/ DeleteJob(j)
  \/ \E s \in Streams, j \in Jobs, after \in 0..MaxEvents : Subscribe(s, j, after)
  \/ \E s \in Streams : Disconnect(s)
  \/ StartPoll
  \/ PollStep

Spec == Init /\ [][Next]_vars

\* Timers fire and queries end.
FairSpec == Spec /\ WF_vars(StartPoll) /\ WF_vars(PollStep)

-----------------------------------------------------------------------------
RowType == [state : {"active", "ended", "deleted"}, last : 0..MaxEvents]

StreamType ==
  [state : {"new", "error"}, job : {0}, after : {0}, cursor : {0}] \cup
  [state : {"open", "complete", "gone", "expired", "error", "left"},
   job : Jobs, after : 0..MaxEvents, cursor : 0..MaxEvents]

\* What a poll has read of some of the jobs.
PartOf(T) == UNION {[read -> T] : read \in SUBSET Jobs}

PollType == [pc : {"idle", "jobs", "reconcile", "events", "deliver"},
             todo : SUBSET Jobs, seen : SUBSET Streams, pending : SUBSET Jobs,
             snap : PartOf(RowType), last : PartOf(0..MaxEvents)]

TypeOK ==
  /\ row \in [Jobs -> RowType]
  /\ stream \in [Streams -> StreamType]
  /\ timer \in {"none", "now", "later"}
  /\ requested \in BOOLEAN
  /\ poll \in PollType
  /\ poll.pc = "deliver" => DOMAIN poll.last = DOMAIN poll.snap

\* While a stream is open, a poll runs or a timer is set, and never both
\* (scheduleSsePoll, clearSseTimerIfIdle and the finally of pollSseStreams).
OneWakeUp ==
  /\ Open # {} => (Polling <=> timer = "none")
  /\ Open = {} => timer = "none"

\* Every client receives its events once each and in order, from the one it
\* asked for on, although one query serves all streams of a job.
DeliveredInOrder ==
  \A s \in Streams : got[s] = EventsAfter(stream[s].after, stream[s].cursor)

\* A stream ends as complete only when its client has the last event of a
\* job that has ended.
CompleteMeansAll ==
  \A s \in Streams : stream[s].state = "complete" =>
    LET r == row[stream[s].job]
    IN r.state = "deleted" \/ (r.state = "ended" /\ stream[s].cursor >= r.last)

\* The stream of a job that has ended, or is gone, does not stay open.
StreamCloses ==
  \A s \in Streams :
    stream[s].state = "open" /\ row[stream[s].job].state # "active" ~> stream[s].state # "open"
=============================================================================
