-------------------------- MODULE GenerationQueue --------------------------
(***************************************************************************)
(* The pg-boss queue behind generation-queue.service.ts.  pg-boss is a     *)
(* library: its rows and transitions are modelled from the options the     *)
(* service passes (policy `singleton`, singletonKey = projectId,           *)
(* retryLimit, heartbeat and expiry) and from what the job service relies  *)
(* on.  All jobs here belong to one project, so the singleton policy lets  *)
(* at most one row be active.                                              *)
(*                                                                         *)
(* The operators give the queue's next value; the modules that use them    *)
(* say in which database transaction or callback the change happens.       *)
(***************************************************************************)
EXTENDS Integers

CONSTANTS MaxJobs,      \* how many jobs the project may ever create (a bound of the model)
          RetryLimit    \* JOB_RETRY_LIMIT

ASSUME QueueAssumption == MaxJobs \in Nat /\ RetryLimit \in Nat

\* Identifiers of business jobs; the queue row of a job has the same id.
Jobs == 1..MaxJobs

VARIABLE queue

QueueStates == {"absent", "created", "active", "retry", "completed", "failed"}

QueueTypeOK == queue \in [Jobs -> [state : QueueStates, retry : 0..RetryLimit]]

EmptyQueue == [j \in Jobs |-> [state |-> "absent", retry |-> 0]]

\* boss.send inside the caller's transaction.
Sent(j) == [queue EXCEPT ![j] = [state |-> "created", retry |-> 0]]

\* A worker may take row j: no other row of the project is active.
Fetchable(j) == /\ queue[j].state \in {"created", "retry"}
                /\ \A k \in Jobs : queue[k].state # "active"

\* Taking a row that was started before raises its retry count.
Fetched(j) == [queue EXCEPT ![j] =
                 [state |-> "active",
                  retry |-> IF queue[j].state = "retry" THEN queue[j].retry + 1
                                                        ELSE queue[j].retry]]

\* The handler returned.  The row is completed if it is active, whichever
\* delivery made it active: completion carries no delivery token.
Completed(j) == IF queue[j].state = "active"
                THEN [queue EXCEPT ![j].state = "completed"]
                ELSE queue

\* The handler threw, or its heartbeat or expiry ran out.
Failed(j) == IF queue[j].state = "active"
             THEN [queue EXCEPT ![j].state =
                     IF queue[j].retry < RetryLimit THEN "retry" ELSE "failed"]
             ELSE queue

\* Variant that trusts a completed row.
QueueRejected(j) == queue[j].state = "failed"

\* The queue will not deliver job j again.
QueueGaveUp(j) == queue[j].state \in {"completed", "failed"}
=============================================================================
