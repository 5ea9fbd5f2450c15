-------------------------- MODULE TransactionGate --------------------------
(***************************************************************************)
(* The gate in front of the requests' serializable transactions            *)
(* (AbuseProtectionService.runSerializableTransaction): a fixed number of  *)
(* slots, a bounded first-come queue of promises with a timeout, a slot    *)
(* that is handed over without being given back, and a retry that takes a  *)
(* new place in the queue for every attempt.  JavaScript runs one callback *)
(* at a time, so a step is the code between two awaits.                    *)
(*                                                                         *)
(* A regeneration passes the gate twice: the callback of its outer         *)
(* transaction, which spends the ticket, calls the gate again for the      *)
(* transaction that queues the job, and keeps its own slot until that call *)
(* has ended.  The worker's transaction that stores a result does not go   *)
(* through the gate.                                                       *)
(***************************************************************************)
EXTENDS Integers, FiniteSets, SequencesExt

CONSTANTS Requests,     \* requests that run a serializable transaction
          Regenerations, \* those that run a second one inside it
          Slots,        \* serializableTransactionConcurrency
          QueueLimit,   \* serializableTransactionQueueLimit
          MaxAttempts   \* SERIALIZABLE_TRANSACTION_MAX_ATTEMPTS

ASSUME GateAssumption ==
  /\ Slots \in Nat \ {0} /\ QueueLimit \in Nat \ {0} /\ MaxAttempts \in Nat \ {0}
  /\ IsFiniteSet(Requests) /\ Regenerations \subseteq Requests

VARIABLES active,   \* activeSerializableTransactions
          waiters,  \* serializableTransactionWaiters
          at,       \* where each call of runSerializableTransaction stands
          attempt   \* attempts the call's retry loop has used up

vars == <<active, waiters, at, attempt>>

\* granted: the promise is resolved, its continuation has not run yet.
Places == {"idle", "acquire", "waiting", "granted", "holding", "backoff", "done", "failed"}
HoldingPlaces == {"granted", "holding"}

\* The calls of runSerializableTransaction.
Outer(p) == <<p, "outer">>
Inner(p) == <<p, "inner">>
Calls == Requests \X {"outer", "inner"}

Holders == {c \in Calls : at[c] \in HoldingPlaces}

Init ==
  /\ active = 0
  /\ waiters = <<>>
  /\ at = [c \in Calls |-> "idle"]
  /\ attempt = [c \in Calls |-> 0]

-----------------------------------------------------------------------------
\* A request arrives, also one whose earlier transaction has ended.
Arrive(p) ==
  /\ at[Outer(p)] \in {"idle", "done", "failed"}
  /\ at' = [at EXCEPT ![Outer(p)] = "acquire"]
  /\ attempt' = [attempt EXCEPT ![Outer(p)] = 0]
  /\ UNCHANGED <<active, waiters>>

\* The callback of a regeneration's outer transaction calls the gate again.
Nest(c) ==
  /\ c = Outer(c[1]) /\ c[1] \in Regenerations
  /\ at[c] = "holding" /\ at[Inner(c[1])] = "idle"
  /\ at' = [at EXCEPT ![Inner(c[1])] = "acquire"]
  /\ attempt' = [attempt EXCEPT ![Inner(c[1])] = 0]
  /\ UNCHANGED <<active, waiters>>

\* acquireSerializableTransactionSlot up to its await.
Acquire(c) ==
  /\ at[c] = "acquire"
  /\ \/ /\ active < Slots
        /\ active' = active + 1
        /\ at' = [at EXCEPT ![c] = "holding"]
        /\ UNCHANGED waiters
     \/ /\ active >= Slots /\ Len(waiters) < QueueLimit
        /\ waiters' = Append(waiters, c)
        /\ at' = [at EXCEPT ![c] = "waiting"]
        /\ UNCHANGED active
     \/ /\ active >= Slots /\ Len(waiters) >= QueueLimit
        /\ at' = [at EXCEPT ![c] = "failed"]
        /\ UNCHANGED <<active, waiters>>
  /\ UNCHANGED attempt

\* The timer of a waiter fires: splice it out of the queue and reject.
TimeOut(c) ==
  /\ at[c] = "waiting"
  /\ \E i \in DOMAIN waiters : waiters[i] = c /\ waiters' = RemoveAt(waiters, i)
  /\ at' = [at EXCEPT ![c] = "failed"]
  /\ UNCHANGED <<active, attempt>>

\* The continuation after the await: the transaction begins.
Resume(c) ==
  /\ at[c] = "granted"
  /\ at' = [at EXCEPT ![c] = "holding"]
  /\ UNCHANGED <<active, waiters, attempt>>

\* Call c leaves its slot; the next attempt of an outer call makes its inner call anew.
Left(c, place) ==
  [at EXCEPT ![c] = place, ![Inner(c[1])] = IF c = Inner(c[1]) THEN place ELSE "idle"]

\* Variant that gives the slot back although a waiter takes it over.
ReleaseAndGrant(c, place) ==
  /\ active' = active - 1
  /\ IF waiters = <<>>
     THEN waiters' = waiters /\ at' = Left(c, place)
     ELSE /\ waiters' = Tail(waiters)
          /\ at' = [Left(c, place) EXCEPT ![Head(waiters)] = "granted"]

\* Variant that grants the latest waiter.
ReleaseToLast(c, place) ==
  IF waiters = <<>>
  THEN /\ active' = active - 1
       /\ at' = Left(c, place)
       /\ UNCHANGED waiters
  ELSE /\ waiters' = SubSeq(waiters, 1, Len(waiters) - 1)
       /\ at' = [Left(c, place) EXCEPT ![waiters[Len(waiters)]] = "granted"]
       /\ UNCHANGED active

\* Variant that gives the slot back and wakes nobody.
ReleaseOnly(c, place) ==
  /\ active' = active - 1
  /\ at' = Left(c, place)
  /\ UNCHANGED waiters

\* release(): hand the slot to the first waiter, or give it back.
Release(c, place) ==
  IF waiters = <<>>
  THEN /\ active' = active - 1
       /\ at' = Left(c, place)
       /\ UNCHANGED waiters
  ELSE /\ waiters' = Tail(waiters)
       /\ at' = [Left(c, place) EXCEPT ![Head(waiters)] = "granted"]
       /\ UNCHANGED active

\* What the inner call leaves open to the transaction around it: nothing while it
\* runs; it commits only after an inner call that committed, and the error of a
\* failed inner call is not retried.
MayCommit(c) == c = Outer(c[1]) /\ c[1] \in Regenerations => at[Inner(c[1])] = "done"
MayConflict(c) == c = Outer(c[1]) => at[Inner(c[1])] \in {"idle", "done"}
MayFail(c) == c = Outer(c[1]) => at[Inner(c[1])] \in {"idle", "done", "failed"}

\* The transaction commits, or fails with an error that is not retried.
Finish(c) ==
  /\ at[c] = "holding"
  /\ \/ MayCommit(c) /\ Release(c, "done")
     \/ MayFail(c) /\ Release(c, "failed")
  /\ UNCHANGED attempt

\* PostgreSQL aborts it: back off and try again, at most MaxAttempts times.
Conflict(c) ==
  /\ at[c] = "holding" /\ MayConflict(c)
  /\ attempt' = [attempt EXCEPT ![c] = @ + 1]
  /\ Release(c, IF attempt'[c] = MaxAttempts THEN "failed" ELSE "backoff")

\* The delay is over.
Retry(c) ==
  /\ at[c] = "backoff"
  /\ at' = [at EXCEPT ![c] = "acquire"]
  /\ UNCHANGED <<active, waiters, attempt>>

Step(c) == Acquire(c) \/ Resume(c) \/ Nest(c) \/ Finish(c) \/ Conflict(c) \/ Retry(c)

Next ==
  \/ \E p \in Requests : Arrive(p)
  \/ \E c \in Calls : Step(c) \/ TimeOut(c)

Spec == Init /\ [][Next]_vars

\* The event loop runs every continuation and every timer of a back-off, and the
\* database ends every transaction.  Of the timers of the waiters only those of
\* the inner calls are assumed to fire: the others may never do.
FairSpec ==
  /\ Spec
  /\ \A c \in Calls : WF_vars(Step(c))
  /\ \A p \in Regenerations : WF_vars(TimeOut(Inner(p)))

-----------------------------------------------------------------------------
TypeOK ==
  /\ active \in 0..Slots
  /\ waiters \in Seq(Calls)
  /\ at \in [Calls -> Places]
  /\ attempt \in [Calls -> 0..MaxAttempts]

\* The counter counts the calls that own a slot, through every hand-over, timeout,
\* retry and nested call: no slot leaks, none is used twice
\* (acquireSerializableTransactionSlot and its release).
SlotsMatchHolders == active = Cardinality(Holders)

\* The queue holds exactly the calls that wait, once each.
WaitersAreWaiting ==
  /\ \A c \in Calls : at[c] = "waiting" <=> \E i \in DOMAIN waiters : waiters[i] = c
  /\ \A i, k \in DOMAIN waiters : waiters[i] = waiters[k] => i = k

\* Nobody waits while a slot is free, and the queue keeps its limit.
NobodyWaitsForFreeSlot ==
  /\ waiters # <<>> => active = Slots
  /\ Len(waiters) <= QueueLimit

\* A call gets a slot only when nobody waits before it: neither a newcomer nor
\* a retry nor a later waiter overtakes.
NoOvertaking ==
  [][\A c \in Calls :
       at[c] \notin HoldingPlaces /\ at'[c] \in HoldingPlaces
         => waiters = <<>> \/ Head(waiters) = c]_vars

\* Every request gets an answer, however often its transactions conflict, even
\* when regenerations hold every slot while they queue for one more: the only
\* timers this needs are those of the nested calls, and no hand-over is lost.
RequestEnds ==
  \A p \in Requests : at[Outer(p)] = "acquire" ~> at[Outer(p)] \in {"done", "failed"}

\* With a single slot no regeneration succeeds: the transaction around the
\* inner call holds the slot the inner call waits for, until the timer of that
\* wait rejects the request (runSerializableTransaction inside the callback of
\* reserveRealGeneration).
OneSlotRefusesRegenerations ==
  Slots = 1 => \A p \in Regenerations : at[Outer(p)] # "done"
=============================================================================
