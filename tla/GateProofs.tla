----------------------------- MODULE GateProofs -----------------------------
(***************************************************************************)
(* The transaction gate counts its slots and its waiters right, for any    *)
(* number of requests, slots, places in the queue and attempts, and a      *)
(* single slot lets no regeneration through.                               *)
(***************************************************************************)
EXTENDS TransactionGate, FiniteSetTheorems, SequenceTheorems, TLAPS

\* A call whose transaction may still begin has an attempt left.
AttemptsLeft ==
  \A c \in Calls : at[c] \in {"acquire", "waiting", "granted", "holding", "backoff"}
                     => attempt[c] < MaxAttempts

\* An inner call lives inside the transaction of a regeneration that holds its slot.
NestedInside ==
  \A p \in Requests :
    at[Inner(p)] # "idle" => p \in Regenerations /\ at[Outer(p)] = "holding"

CountInv ==
  TypeOK /\ AttemptsLeft /\ SlotsMatchHolders /\ WaitersAreWaiting /\ NobodyWaitsForFreeSlot

GateInv == CountInv /\ NestedInside

Occurs(x, s) == \E i \in DOMAIN s : s[i] = x
Distinct(s) == \A i, k \in DOMAIN s : s[i] = s[k] => i = k

-----------------------------------------------------------------------------
(* What the operations on the queue of waiters keep. *)

\* A call that joins the queue is in it once, behind everybody else.
LEMMA AppendKeeps ==
  ASSUME NEW S, NEW s \in Seq(S), NEW e \in S, Distinct(s), ~Occurs(e, s)
  PROVE  /\ Append(s, e) \in Seq(S) /\ Len(Append(s, e)) = Len(s) + 1
         /\ Distinct(Append(s, e))
         /\ \A x : Occurs(x, Append(s, e)) <=> Occurs(x, s) \/ x = e
<1>1. /\ Append(s, e) \in Seq(S)
      /\ Len(s) \in Nat /\ DOMAIN s = 1..Len(s)
      /\ Len(Append(s, e)) = Len(s) + 1 /\ DOMAIN Append(s, e) = 1..Len(s) + 1
      /\ \A i \in 1..Len(s) : Append(s, e)[i] = s[i]
      /\ Append(s, e)[Len(s) + 1] = e
  BY LenProperties, AppendProperties
<1>2. Distinct(Append(s, e))
  BY <1>1 DEF Distinct, Occurs
<1>3. \A x : Occurs(x, Append(s, e)) <=> Occurs(x, s) \/ x = e
  BY <1>1 DEF Occurs
<1> QED
  BY <1>1, <1>2, <1>3

\* Taking the first waiter takes that one out and leaves the others.
LEMMA TailKeeps ==
  ASSUME NEW S, NEW s \in Seq(S), s # <<>>, Distinct(s)
  PROVE  /\ Head(s) \in S /\ Occurs(Head(s), s)
         /\ Tail(s) \in Seq(S) /\ Len(Tail(s)) = Len(s) - 1 /\ Len(s) \in Nat \ {0}
         /\ Distinct(Tail(s))
         /\ \A x : Occurs(x, Tail(s)) <=> Occurs(x, s) /\ x # Head(s)
<1>1. /\ Head(s) \in S /\ Tail(s) \in Seq(S) /\ Len(Tail(s)) = Len(s) - 1
      /\ Len(s) \in Nat \ {0} /\ DOMAIN s = 1..Len(s) /\ DOMAIN Tail(s) = 1..Len(s) - 1
      /\ \A i \in 1..Len(s) - 1 : Tail(s)[i] = s[i + 1]
      /\ Head(s) = s[1]
  BY EmptySeq, LenProperties, HeadTailProperties
<1>2. Distinct(Tail(s))
  BY <1>1 DEF Distinct
<1>3. ASSUME NEW x PROVE Occurs(x, Tail(s)) <=> Occurs(x, s) /\ x # Head(s)
  <2>1. ASSUME Occurs(x, Tail(s)) PROVE Occurs(x, s) /\ x # Head(s)
    <3>1. PICK i \in 1..Len(s) - 1 : s[i + 1] = x
      BY <1>1, <2>1 DEF Occurs
    <3>2. i + 1 \in DOMAIN s /\ 1 \in DOMAIN s /\ i + 1 # 1
      BY <1>1
    <3> QED
      BY <1>1, <3>1, <3>2 DEF Occurs, Distinct
  <2>2. ASSUME Occurs(x, s), x # Head(s) PROVE Occurs(x, Tail(s))
    <3>1. PICK i \in 1..Len(s) : s[i] = x
      BY <1>1, <2>2 DEF Occurs
    <3>2. i - 1 \in 1..Len(s) - 1
      BY <1>1, <2>2, <3>1
    <3>3. Tail(s)[i - 1] = x
      BY <1>1, <3>1, <3>2
    <3> QED
      BY <1>1, <3>2, <3>3 DEF Occurs
  <2> QED
    BY <2>1, <2>2
<1>4. Occurs(Head(s), s)
  BY <1>1 DEF Occurs
<1> QED
  BY <1>1, <1>2, <1>3, <1>4

\* A waiter that gives up is taken out and the others keep their order.
LEMMA RemoveKeeps ==
  ASSUME NEW S, NEW s \in Seq(S), NEW n \in DOMAIN s, Distinct(s)
  PROVE  /\ RemoveAt(s, n) \in Seq(S) /\ Len(RemoveAt(s, n)) = Len(s) - 1
         /\ Len(s) \in Nat \ {0}
         /\ Distinct(RemoveAt(s, n))
         /\ \A x : Occurs(x, RemoveAt(s, n)) <=> Occurs(x, s) /\ x # s[n]
<1> DEFINE front == SubSeq(s, 1, n - 1)
           back == SubSeq(s, n + 1, Len(s))
<1>1. /\ Len(s) \in Nat \ {0} /\ DOMAIN s = 1..Len(s) /\ n \in 1..Len(s)
      /\ \A i \in 1..Len(s) : s[i] \in S
  BY LenProperties
<1>2. /\ front \in Seq(S) /\ Len(front) = n - 1
      /\ \A i \in 1..n - 1 : front[i] = s[i]
  <2>1. /\ front \in Seq(S) /\ Len(front) = (IF 1 <= n - 1 THEN n - 1 - 1 + 1 ELSE 0)
        /\ \A i \in 1..n - 1 - 1 + 1 : front[i] = s[1 + i - 1]
    <3>1. 1 \in Int /\ n - 1 \in Int /\ \A i \in 1..n - 1 : s[i] \in S
      BY <1>1
    <3> QED
      BY <3>1, SubSeqProperties
  <2> QED
    BY <1>1, <2>1
<1>3. /\ back \in Seq(S) /\ Len(back) = Len(s) - n
      /\ \A i \in 1..Len(s) - n : back[i] = s[n + i]
  <2>1. /\ back \in Seq(S)
        /\ Len(back) = (IF n + 1 <= Len(s) THEN Len(s) - (n + 1) + 1 ELSE 0)
        /\ \A i \in 1..Len(s) - (n + 1) + 1 : back[i] = s[n + 1 + i - 1]
    <3>1. n + 1 \in Int /\ Len(s) \in Int /\ \A i \in n + 1..Len(s) : s[i] \in S
      BY <1>1
    <3> QED
      BY <3>1, SubSeqProperties
  <2> QED
    BY <1>1, <2>1
<1> HIDE DEF front, back
<1>4. /\ front \o back \in Seq(S) /\ Len(front \o back) = Len(s) - 1
      /\ DOMAIN (front \o back) = 1..Len(s) - 1
      /\ \A i \in 1..Len(s) - 1 : (front \o back)[i] = IF i < n THEN s[i] ELSE s[i + 1]
  <2>1. /\ front \o back \in Seq(S) /\ Len(front \o back) = (n - 1) + (Len(s) - n)
        /\ \A i \in 1..(n - 1) + (Len(s) - n) :
             (front \o back)[i] = IF i <= n - 1 THEN front[i] ELSE back[i - (n - 1)]
    <3>1. front \in Seq(S) /\ back \in Seq(S) /\ Len(front) = n - 1 /\ Len(back) = Len(s) - n
      BY <1>2, <1>3
    <3>2. /\ front \o back \in Seq(S) /\ Len(front \o back) = Len(front) + Len(back)
          /\ \A i \in 1..Len(front) + Len(back) :
               (front \o back)[i] = IF i <= Len(front) THEN front[i] ELSE back[i - Len(front)]
      BY <3>1, ConcatProperties
    <3> QED
      BY <3>1, <3>2
  <2>2. (n - 1) + (Len(s) - n) = Len(s) - 1
    BY <1>1
  <2>3. DOMAIN (front \o back) = 1..Len(s) - 1
    BY <2>1, <2>2, LenProperties
  <2>4. ASSUME NEW i \in 1..Len(s) - 1
        PROVE  (front \o back)[i] = IF i < n THEN s[i] ELSE s[i + 1]
    <3>1. CASE i < n
      <4>1. i <= n - 1 /\ i \in 1..n - 1
        BY <1>1, <3>1
      <4> QED
        BY <1>2, <2>1, <2>2, <3>1, <4>1
    <3>2. CASE ~(i < n)
      <4>1. ~(i <= n - 1) /\ i - (n - 1) \in 1..Len(s) - n /\ n + (i - (n - 1)) = i + 1
        BY <1>1, <3>2
      <4> QED
        BY <1>3, <2>1, <2>2, <3>2, <4>1
    <3> QED
      BY <3>1, <3>2
  <2> QED
    BY <2>1, <2>2, <2>3, <2>4
<1>5. RemoveAt(s, n) = front \o back
  BY DEF RemoveAt, front, back
<1> DEFINE t == front \o back
<1> HIDE DEF t
<1>6. /\ DOMAIN t = 1..Len(s) - 1
      /\ \A i \in 1..Len(s) - 1 : t[i] = IF i < n THEN s[i] ELSE s[i + 1]
  BY <1>4 DEF t
<1>7. Distinct(t)
  BY <1>1, <1>6 DEF Distinct
<1>8. ASSUME NEW x PROVE Occurs(x, t) <=> Occurs(x, s) /\ x # s[n]
  <2>1. ASSUME Occurs(x, t) PROVE Occurs(x, s) /\ x # s[n]
    <3>1. PICK i \in 1..Len(s) - 1 : t[i] = x
      BY <1>6, <2>1 DEF Occurs
    <3>2. PICK k \in 1..Len(s) : k # n /\ s[k] = x
      BY <1>1, <1>6, <3>1
    <3> QED
      BY <1>1, <3>2 DEF Occurs, Distinct
  <2>2. ASSUME Occurs(x, s), x # s[n] PROVE Occurs(x, t)
    <3>1. PICK k \in 1..Len(s) : s[k] = x
      BY <1>1, <2>2 DEF Occurs
    <3>2. k # n
      BY <2>2, <3>1
    <3>3. CASE k < n
      <4>1. k \in 1..Len(s) - 1
        BY <1>1, <3>3
      <4> QED
        BY <1>6, <3>1, <3>3, <4>1 DEF Occurs
    <3>4. CASE k > n
      <4>1. k - 1 \in 1..Len(s) - 1 /\ ~(k - 1 < n) /\ (k - 1) + 1 = k
        BY <1>1, <3>4
      <4> QED
        BY <1>6, <3>1, <4>1 DEF Occurs
    <3> QED
      BY <1>1, <3>2, <3>3, <3>4
  <2> QED
    BY <2>1, <2>2
<1> QED
  BY <1>1, <1>4, <1>5, <1>7, <1>8 DEF t

-----------------------------------------------------------------------------
(* How a step moves calls in and out of the slots. *)

\* A call that takes a slot is one holder more.
LEMMA HolderAdded ==
  ASSUME NEW H, NEW p, IsFiniteSet(H), p \notin H
  PROVE  Cardinality(H \cup {p}) = Cardinality(H) + 1
BY FS_AddElement

\* A call that leaves its slot is one holder less.
LEMMA HolderRemoved ==
  ASSUME NEW H, NEW p, IsFiniteSet(H), p \in H
  PROVE  /\ Cardinality(H \ {p}) = Cardinality(H) - 1
         /\ Cardinality(H) \in Nat \ {0}
<1>1. Cardinality(H \ {p}) = Cardinality(H) - 1 /\ IsFiniteSet(H \ {p})
  BY FS_RemoveElement
<1>2. Cardinality(H) \in Nat /\ Cardinality(H \ {p}) \in Nat
  BY <1>1, FS_CardinalityType
<1> QED
  BY <1>1, <1>2

\* A slot that is handed over keeps the number of holders.
LEMMA HolderReplaced ==
  ASSUME NEW H, NEW p, NEW q, IsFiniteSet(H), p \in H, q \notin H
  PROVE  Cardinality((H \ {p}) \cup {q}) = Cardinality(H)
<1>1. Cardinality(H \ {p}) = Cardinality(H) - 1 /\ IsFiniteSet(H \ {p}) /\ q \notin H \ {p}
  BY FS_RemoveElement
<1>2. Cardinality((H \ {p}) \cup {q}) = Cardinality(H \ {p}) + 1
  BY <1>1, HolderAdded
<1>3. Cardinality(H) \in Nat
  BY FS_CardinalityType
<1> QED
  BY <1>1, <1>2, <1>3

\* A call is the outer or the inner one of a request.
LEMMA CallFacts ==
  /\ \A p \in Requests :
       /\ Outer(p) \in Calls /\ Inner(p) \in Calls
       /\ Outer(p)[1] = p /\ Inner(p)[1] = p
       /\ \A q \in Requests : Outer(p) # Inner(q)
       /\ \A q \in Requests : p # q => Outer(p) # Outer(q) /\ Inner(p) # Inner(q)
  /\ \A c \in Calls : c[1] \in Requests /\ (c = Outer(c[1]) \/ c = Inner(c[1]))
BY DEF Calls, Outer, Inner

\* A call that leaves its slot takes the one inside it along.
LEMMA LeftFacts ==
  ASSUME at \in [Calls -> Places], NEW c \in Calls, NEW place \in Places
  PROVE  /\ Left(c, place) \in [Calls -> Places]
         /\ \A d \in Calls : Left(c, place)[d] =
              IF d = c THEN place ELSE IF d = Inner(c[1]) THEN "idle" ELSE at[d]
<1>1. Inner(c[1]) \in Calls /\ "idle" \in Places
  BY CallFacts DEF Places
<1> QED
  BY <1>1 DEF Left

LEMMA HoldersFinite ==
  IsFiniteSet(Holders)
<1>1. IsFiniteSet({"outer", "inner"})
  <2>1. IsFiniteSet({"outer"}) /\ {"outer", "inner"} = {"outer"} \cup {"inner"}
    BY FS_Singleton
  <2> QED
    BY <2>1, FS_AddElement
<1>2. IsFiniteSet(Calls)
  BY <1>1, GateAssumption, FS_Product DEF Calls
<1> QED
  BY <1>2, FS_Subset DEF Holders

\* What the invariant says of the queue, in the words of the lemmas above.
LEMMA QueueShape ==
  ASSUME CountInv
  PROVE  /\ waiters \in Seq(Calls) /\ Distinct(waiters) /\ Len(waiters) \in Nat
         /\ \A c \in Calls : at[c] = "waiting" <=> Occurs(c, waiters)
BY LenProperties DEF CountInv, TypeOK, WaitersAreWaiting, Occurs, Distinct

-----------------------------------------------------------------------------
(* The steps. *)

LEMMA GateInit ==
  Init => GateInv
<1> SUFFICES ASSUME Init PROVE GateInv
  OBVIOUS
<1>1. Holders = {} /\ Cardinality(Holders) = 0
  <2>1. Holders = {}
    BY DEF Init, Holders, HoldingPlaces
  <2> QED
    BY <2>1, FS_EmptySet
<1>2. waiters \in Seq(Calls) /\ Len(waiters) = 0 /\ DOMAIN waiters = {}
  <2>1. waiters \in Seq(Calls) /\ Len(waiters) = 0
    BY EmptySeq DEF Init
  <2> QED
    BY <2>1, LenProperties
<1>3. TypeOK /\ AttemptsLeft
  BY <1>2, GateAssumption DEF Init, TypeOK, AttemptsLeft, Places
<1>4. WaitersAreWaiting
  BY <1>2 DEF Init, WaitersAreWaiting
<1>5. NobodyWaitsForFreeSlot
  BY <1>2, GateAssumption DEF Init, NobodyWaitsForFreeSlot
<1>6. NestedInside
  BY CallFacts DEF Init, NestedInside
<1> QED
  BY <1>1, <1>3, <1>4, <1>5, <1>6 DEF Init, GateInv, CountInv, SlotsMatchHolders

\* One call moves between places that are neither a slot nor the queue.
LEMMA PlainMove ==
  ASSUME CountInv, NEW c \in Calls, NEW place \in Places,
         at[c] \notin HoldingPlaces \cup {"waiting"},
         place \notin HoldingPlaces \cup {"waiting"},
         at' = [at EXCEPT ![c] = place], active' = active, waiters' = waiters,
         attempt' \in [Calls -> 0..MaxAttempts],
         \A q \in Calls : q # c => attempt'[q] = attempt[q],
         place \in {"acquire", "backoff"} => attempt'[c] < MaxAttempts
  PROVE  CountInv'
<1>1. TypeOK' /\ AttemptsLeft'
  BY DEF CountInv, TypeOK, AttemptsLeft, HoldingPlaces, Places
<1>2. Holders' = Holders
  BY DEF CountInv, TypeOK, Holders, HoldingPlaces
<1>3. WaitersAreWaiting'
  BY DEF CountInv, TypeOK, WaitersAreWaiting
<1> QED
  BY <1>1, <1>2, <1>3 DEF CountInv, SlotsMatchHolders, NobodyWaitsForFreeSlot

LEMMA AcquireKeeps ==
  ASSUME CountInv, NEW c \in Calls, Acquire(c)
  PROVE  CountInv'
<1> USE QueueShape, HoldersFinite
<1>1. CASE /\ active < Slots
           /\ active' = active + 1
           /\ at' = [at EXCEPT ![c] = "holding"]
           /\ UNCHANGED waiters
  <2>1. TypeOK' /\ AttemptsLeft'
    BY <1>1, GateAssumption DEF Acquire, CountInv, TypeOK, AttemptsLeft, Places
  <2>2. Holders' = Holders \cup {c} /\ c \notin Holders
    BY <1>1 DEF Acquire, CountInv, TypeOK, Holders, HoldingPlaces
  <2>3. SlotsMatchHolders'
    BY <1>1, <2>2, HolderAdded DEF CountInv, SlotsMatchHolders
  <2>4. WaitersAreWaiting'
    BY <1>1 DEF Acquire, CountInv, TypeOK, WaitersAreWaiting
  <2>5. waiters = <<>>
    BY <1>1, GateAssumption DEF CountInv, TypeOK, NobodyWaitsForFreeSlot
  <2>6. NobodyWaitsForFreeSlot'
    BY <1>1, <2>5 DEF CountInv, NobodyWaitsForFreeSlot
  <2> QED
    BY <2>1, <2>3, <2>4, <2>6 DEF CountInv
<1>2. CASE /\ active >= Slots /\ Len(waiters) < QueueLimit
           /\ waiters' = Append(waiters, c)
           /\ at' = [at EXCEPT ![c] = "waiting"]
           /\ UNCHANGED active
  <2>1. ~Occurs(c, waiters)
    BY DEF Acquire
  <2>2. /\ waiters' \in Seq(Calls) /\ Len(waiters') = Len(waiters) + 1 /\ Distinct(waiters')
        /\ \A x : Occurs(x, waiters') <=> Occurs(x, waiters) \/ x = c
    BY <1>2, <2>1, AppendKeeps
  <2>3. TypeOK' /\ AttemptsLeft'
    BY <1>2, <2>2 DEF Acquire, CountInv, TypeOK, AttemptsLeft, Places
  <2>4. Holders' = Holders
    BY <1>2 DEF Acquire, CountInv, TypeOK, Holders, HoldingPlaces
  <2>5. \A q \in Calls : at'[q] = "waiting" <=> Occurs(q, waiters')
    BY <1>2, <2>2 DEF CountInv, TypeOK
  <2>6. WaitersAreWaiting'
    BY <2>2, <2>5 DEF WaitersAreWaiting, Occurs, Distinct
  <2>7. NobodyWaitsForFreeSlot'
    BY <1>2, <2>2, GateAssumption DEF CountInv, TypeOK, NobodyWaitsForFreeSlot
  <2> QED
    BY <1>2, <2>3, <2>4, <2>6, <2>7 DEF CountInv, SlotsMatchHolders
<1>3. CASE /\ active >= Slots /\ Len(waiters) >= QueueLimit
           /\ at' = [at EXCEPT ![c] = "failed"]
           /\ UNCHANGED <<active, waiters>>
  BY <1>3, PlainMove DEF Acquire, CountInv, TypeOK, Places, HoldingPlaces
<1> QED
  BY <1>1, <1>2, <1>3 DEF Acquire

LEMMA TimeOutKeeps ==
  ASSUME CountInv, NEW c \in Calls, TimeOut(c)
  PROVE  CountInv'
<1> USE QueueShape, HoldersFinite
<1>1. PICK i \in DOMAIN waiters : waiters[i] = c /\ waiters' = RemoveAt(waiters, i)
  BY DEF TimeOut
<1>2. /\ waiters' \in Seq(Calls) /\ Len(waiters') = Len(waiters) - 1 /\ Distinct(waiters')
      /\ Len(waiters) \in Nat \ {0}
      /\ \A x : Occurs(x, waiters') <=> Occurs(x, waiters) /\ x # c
  BY <1>1, RemoveKeeps
<1>3. TypeOK' /\ AttemptsLeft'
  BY <1>2 DEF TimeOut, CountInv, TypeOK, AttemptsLeft, Places
<1>4. Holders' = Holders
  BY DEF TimeOut, CountInv, TypeOK, Holders, HoldingPlaces
<1>5. \A q \in Calls : at'[q] = "waiting" <=> Occurs(q, waiters')
  BY <1>2 DEF TimeOut, CountInv, TypeOK
<1>6. WaitersAreWaiting'
  BY <1>2, <1>5 DEF WaitersAreWaiting, Occurs, Distinct
<1>7. NobodyWaitsForFreeSlot'
  <2>1. waiters # <<>>
    BY <1>2, EmptySeq
  <2> QED
    BY <1>2, <2>1, GateAssumption DEF TimeOut, CountInv, NobodyWaitsForFreeSlot
<1> QED
  BY <1>3, <1>4, <1>6, <1>7 DEF TimeOut, CountInv, SlotsMatchHolders

LEMMA ResumeKeeps ==
  ASSUME CountInv, NEW c \in Calls, Resume(c)
  PROVE  CountInv'
<1>1. TypeOK' /\ AttemptsLeft'
  BY DEF Resume, CountInv, TypeOK, AttemptsLeft, Places
<1>2. Holders' = Holders
  BY DEF Resume, CountInv, TypeOK, Holders, HoldingPlaces
<1>3. WaitersAreWaiting'
  BY DEF Resume, CountInv, TypeOK, WaitersAreWaiting
<1> QED
  BY <1>1, <1>2, <1>3 DEF Resume, CountInv, SlotsMatchHolders, NobodyWaitsForFreeSlot

\* The end of a transaction, whether it hands its slot over or gives it back.
LEMMA ReleaseKeeps ==
  ASSUME CountInv, NEW c \in Calls, NEW place \in {"done", "failed", "backoff"},
         at[c] = "holding", MayFail(c), Release(c, place),
         attempt' \in [Calls -> 0..MaxAttempts],
         \A q \in Calls : q # c => attempt'[q] = attempt[q],
         place = "backoff" => attempt'[c] < MaxAttempts
  PROVE  CountInv'
<1> USE QueueShape, HoldersFinite
<1> DEFINE left == Left(c, place)
<1>a. place \in Places /\ at \in [Calls -> Places]
  BY DEF Places, CountInv, TypeOK
<1>b. /\ left \in [Calls -> Places]
      /\ \A d \in Calls : left[d] =
           IF d = c THEN place ELSE IF d = Inner(c[1]) THEN "idle" ELSE at[d]
  BY <1>a, LeftFacts
<1>c. Inner(c[1]) # c => at[Inner(c[1])] \notin HoldingPlaces \cup {"waiting"}
  BY CallFacts DEF MayFail, HoldingPlaces
<1>d. c \in Holders
  BY DEF Holders, HoldingPlaces
<1>1. CASE waiters = <<>>
  <2>1. /\ active' = active - 1 /\ at' = left /\ waiters' = waiters
    BY <1>1 DEF Release
  <2> HIDE DEF left
  <2>2. Holders' = Holders \ {c}
    BY <1>b, <1>c, <2>1 DEF Holders, HoldingPlaces
  <2>3. active \in Nat \ {0} /\ Cardinality(Holders') = active'
    BY <1>d, <2>1, <2>2, HolderRemoved DEF CountInv, SlotsMatchHolders
  <2>4. TypeOK'
    BY <1>b, <2>1, <2>3, GateAssumption DEF CountInv, TypeOK
  <2>5. AttemptsLeft'
    BY <1>b, <2>1 DEF CountInv, AttemptsLeft
  <2>6. WaitersAreWaiting'
    BY <1>b, <1>c, <2>1 DEF CountInv, WaitersAreWaiting
  <2>7. NobodyWaitsForFreeSlot'
    BY <1>1, <2>1 DEF CountInv, NobodyWaitsForFreeSlot
  <2> QED
    BY <2>3, <2>4, <2>5, <2>6, <2>7 DEF CountInv, SlotsMatchHolders
<1>2. CASE waiters # <<>>
  <2> DEFINE next == Head(waiters)
  <2>1. active' = active /\ waiters' = Tail(waiters) /\ at' = [left EXCEPT ![next] = "granted"]
    BY <1>2 DEF Release
  <2> HIDE DEF left
  <2>2. /\ next \in Calls /\ Occurs(next, waiters) /\ Len(waiters) \in Nat \ {0}
        /\ waiters' \in Seq(Calls) /\ Len(waiters') = Len(waiters) - 1 /\ Distinct(waiters')
        /\ \A x : Occurs(x, waiters') <=> Occurs(x, waiters) /\ x # next
    BY <1>2, <2>1, TailKeeps
  <2> HIDE DEF next
  <2>3. at[next] = "waiting" /\ next # c /\ next # Inner(c[1]) /\ next \notin Holders
    BY <1>c, <2>2 DEF Holders, HoldingPlaces
  <2>4. \A d \in Calls : at'[d] =
          IF d = next THEN "granted"
          ELSE IF d = c THEN place ELSE IF d = Inner(c[1]) THEN "idle" ELSE at[d]
    BY <1>b, <2>1, <2>2
  <2>5. Holders' = (Holders \ {c}) \cup {next}
    BY <1>c, <2>2, <2>3, <2>4 DEF Holders, HoldingPlaces
  <2>6. SlotsMatchHolders'
    BY <1>d, <2>1, <2>3, <2>5, HolderReplaced DEF CountInv, SlotsMatchHolders
  <2>7. TypeOK'
    BY <1>b, <2>1, <2>2 DEF CountInv, TypeOK, Places
  <2>8. AttemptsLeft'
    BY <2>2, <2>3, <2>4 DEF CountInv, AttemptsLeft
  <2>9. \A q \in Calls : at'[q] = "waiting" <=> Occurs(q, waiters')
    BY <1>c, <2>2, <2>3, <2>4
  <2>10. WaitersAreWaiting'
    BY <2>2, <2>9 DEF WaitersAreWaiting, Occurs, Distinct
  <2>11. NobodyWaitsForFreeSlot'
    BY <1>2, <2>1, <2>2, GateAssumption DEF CountInv, NobodyWaitsForFreeSlot
  <2> QED
    BY <2>6, <2>7, <2>8, <2>10, <2>11 DEF CountInv
<1> QED
  BY <1>1, <1>2

LEMMA ConflictKeeps ==
  ASSUME CountInv, NEW c \in Calls, Conflict(c)
  PROVE  CountInv'
<1> DEFINE place == IF attempt'[c] = MaxAttempts THEN "failed" ELSE "backoff"
<1>1. attempt[c] \in 0..MaxAttempts /\ attempt[c] < MaxAttempts
  BY DEF Conflict, CountInv, TypeOK, AttemptsLeft
<1>2. /\ attempt' \in [Calls -> 0..MaxAttempts]
      /\ attempt'[c] = attempt[c] + 1
      /\ \A q \in Calls : q # c => attempt'[q] = attempt[q]
  BY <1>1, GateAssumption DEF Conflict, CountInv, TypeOK
<1>3. place = "backoff" => attempt'[c] < MaxAttempts
  BY <1>1, <1>2, GateAssumption
<1>4. /\ Release(c, place) /\ at[c] = "holding" /\ MayFail(c)
      /\ place \in {"done", "failed", "backoff"}
  BY DEF Conflict, MayConflict, MayFail
<1> HIDE DEF place
<1> QED
  BY <1>2, <1>3, <1>4, ReleaseKeeps

\* The counters and the queue, whatever call takes a step.
LEMMA CountNext ==
  GateInv /\ [Next]_vars => CountInv'
<1> SUFFICES ASSUME CountInv, NestedInside, [Next]_vars PROVE CountInv'
  BY DEF GateInv
<1> USE CallFacts
<1>0. /\ "acquire" \in Places /\ "acquire" \notin HoldingPlaces \cup {"waiting"}
      /\ 0 \in 0..MaxAttempts /\ 0 < MaxAttempts
      /\ at \in [Calls -> Places] /\ attempt \in [Calls -> 0..MaxAttempts]
  BY GateAssumption DEF HoldingPlaces, Places, CountInv, TypeOK
<1>1. ASSUME NEW p \in Requests, Arrive(p) PROVE CountInv'
  <2>1. Outer(p) \in Calls /\ at[Outer(p)] \notin HoldingPlaces \cup {"waiting"}
    BY <1>1 DEF Arrive, HoldingPlaces
  <2>2. /\ attempt' \in [Calls -> 0..MaxAttempts] /\ attempt'[Outer(p)] = 0
        /\ \A q \in Calls : q # Outer(p) => attempt'[q] = attempt[q]
    BY <1>0, <1>1, <2>1 DEF Arrive
  <2> QED
    BY <1>0, <1>1, <2>1, <2>2, PlainMove DEF Arrive
<1>2. ASSUME NEW c \in Calls, Nest(c) PROVE CountInv'
  <2> DEFINE inner == Inner(c[1])
  <2>1. inner \in Calls /\ at[inner] \notin HoldingPlaces \cup {"waiting"}
    BY <1>2 DEF Nest, HoldingPlaces
  <2>2. /\ attempt' \in [Calls -> 0..MaxAttempts] /\ attempt'[inner] = 0
        /\ \A q \in Calls : q # inner => attempt'[q] = attempt[q]
    BY <1>0, <1>2, <2>1 DEF Nest
  <2> QED
    BY <1>0, <1>2, <2>1, <2>2, PlainMove DEF Nest
<1>3. ASSUME NEW c \in Calls, Finish(c) PROVE CountInv'
  <2>1. attempt' \in [Calls -> 0..MaxAttempts] /\ attempt' = attempt
    BY <1>0, <1>3 DEF Finish
  <2>2. MayCommit(c) => MayFail(c)
    BY DEF MayCommit, MayFail, NestedInside
  <2>3. PICK place \in {"done", "failed"} : MayFail(c) /\ Release(c, place)
    BY <1>3, <2>2 DEF Finish
  <2>4. at[c] = "holding"
    BY <1>3 DEF Finish
  <2> QED
    BY <2>1, <2>3, <2>4, ReleaseKeeps
<1>4. ASSUME NEW c \in Calls, Retry(c) PROVE CountInv'
  <2>1. attempt' \in [Calls -> 0..MaxAttempts] /\ attempt' = attempt /\ attempt[c] < MaxAttempts
    BY <1>4 DEF Retry, CountInv, TypeOK, AttemptsLeft
  <2>2. at[c] \notin HoldingPlaces \cup {"waiting"}
    BY <1>4 DEF Retry, HoldingPlaces
  <2> QED
    BY <1>0, <1>4, <2>1, <2>2, PlainMove DEF Retry
<1>5. CASE UNCHANGED vars
  BY <1>5 DEF vars, CountInv, TypeOK, AttemptsLeft, SlotsMatchHolders, Holders, WaitersAreWaiting,
              NobodyWaitsForFreeSlot
<1> QED
  BY <1>1, <1>2, <1>3, <1>4, <1>5, AcquireKeeps, TimeOutKeeps, ResumeKeeps, ConflictKeeps
     DEF Next, Step

\* Where calls stand after a call has left its slot.
LEMMA ReleaseMoves ==
  ASSUME CountInv, NEW c \in Calls, NEW place \in Places, Release(c, place)
  PROVE  \A d \in Calls : \/ at'[d] = "granted" /\ at[d] = "waiting"
                         \/ at'[d] = IF d = c THEN place
                                     ELSE IF d = Inner(c[1]) THEN "idle" ELSE at[d]
<1> DEFINE left == Left(c, place)
<1>1. /\ left \in [Calls -> Places]
      /\ \A d \in Calls : left[d] =
           IF d = c THEN place ELSE IF d = Inner(c[1]) THEN "idle" ELSE at[d]
  BY LeftFacts DEF CountInv, TypeOK
<1>2. CASE waiters = <<>>
  BY <1>1, <1>2 DEF Release
<1>3. CASE waiters # <<>>
  <2>1. at' = [left EXCEPT ![Head(waiters)] = "granted"]
    BY <1>3 DEF Release
  <2> HIDE DEF left
  <2>2. Head(waiters) \in Calls /\ at[Head(waiters)] = "waiting"
    BY <1>3, QueueShape, TailKeeps
  <2> QED
    BY <1>1, <2>1, <2>2
<1> QED
  BY <1>2, <1>3

\* A regeneration keeps its slot as long as its inner call is there.
LEMMA NestedNext ==
  GateInv /\ [Next]_vars => NestedInside'
<1> SUFFICES ASSUME CountInv, NestedInside, [Next]_vars,
                    NEW p \in Requests, at'[Inner(p)] # "idle"
             PROVE  p \in Regenerations /\ at'[Outer(p)] = "holding"
  BY DEF GateInv, NestedInside
<1> USE CallFacts
<1>0. at \in [Calls -> Places]
  BY DEF CountInv, TypeOK
<1>1. ASSUME NEW q \in Requests, Arrive(q) PROVE p \in Regenerations /\ at'[Outer(p)] = "holding"
  BY <1>0, <1>1 DEF Arrive, NestedInside
<1>2. ASSUME NEW c \in Calls, Nest(c) PROVE p \in Regenerations /\ at'[Outer(p)] = "holding"
  BY <1>0, <1>2 DEF Nest, NestedInside
<1>3. ASSUME NEW c \in Calls, Acquire(c) \/ Resume(c) \/ Retry(c) \/ TimeOut(c)
      PROVE  p \in Regenerations /\ at'[Outer(p)] = "holding"
  BY <1>0, <1>3 DEF Acquire, Resume, Retry, TimeOut, NestedInside
<1>4. ASSUME NEW c \in Calls, Finish(c) \/ Conflict(c)
      PROVE  p \in Regenerations /\ at'[Outer(p)] = "holding"
  <2>1. PICK place \in {"done", "failed", "backoff"} : Release(c, place) /\ at[c] = "holding"
    BY <1>4 DEF Finish, Conflict
  <2>2. \A d \in Calls : \/ at'[d] = "granted" /\ at[d] = "waiting"
                        \/ at'[d] = IF d = c THEN place
                                    ELSE IF d = Inner(c[1]) THEN "idle" ELSE at[d]
    BY <2>1, ReleaseMoves DEF Places
  <2>3. CASE c = Outer(p)
    <3>1. at[Inner(p)] # "waiting"
      BY <1>4, <2>3 DEF Finish, Conflict, MayCommit, MayFail, MayConflict, NestedInside
    <3> QED
      BY <2>2, <2>3, <3>1
  <2>4. CASE c # Outer(p)
    <3>1. at[Inner(p)] # "idle"
      BY <2>1, <2>2, <2>4
    <3>2. p \in Regenerations /\ at[Outer(p)] = "holding"
      BY <3>1 DEF NestedInside
    <3> QED
      BY <2>2, <2>4, <3>2
  <2> QED
    BY <2>3, <2>4
<1>5. CASE UNCHANGED vars
  BY <1>5 DEF vars, NestedInside
<1> QED
  BY <1>1, <1>2, <1>3, <1>4, <1>5 DEF Next, Step

LEMMA GateNext ==
  GateInv /\ [Next]_vars => GateInv'
BY CountNext, NestedNext DEF GateInv

-----------------------------------------------------------------------------
(* The theorems. *)

\* Slots are neither leaked nor used twice, the queue holds exactly the calls
\* that wait, and nobody waits while a slot is free (the hand-over of
\* acquireSerializableTransactionSlot and its release), for any number of requests
\* and whichever of them call the gate again from inside their transaction.
THEOREM GateKeeps ==
  Spec => [](TypeOK /\ SlotsMatchHolders /\ WaitersAreWaiting /\ NobodyWaitsForFreeSlot)
<1>1. GateInv => TypeOK /\ SlotsMatchHolders /\ WaitersAreWaiting /\ NobodyWaitsForFreeSlot
  BY DEF GateInv, CountInv
<1> QED
  BY <1>1, GateInit, GateNext, PTL DEF Spec

\* No call waits while a slot is free: neither a release nor the timeout of
\* another waiter leaves one behind (release hands the slot over).
THEOREM NobodyForgotten ==
  Spec => []NobodyWaitsForFreeSlot
BY GateKeeps, PTL

\* The slot of the gate goes to the call that waits longest: neither a
\* newcomer nor a retry nor a nested call overtakes (release grants the first
\* waiter, and the counter stays at its limit meanwhile).
THEOREM GateIsFair ==
  Spec => NoOvertaking
<1> DEFINE InOrder == \A c \in Calls :
             at[c] \notin HoldingPlaces /\ at'[c] \in HoldingPlaces
               => waiters = <<>> \/ Head(waiters) = c
<1>1. ASSUME GateInv, [Next]_vars PROVE [InOrder]_vars
  <2> SUFFICES ASSUME Next, NEW c \in Calls,
                      at[c] \notin HoldingPlaces, at'[c] \in HoldingPlaces, waiters # <<>>
               PROVE  Head(waiters) = c
    BY <1>1
  <2>1. at \in [Calls -> Places] /\ active = Slots
    BY <1>1 DEF GateInv, CountInv, TypeOK, NobodyWaitsForFreeSlot
  <2>2. ASSUME NEW q \in Calls, Finish(q) \/ Conflict(q) PROVE Head(waiters) = c
    <3>1. PICK place \in {"done", "failed", "backoff"} : Release(q, place)
      BY <2>2 DEF Finish, Conflict
    <3>2. at' = [Left(q, place) EXCEPT ![Head(waiters)] = "granted"]
      BY <3>1 DEF Release
    <3>3. /\ Left(q, place) \in [Calls -> Places]
          /\ \A d \in Calls : Left(q, place)[d] =
               IF d = q THEN place ELSE IF d = Inner(q[1]) THEN "idle" ELSE at[d]
      BY <2>1, LeftFacts DEF Places
    <3> QED
      BY <3>2, <3>3 DEF HoldingPlaces
  <2>3. ASSUME NEW q \in Calls, Acquire(q) PROVE Head(waiters) = c
    BY <2>1, <2>3, GateAssumption DEF Acquire, HoldingPlaces
  <2>4. ASSUME NEW q \in Calls, Nest(q) \/ Resume(q) \/ Retry(q) \/ TimeOut(q)
        PROVE  Head(waiters) = c
    BY <2>1, <2>4 DEF Nest, Resume, Retry, TimeOut, HoldingPlaces
  <2>5. ASSUME NEW p \in Requests, Arrive(p) PROVE Head(waiters) = c
    BY <2>1, <2>5 DEF Arrive, HoldingPlaces
  <2> QED
    BY <2>2, <2>3, <2>4, <2>5 DEF Next, Step
<1>2. NoOvertaking <=> [][InOrder]_vars
  BY DEF NoOvertaking
<1> QED
  BY <1>1, <1>2, GateInit, GateNext, PTL DEF Spec

-----------------------------------------------------------------------------
(* One slot. *)

\* With one slot an inner call never gets it, as the call around it has it.
NeverInside ==
  Slots = 1 => \A p \in Requests : at[Inner(p)] \in {"idle", "acquire", "waiting", "failed"}

LEMMA OneHolder ==
  ASSUME CountInv, Slots = 1, NEW c \in Holders, NEW d \in Holders
  PROVE  c = d
<1>1. SUFFICES ASSUME c # d PROVE FALSE
  OBVIOUS
<1>2. /\ IsFiniteSet(Holders \ {c}) /\ Cardinality(Holders \ {c}) = Cardinality(Holders) - 1
      /\ Cardinality(Holders) = active /\ active \in 0..1
  BY HoldersFinite, FS_RemoveElement DEF CountInv, TypeOK, SlotsMatchHolders
<1>3. d \in Holders \ {c}
  BY <1>1
<1>4. Cardinality(Holders \ {c}) \in Nat \ {0}
  BY <1>2, <1>3, HolderRemoved
<1> QED
  BY <1>2, <1>4

LEMMA NeverInsideNext ==
  GateInv /\ NeverInside /\ [Next]_vars => NeverInside'
<1> SUFFICES ASSUME CountInv, NestedInside, NeverInside, [Next]_vars, Slots = 1, NEW p \in Requests
             PROVE  at'[Inner(p)] \in {"idle", "acquire", "waiting", "failed"}
  BY DEF GateInv, NeverInside
<1> USE CallFacts
<1>0. /\ at \in [Calls -> Places]
      /\ at[Inner(p)] \in {"idle", "acquire", "waiting", "failed"}
  BY DEF CountInv, TypeOK, NeverInside
<1>1. ASSUME NEW q \in Requests, Arrive(q)
      PROVE  at'[Inner(p)] \in {"idle", "acquire", "waiting", "failed"}
  BY <1>0, <1>1 DEF Arrive
<1>2. ASSUME NEW c \in Calls, Nest(c) \/ Resume(c) \/ Retry(c) \/ TimeOut(c)
      PROVE  at'[Inner(p)] \in {"idle", "acquire", "waiting", "failed"}
  BY <1>0, <1>2 DEF Nest, Resume, Retry, TimeOut
<1>3. ASSUME NEW c \in Calls, Acquire(c)
      PROVE  at'[Inner(p)] \in {"idle", "acquire", "waiting", "failed"}
  <2>1. CASE c # Inner(p)
    BY <1>0, <1>3, <2>1 DEF Acquire
  <2>2. CASE c = Inner(p)
    <3>1. Outer(p) \in Holders
      BY <1>3, <2>2 DEF Acquire, NestedInside, Holders, HoldingPlaces
    <3>2. active \in Nat \ {0}
      BY <3>1, HoldersFinite, HolderRemoved DEF CountInv, SlotsMatchHolders
    <3> QED
      BY <1>0, <1>3, <2>2, <3>2 DEF Acquire
  <2> QED
    BY <2>1, <2>2
<1>4. ASSUME NEW c \in Calls, Finish(c) \/ Conflict(c)
      PROVE  at'[Inner(p)] \in {"idle", "acquire", "waiting", "failed"}
  <2>1. PICK place \in {"done", "failed", "backoff"} : Release(c, place) /\ at[c] = "holding"
    BY <1>4 DEF Finish, Conflict
  <2>2. \A d \in Calls : \/ at'[d] = "granted" /\ at[d] = "waiting"
                        \/ at'[d] = IF d = c THEN place
                                    ELSE IF d = Inner(c[1]) THEN "idle" ELSE at[d]
    BY <2>1, ReleaseMoves DEF Places
  <2>3. c # Inner(p)
    BY <1>0, <2>1
  <2>4. at[Inner(p)] # "waiting"
    <3>1. SUFFICES ASSUME at[Inner(p)] = "waiting" PROVE FALSE
      OBVIOUS
    <3>2. Outer(p) \in Holders /\ c \in Holders
      BY <2>1, <3>1 DEF NestedInside, Holders, HoldingPlaces
    <3>3. c = Outer(p)
      BY <3>2, OneHolder
    <3> QED
      BY <1>4, <3>1, <3>3 DEF Finish, Conflict, MayCommit, MayFail, MayConflict, NestedInside
  <2> QED
    BY <1>0, <2>2, <2>3, <2>4
<1>5. CASE UNCHANGED vars
  BY <1>0, <1>5 DEF vars
<1> QED
  BY <1>1, <1>2, <1>3, <1>4, <1>5 DEF Next, Step

\* With a single slot, which is what the deployment files set, no regeneration ever
\* succeeds: whatever the requests, the timers and the conflicts do, the transaction
\* around the inner call keeps the slot that call would need (consumeGenerationTicket
\* runs regenerateStage's operation inside its own serializable transaction).
THEOREM OneSlotAdmitsNone ==
  Spec => []OneSlotRefusesRegenerations
<1> DEFINE Refused == NeverInside /\ OneSlotRefusesRegenerations
<1>1. Init => Refused
  BY CallFacts, GateAssumption DEF Init, NeverInside, OneSlotRefusesRegenerations
<1>2. GateInv /\ Refused /\ [Next]_vars => OneSlotRefusesRegenerations'
  <2> SUFFICES ASSUME CountInv, NeverInside, OneSlotRefusesRegenerations, [Next]_vars,
                      Slots = 1, NEW p \in Regenerations
               PROVE  at'[Outer(p)] # "done"
    BY DEF GateInv, OneSlotRefusesRegenerations
  <2> USE CallFacts
  <2>0. p \in Requests /\ at \in [Calls -> Places] /\ at[Outer(p)] # "done" /\ at[Inner(p)] # "done"
    BY GateAssumption DEF CountInv, TypeOK, NeverInside, OneSlotRefusesRegenerations
  <2>1. ASSUME NEW q \in Requests, Arrive(q) PROVE at'[Outer(p)] # "done"
    BY <2>0, <2>1 DEF Arrive
  <2>2. ASSUME NEW c \in Calls, Acquire(c) \/ Nest(c) \/ Resume(c) \/ Retry(c) \/ TimeOut(c)
        PROVE  at'[Outer(p)] # "done"
    BY <2>0, <2>2 DEF Acquire, Nest, Resume, Retry, TimeOut
  <2>3. ASSUME NEW c \in Calls, Finish(c) \/ Conflict(c) PROVE at'[Outer(p)] # "done"
    <3>1. PICK place \in {"done", "failed", "backoff"} :
            Release(c, place) /\ (place = "done" => MayCommit(c))
      BY <2>3 DEF Finish, Conflict
    <3>2. \A d \in Calls : \/ at'[d] = "granted" /\ at[d] = "waiting"
                          \/ at'[d] = IF d = c THEN place
                                      ELSE IF d = Inner(c[1]) THEN "idle" ELSE at[d]
      BY <3>1, ReleaseMoves DEF Places
    <3>3. c = Outer(p) => place # "done"
      BY <2>0, <3>1 DEF MayCommit
    <3> QED
      BY <2>0, <3>2, <3>3
  <2>4. CASE UNCHANGED vars
    BY <2>0, <2>4 DEF vars
  <2> QED
    BY <2>1, <2>2, <2>3, <2>4 DEF Next, Step
<1>3. GateInv /\ Refused /\ [Next]_vars => Refused'
  BY <1>2, NeverInsideNext
<1>4. Refused => OneSlotRefusesRegenerations
  OBVIOUS
<1> HIDE DEF Refused
<1> QED
  BY <1>1, <1>3, <1>4, GateInit, GateNext, PTL DEF Spec
=============================================================================
