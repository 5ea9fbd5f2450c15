----------------------- MODULE AccountSessionsProofs -----------------------
(***************************************************************************)
(* Proofs about AccountSessions for any number of browsers, names,         *)
(* passwords and sessions, any size of the hashing pool and any limits on  *)
(* the attempts.                                                           *)
(***************************************************************************)
EXTENDS AccountSessions, TLAPS, SequenceTheorems, FiniteSetTheorems

LEMMA Bounds ==
  /\ Slots \in Nat \ {0} /\ QueueLimit \in Nat /\ MaxSessions \in Nat /\ MaxResets \in Nat
  /\ NoOne \notin Legacy /\ NoOne \notin Clients /\ NoOne \notin Names /\ NoOne \notin Hashes
  /\ "tool" \notin Clients /\ NoOne # "tool"
BY AccountAssumption

-----------------------------------------------------------------------------
(* The hashing pool.                                                       *)

\* Who computes a hash, who waits, and what the counter and the queue say of it.
PoolInv ==
  /\ client \in [Clients -> ClientType]
  /\ active \in 0..Slots
  /\ waiters \in Seq(Clients) /\ Len(waiters) <= QueueLimit
  /\ \A i, j \in DOMAIN waiters : waiters[i] = waiters[j] => i = j
  /\ IsFiniteSet(Hashing)
  /\ PoolMatchesHashing

LEMMA StatesOfRequests ==
  /\ Idle \in ClientType /\ Idle.at = "idle"
  /\ AttemptType \subseteq ClientType
  /\ \A x \in ClientType : x.at = "wait" => x.next \in AttemptType /\ x.next.at \in HashingStates
  /\ \A a \in AttemptType : a.at \in HashingStates => /\ [at |-> "wait", next |-> a] \in ClientType
                                                      /\ [at |-> "wait", next |-> a].at = "wait"
<1>1. Idle \in ClientType /\ Idle.at = "idle" /\ AttemptType \subseteq ClientType
  BY DEF ClientType, Idle
<1>2. \A a \in AttemptType : a.at # "wait"
  BY DEF AttemptType, Attempt
<1>3. \A x \in ClientType : x.at = "wait" => x.next \in AttemptType /\ x.next.at \in HashingStates
  BY <1>1, <1>2 DEF ClientType
<1>4. \A a \in AttemptType : a.at \in HashingStates => /\ [at |-> "wait", next |-> a] \in ClientType
                                                       /\ [at |-> "wait", next |-> a].at = "wait"
  BY DEF ClientType
<1> QED BY <1>1, <1>3, <1>4

LEMMA InRange ==
  ASSUME NEW s PROVE \A x : x \in Range(s) <=> \E i \in DOMAIN s : s[i] = x
BY DEF Range

\* A request moves on without the pool.
LEMMA RequestMoves ==
  ASSUME PoolInv, NEW c \in Clients, NEW x \in ClientType,
         client' = [client EXCEPT ![c] = x], UNCHANGED pool,
         client[c].at \notin HashingStates \cup {"wait"}, x.at \notin HashingStates \cup {"wait"}
  PROVE  PoolInv'
<1>1. client' \in [Clients -> ClientType] /\ UNCHANGED <<active, waiters>>
  BY DEF PoolInv, pool
<1>2. Hashing' = Hashing /\ Waiting' = Waiting
  BY DEF PoolInv, Hashing, Waiting
<1> QED BY <1>1, <1>2 DEF PoolInv, PoolMatchesHashing

\* acquire keeps the pool right.
LEMMA EnterKeepsPool ==
  ASSUME PoolInv, NEW c \in Clients, NEW state \in AttemptType, state.at \in HashingStates,
         client[c].at \notin HashingStates \cup {"wait"}, Enter(c, state)
  PROVE  PoolInv'
<1>0. /\ client \in [Clients -> ClientType] /\ active \in 0..Slots /\ active \in Nat
      /\ waiters \in Seq(Clients) /\ Len(waiters) \in Nat
      /\ IsFiniteSet(Hashing) /\ active = Cardinality(Hashing) /\ Waiting = Range(waiters)
      /\ waiters # <<>> => active = Slots
  BY Bounds DEF PoolInv, PoolMatchesHashing
<1>1. CASE active < Slots
  <2>1. active' = active + 1 /\ waiters' = waiters /\ client' = [client EXCEPT ![c] = state]
    BY <1>1 DEF Enter
  <2>2. client' \in [Clients -> ClientType]
    BY <1>0, <2>1, StatesOfRequests
  <2>3. Hashing' = Hashing \cup {c} /\ c \notin Hashing /\ Waiting' = Waiting
    BY <1>0, <2>1 DEF Hashing, Waiting, HashingStates
  <2>4. IsFiniteSet(Hashing') /\ Cardinality(Hashing') = Cardinality(Hashing) + 1
    BY <1>0, <2>3, FS_AddElement
  <2>5. active' \in 0..Slots
    BY <1>0, <1>1, <2>1, Bounds
  <2>6. waiters = <<>>
    BY <1>0, <1>1
  <2> QED BY <1>0, <2>1, <2>2, <2>3, <2>4, <2>5, <2>6 DEF PoolInv, PoolMatchesHashing
<1>2. CASE ~(active < Slots) /\ Len(waiters) < QueueLimit
  <2>1. /\ active' = active /\ waiters' = Append(waiters, c)
        /\ client' = [client EXCEPT ![c] = [at |-> "wait", next |-> state]]
    BY <1>2 DEF Enter
  <2>2. client' \in [Clients -> ClientType]
    BY <1>0, <2>1, StatesOfRequests
  <2>3. Hashing' = Hashing /\ c \notin Waiting /\ Waiting' = Waiting \cup {c}
    BY <1>0, <2>1 DEF Hashing, Waiting, HashingStates
  <2>4. /\ waiters' \in Seq(Clients) /\ Len(waiters') = Len(waiters) + 1
        /\ waiters'[Len(waiters) + 1] = c
        /\ \A i \in 1..Len(waiters) : waiters'[i] = waiters[i]
        /\ DOMAIN waiters = 1..Len(waiters) /\ DOMAIN waiters' = 1..(Len(waiters) + 1)
    BY <1>0, <2>1
  <2>5. Range(waiters') = Range(waiters) \cup {c}
    BY <1>0, <2>4 DEF Range
  <2>6. \A i \in 1..Len(waiters) : waiters[i] # c
    BY <1>0, <2>3, <2>4 DEF Range
  <2>7. \A i, j \in DOMAIN waiters' : waiters'[i] = waiters'[j] => i = j
    BY <1>0, <2>4, <2>6 DEF PoolInv
  <2>8. active = Slots
    BY <1>0, <1>2, Bounds
  <2> QED BY <1>0, <1>2, <2>1, <2>2, <2>3, <2>4, <2>5, <2>7, <2>8, Bounds
          DEF PoolInv, PoolMatchesHashing
<1>3. CASE ~(active < Slots) /\ ~(Len(waiters) < QueueLimit)
  <2>1. client' = [client EXCEPT ![c] = Idle] /\ UNCHANGED pool
    BY <1>3 DEF Enter
  <2> QED BY <2>1, RequestMoves, StatesOfRequests DEF HashingStates
<1> QED BY <1>1, <1>2, <1>3

\* release keeps the pool right: the slot passes to the first waiter.
LEMMA LeaveKeepsPool ==
  ASSUME PoolInv, NEW c \in Clients, NEW x \in ClientType, x.at \notin HashingStates \cup {"wait"},
         client[c].at \in HashingStates, Leave(c, x)
  PROVE  PoolInv'
<1>0. /\ client \in [Clients -> ClientType] /\ active \in Nat /\ Slots \in Nat /\ active <= Slots
      /\ waiters \in Seq(Clients) /\ Len(waiters) \in Nat
      /\ IsFiniteSet(Hashing) /\ active = Cardinality(Hashing) /\ Waiting = Range(waiters)
      /\ waiters # <<>> => active = Slots
  BY Bounds DEF PoolInv, PoolMatchesHashing
<1>1. c \in Hashing
  BY DEF Hashing
<1>2. IsFiniteSet(Hashing \ {c}) /\ Cardinality(Hashing \ {c}) = active - 1 /\ active # 0
  <2>1. Hashing # {}
    BY <1>1
  <2> QED BY <1>0, <1>1, <2>1, FS_RemoveElement, FS_EmptySet
<1>3. CASE waiters = <<>>
  <2>1. active' = active - 1 /\ waiters' = waiters /\ client' = [client EXCEPT ![c] = x]
    BY <1>3 DEF Leave
  <2>2. client' \in [Clients -> ClientType]
    BY <1>0, <2>1
  <2>3. Hashing' = Hashing \ {c} /\ Waiting' = Waiting
    BY <1>0, <2>1 DEF Hashing, Waiting, HashingStates
  <2>4. active' \in 0..Slots
    BY <1>0, <1>2, <2>1
  <2> QED BY <1>0, <1>2, <1>3, <2>1, <2>2, <2>3, <2>4 DEF PoolInv, PoolMatchesHashing
<1>4. CASE waiters # <<>>
  <2> DEFINE h == Head(waiters)
  <2>1. /\ active' = active /\ waiters' = Tail(waiters)
        /\ client' = [client EXCEPT ![c] = x, ![h] = client[h].next]
    BY <1>4 DEF Leave
  <2>2. /\ DOMAIN waiters = 1..Len(waiters) /\ 1 \in DOMAIN waiters /\ h = waiters[1] /\ h \in Clients
        /\ Tail(waiters) \in Seq(Clients) /\ Len(Tail(waiters)) = Len(waiters) - 1
        /\ DOMAIN Tail(waiters) = 1..(Len(waiters) - 1)
        /\ \A i \in 1..(Len(waiters) - 1) : Tail(waiters)[i] = waiters[i + 1]
    BY <1>0, <1>4
  <2>3. h \in Waiting
    BY <1>0, <2>2 DEF Range
  <2>4. /\ client[h].at = "wait" /\ client[h].next \in ClientType
        /\ client[h].next.at \in HashingStates /\ client[h].next.at # "wait" /\ h # c
    BY <1>0, <2>2, <2>3, StatesOfRequests DEF Waiting, HashingStates
  <2> HIDE DEF h
  <2>5. /\ client' \in [Clients -> ClientType] /\ client'[c] = x /\ client'[h] = client[h].next
        /\ \A d \in Clients \ {c, h} : client'[d] = client[d]
    BY <1>0, <2>1, <2>2, <2>4
  <2>6. Hashing' = (Hashing \ {c}) \cup {h} /\ h \notin Hashing \ {c} /\ Waiting' = Waiting \ {h}
    BY <2>2, <2>4, <2>5 DEF Hashing, Waiting, HashingStates
  <2>7. IsFiniteSet(Hashing') /\ Cardinality(Hashing') = active
    <3>1. IsFiniteSet(Hashing') /\ Cardinality(Hashing') = (active - 1) + 1
      BY <1>2, <2>6, FS_AddElement
    <3> QED BY <1>0, <3>1
  <2>8. \A i, j \in DOMAIN waiters : waiters[i] = waiters[j] => i = j
    BY DEF PoolInv
  <2>9. Range(Tail(waiters)) = Range(waiters) \ {h}
    <3>1. ASSUME NEW i \in 1..(Len(waiters) - 1)
          PROVE  i + 1 \in 1..Len(waiters) /\ Tail(waiters)[i] = waiters[i + 1] /\ waiters[i + 1] # h
      BY <1>0, <2>2, <2>8
    <3>2. ASSUME NEW i \in 1..Len(waiters), waiters[i] # h
          PROVE  i - 1 \in 1..(Len(waiters) - 1) /\ Tail(waiters)[i - 1] = waiters[i]
      BY <1>0, <2>2, <3>2
    <3>3. ASSUME NEW y \in Range(Tail(waiters)) PROVE y \in Range(waiters) \ {h}
      <4>1. PICK i \in DOMAIN Tail(waiters) : Tail(waiters)[i] = y
        BY DEF Range
      <4> QED BY <2>2, <3>1, <4>1, InRange
    <3>4. ASSUME NEW y \in Range(waiters) \ {h} PROVE y \in Range(Tail(waiters))
      <4>1. PICK i \in 1..Len(waiters) : waiters[i] = y
        BY <2>2, InRange
      <4> QED BY <2>2, <3>2, <4>1, InRange
    <3> QED BY <3>3, <3>4
  <2>10. \A i, j \in DOMAIN waiters' : waiters'[i] = waiters'[j] => i = j
    BY <1>0, <2>1, <2>2, <2>8
  <2>11. Len(waiters') <= QueueLimit
    BY <1>0, <2>1, <2>2, Bounds DEF PoolInv
  <2> QED BY <1>0, <1>4, <2>1, <2>2, <2>5, <2>6, <2>7, <2>9, <2>10, <2>11
          DEF PoolInv, PoolMatchesHashing
<1> QED BY <1>3, <1>4

\* A waiter that gives up leaves no trace in the queue.
LEMMA TimeoutKeepsPool ==
  ASSUME PoolInv, NEW c \in Clients, WaitTimesOut(c)
  PROVE  PoolInv'
<1>0. /\ client \in [Clients -> ClientType] /\ waiters \in Seq(Clients) /\ Len(waiters) \in Nat
      /\ Waiting = Range(waiters) /\ waiters # <<>> => active = Slots
      /\ DOMAIN waiters = 1..Len(waiters)
      /\ \A i, j \in DOMAIN waiters : waiters[i] = waiters[j] => i = j
  BY DEF PoolInv, PoolMatchesHashing
<1>1. PICK i \in 1..Len(waiters) : waiters[i] = c /\ waiters' = RemoveAt(waiters, i)
  BY <1>0 DEF WaitTimesOut
<1>2. /\ client' = [client EXCEPT ![c] = Idle] /\ active' = active /\ client[c].at = "wait"
  BY DEF WaitTimesOut
<1> DEFINE front == SubSeq(waiters, 1, i - 1)
           back == SubSeq(waiters, i + 1, Len(waiters))
<1>3. /\ front \in Seq(Clients) /\ Len(front) = i - 1 /\ \A k \in 1..(i - 1) : front[k] = waiters[k]
      /\ back \in Seq(Clients) /\ Len(back) = Len(waiters) - i
      /\ \A k \in 1..(Len(waiters) - i) : back[k] = waiters[i + k]
  <2>0. i - 1 \in Int /\ i + 1 \in Int /\ 1 \in Int /\ Len(waiters) \in Int
        /\ \A k \in 1..Len(waiters) : waiters[k] \in Clients
    BY <1>0, <1>1
  <2>1. /\ front \in Seq(Clients) /\ Len(front) = IF 1 <= i - 1 THEN (i - 1) - 1 + 1 ELSE 0
        /\ \A k \in 1..((i - 1) - 1 + 1) : front[k] = waiters[1 + k - 1]
    <3>1. \A k \in 1..(i - 1) : waiters[k] \in Clients
      BY <1>0, <1>1, <2>0
    <3> QED BY <2>0, <3>1, SubSeqProperties
  <2>2. /\ back \in Seq(Clients)
        /\ Len(back) = IF i + 1 <= Len(waiters) THEN Len(waiters) - (i + 1) + 1 ELSE 0
        /\ \A k \in 1..(Len(waiters) - (i + 1) + 1) : back[k] = waiters[(i + 1) + k - 1]
    <3>1. \A k \in (i + 1)..Len(waiters) : waiters[k] \in Clients
      BY <1>0, <1>1, <2>0
    <3> QED BY <2>0, <3>1, SubSeqProperties
  <2> HIDE DEF front, back
  <2>3. Len(front) = i - 1 /\ Len(back) = Len(waiters) - i
    <3>0. i \in Int /\ Len(waiters) \in Int /\ 1 <= i /\ i <= Len(waiters)
      BY <1>0, <1>1
    <3>1. Len(front) = i - 1
      <4>1. CASE 1 <= i - 1
        <5>1. Len(front) = (i - 1) - 1 + 1
          BY <2>1, <4>1
        <5> QED BY <3>0, <5>1
      <4>2. CASE ~(1 <= i - 1)
        <5>1. Len(front) = 0
          BY <2>1, <4>2
        <5> QED BY <3>0, <4>2, <5>1
      <4> QED BY <4>1, <4>2
    <3>2. Len(back) = Len(waiters) - i
      <4>1. CASE i + 1 <= Len(waiters)
        <5>1. Len(back) = Len(waiters) - (i + 1) + 1
          BY <2>2, <4>1
        <5> QED BY <3>0, <5>1
      <4>2. CASE ~(i + 1 <= Len(waiters))
        <5>1. Len(back) = 0
          BY <2>2, <4>2
        <5> QED BY <3>0, <4>2, <5>1
      <4> QED BY <4>1, <4>2
    <3> QED BY <3>1, <3>2
  <2>4. ASSUME NEW k \in 1..(i - 1) PROVE front[k] = waiters[k]
    <3>1. k \in 1..((i - 1) - 1 + 1) /\ 1 + k - 1 = k
      BY <1>0, <1>1
    <3> QED BY <2>1, <3>1
  <2>5. ASSUME NEW k \in 1..(Len(waiters) - i) PROVE back[k] = waiters[i + k]
    <3>1. k \in 1..(Len(waiters) - (i + 1) + 1) /\ (i + 1) + k - 1 = i + k
      BY <1>0, <1>1
    <3> QED BY <2>2, <3>1
  <2> QED BY <2>1, <2>2, <2>3, <2>4, <2>5
<1>4. /\ waiters' \in Seq(Clients) /\ Len(waiters') = Len(waiters) - 1
      /\ DOMAIN waiters' = 1..(Len(waiters) - 1)
      /\ \A k \in 1..(Len(waiters) - 1) : waiters'[k] = waiters[IF k < i THEN k ELSE k + 1]
  <2>1. waiters' = front \o back
    BY <1>1 DEF RemoveAt
  <2> HIDE DEF front, back
  <2>2. /\ front \o back \in Seq(Clients) /\ Len(front \o back) = Len(front) + Len(back)
        /\ \A k \in 1..(Len(front) + Len(back)) :
             (front \o back)[k] = IF k <= Len(front) THEN front[k] ELSE back[k - Len(front)]
    BY <1>3, ConcatProperties
  <2>3. Len(front) + Len(back) = Len(waiters) - 1
    BY <1>0, <1>1, <1>3
  <2>4. ASSUME NEW k \in 1..(Len(waiters) - 1) PROVE waiters'[k] = waiters[IF k < i THEN k ELSE k + 1]
    <3>1. CASE k < i
      BY <1>0, <1>1, <1>3, <2>1, <2>2, <2>3, <3>1
    <3>2. CASE ~(k < i)
      <4>1. k - (i - 1) \in 1..(Len(waiters) - i) /\ i + (k - (i - 1)) = k + 1
        BY <1>0, <1>1, <3>2
      <4> QED BY <1>0, <1>1, <1>3, <2>1, <2>2, <2>3, <3>2, <4>1
    <3> QED BY <3>1, <3>2
  <2> QED BY <2>1, <2>2, <2>3, <2>4
<1> HIDE DEF front, back
<1>m. \A k \in 1..(Len(waiters) - 1) :
        \E m \in 1..Len(waiters) : m # i /\ m = (IF k < i THEN k ELSE k + 1) /\ waiters'[k] = waiters[m]
  BY <1>0, <1>1, <1>4
<1>5. \A k, l \in DOMAIN waiters' : waiters'[k] = waiters'[l] => k = l
  <2> SUFFICES ASSUME NEW k \in 1..(Len(waiters) - 1), NEW l \in 1..(Len(waiters) - 1),
                      waiters'[k] = waiters'[l]
               PROVE  k = l
    BY <1>4
  <2>1. PICK m \in 1..Len(waiters) : m = (IF k < i THEN k ELSE k + 1) /\ waiters'[k] = waiters[m]
    BY <1>m
  <2>2. PICK o \in 1..Len(waiters) : o = (IF l < i THEN l ELSE l + 1) /\ waiters'[l] = waiters[o]
    BY <1>m
  <2>3. m = o
    BY <1>0, <2>1, <2>2
  <2> QED BY <1>0, <1>1, <2>1, <2>2, <2>3
<1>6. Range(waiters') = Range(waiters) \ {c}
  <2>1. ASSUME NEW x \in Range(waiters') PROVE x \in Range(waiters) \ {c}
    <3>1. PICK k \in 1..(Len(waiters) - 1) : waiters'[k] = x
      BY <1>4, InRange
    <3>2. PICK m \in 1..Len(waiters) : m # i /\ x = waiters[m]
      BY <1>m, <3>1
    <3>3. x # c
      BY <1>0, <1>1, <3>2
    <3> QED BY <1>0, <3>2, <3>3, InRange
  <2>2. ASSUME NEW x \in Range(waiters) \ {c} PROVE x \in Range(waiters')
    <3>1. PICK l \in 1..Len(waiters) : waiters[l] = x /\ l # i
      BY <1>0, <1>1, InRange
    <3>2. CASE l < i
      <4>1. l \in 1..(Len(waiters) - 1) /\ waiters'[l] = x
        BY <1>0, <1>1, <1>4, <3>1, <3>2
      <4> QED BY <1>4, <4>1, InRange
    <3>3. CASE ~(l < i)
      <4>1. l - 1 \in 1..(Len(waiters) - 1) /\ ~(l - 1 < i) /\ (l - 1) + 1 = l
        BY <1>0, <1>1, <3>1, <3>3
      <4>2. waiters'[l - 1] = x
        BY <1>4, <3>1, <4>1
      <4> QED BY <1>4, <4>1, <4>2, InRange
    <3> QED BY <3>2, <3>3
  <2> QED BY <2>1, <2>2
<1>7. /\ client' \in [Clients -> ClientType] /\ Hashing' = Hashing /\ Waiting' = Waiting \ {c}
  BY <1>0, <1>2, StatesOfRequests DEF Hashing, Waiting, HashingStates
<1>8. waiters # <<>> /\ Len(waiters') <= QueueLimit
  BY <1>0, <1>1, <1>4, Bounds DEF PoolInv
<1> QED BY <1>0, <1>2, <1>4, <1>5, <1>6, <1>7, <1>8 DEF PoolInv, PoolMatchesHashing

-----------------------------------------------------------------------------
(* Type correctness. It needs the pool: the first waiter must be waiting.    *)

\* A set of numbers has a least one.
LEMMA LeastExists ==
  ASSUME NEW S \in SUBSET Nat, S # {}
  PROVE  \E c \in S : \A d \in S : c <= d
<1> DEFINE below == {0..c : c \in S}
<1>1. IsWellFoundedOn(StrictSubsetOrdering(Nat), FiniteSubsetsOf(Nat))
  BY FS_StrictSubsetOrderingWellFounded
<1>2. below \subseteq FiniteSubsetsOf(Nat) /\ below # {}
  <2>1. ASSUME NEW c \in S PROVE 0..c \in FiniteSubsetsOf(Nat)
    <3>1. IsFiniteSet(0..c)
      BY FS_Interval
    <3> QED BY <3>1 DEF FiniteSubsetsOf
  <2> QED BY <2>1
<1>3. PICK low \in below : \A high \in below : <<high, low>> \notin StrictSubsetOrdering(Nat)
  BY <1>1, <1>2, WFMin
<1>4. PICK c \in S : low = 0..c
  OBVIOUS
<1>5. ASSUME NEW d \in S, d < c PROVE FALSE
  <2>1. 0..d \in below /\ 0..d \subseteq low /\ 0..d # low
    BY <1>4, <1>5
  <2>2. <<0..d, low>> \in StrictSubsetOrdering(Nat)
    BY <2>1, <1>4 DEF StrictSubsetOrdering
  <2> QED BY <1>3, <2>1, <2>2
<1> QED BY <1>5

LEMMA NewSessionType ==
  ASSUME FreeIds # {}, NEW n \in Names, NEW e \in 0..MaxResets
  PROVE  /\ NewSession(n, e) \in SessionType
         /\ NewSession(n, e).name = n /\ NewSession(n, e).epoch = e
<1> DEFINE i == CHOOSE i \in FreeIds : \A j \in FreeIds : i <= j
<1>1. FreeIds \in SUBSET Nat /\ FreeIds \subseteq 1..MaxSessions
  BY Bounds DEF FreeIds
<1>2. i \in FreeIds
  <2>1. \E k \in FreeIds : \A j \in FreeIds : k <= j
    BY <1>1, LeastExists
  <2> QED BY <2>1
<1>3. NewSession(n, e) = [id |-> i, name |-> n, epoch |-> e, ended |-> FALSE]
  BY DEF NewSession
<1> HIDE DEF i
<1> QED BY <1>1, <1>2, <1>3 DEF SessionType

LEMMA CountedType ==
  ASSUME throttle \in [Kinds -> CounterType], NEW kind \in Kinds, NEW c \in Clients, NEW n \in Names
  PROVE  Counted(kind, c, n) \in [Kinds -> CounterType]
<1> DEFINE t == throttle[kind]
           by == AdmittedBy(kind, c, n)
           max == Limit[kind]
           next == [client |-> [t.client EXCEPT ![c] = UpTo(max.client, @ + 1)],
                    name   |-> IF by.client THEN [t.name EXCEPT ![n] = UpTo(max.name, @ + 1)] ELSE t.name,
                    all    |-> IF by.name THEN UpTo(max.all, t.all + 1) ELSE t.all]
<1>1. t.client \in [Clients -> Nat] /\ t.name \in [Names -> Nat] /\ t.all \in Nat
  BY DEF CounterType
<1>2. max.client \in Nat /\ max.name \in Nat /\ max.all \in Nat
  BY AccountAssumption
<1>3. \A a, b \in Nat : UpTo(a, b + 1) \in Nat
  BY DEF UpTo
<1>4. Counted(kind, c, n) = [throttle EXCEPT ![kind] = next]
  BY DEF Counted
<1> HIDE DEF t, by, max
<1>5. [t.client EXCEPT ![c] = UpTo(max.client, @ + 1)] \in [Clients -> Nat]
  BY <1>1, <1>2, <1>3
<1>6. [t.name EXCEPT ![n] = UpTo(max.name, @ + 1)] \in [Names -> Nat]
  BY <1>1, <1>2, <1>3
<1>7. next \in CounterType
  BY <1>1, <1>2, <1>3, <1>5, <1>6 DEF CounterType
<1> HIDE DEF next
<1> QED BY <1>4, <1>7

\* What the types say of a request in a given state, and where it may go.
LEMMA AttemptMoves ==
  ASSUME NEW x \in ClientType, x.at \notin {"idle", "wait"}
  PROVE  /\ x \in AttemptType
         /\ x.name \in Names /\ x.typed \in Passwords /\ x.cookie \in Legacy \cup {NoOne}
         /\ x.at \in {"login", "register", "legacy", "hash", "create"} =>
              \A a \in {"login", "register", "legacy", "hash", "create"} :
                [x EXCEPT !.at = a] \in AttemptType /\ [x EXCEPT !.at = a].at = a
         /\ x.at \in {"upgrade", "rehash", "claim", "session"} =>
              /\ x.read \in Hashes
              /\ \A a \in {"upgrade", "rehash", "claim", "session"} :
                   [x EXCEPT !.at = a] \in AttemptType /\ [x EXCEPT !.at = a].at = a
         /\ x.at = "login" => \A h \in Hashes \cup {NoOne} :
              /\ [x EXCEPT !.at = "verify", !.read = h] \in AttemptType
              /\ [x EXCEPT !.at = "verify", !.read = h].at = "verify"
         /\ x.at = "verify" /\ x.read # NoOne => \A a \in {"upgrade", "claim"} :
              [x EXCEPT !.at = a] \in AttemptType /\ [x EXCEPT !.at = a].at = a
<1>1. x \in AttemptType
  BY DEF ClientType, Idle
<1>2. CASE x \in Attempt({"login", "register", "legacy", "hash", "create"}, {NoOne})
  BY <1>1, <1>2 DEF Attempt, AttemptType
<1>3. CASE x \in Attempt({"verify"}, Hashes \cup {NoOne})
  BY <1>1, <1>3 DEF Attempt, AttemptType
<1>4. CASE x \in Attempt({"upgrade", "rehash", "claim", "session"}, Hashes)
  BY <1>1, <1>4 DEF Attempt, AttemptType
<1> QED BY <1>1, <1>2, <1>3, <1>4 DEF AttemptType

\* Who opens a session holds the row of the user it has verified; the reset
\* tool holds the row of the user whose sessions it ends.
RowsHeld ==
  /\ \A c \in Clients : client[c].at = "session" =>
       /\ lock[client[c].name] = c /\ Exists(client[c].name)
       /\ user[client[c].name].hash.epoch = client[c].read.epoch
  /\ reset.at = "revoke" => lock[reset.name] = "tool"

LEMMA AccountInit == Init => TypeOK /\ PoolInv
<1> SUFFICES ASSUME Init PROVE TypeOK /\ PoolInv
  OBVIOUS
<1>1. client \in [Clients -> ClientType] /\ \A c \in Clients : client[c].at = "idle"
  BY StatesOfRequests DEF Init
<1>2. active \in 0..Slots /\ waiters \in Seq(Clients) /\ Len(waiters) <= QueueLimit
  BY Bounds DEF Init
<1>3. user \in [Names -> UserType]
  <2>1. \A w \in Passwords : Hash(w, 0, TRUE) \in Hashes
    BY Bounds DEF Hash, Hashes
  <2>2. {NoUser} \cup {[hash |-> Hash(w, 0, TRUE), visitor |-> NoOne] : w \in Passwords} \subseteq UserType
    <3>1. \A w \in Passwords :
            [hash |-> Hash(w, 0, TRUE), visitor |-> NoOne] \in [hash : Hashes, visitor : Legacy \cup {NoOne}]
      BY <2>1
    <3> QED BY <3>1 DEF UserType
  <2> QED BY <2>2 DEF Init
<1>4. throttle \in [Kinds -> CounterType]
  BY DEF Init, CounterType
<1>5. Hashing = {} /\ Waiting = {}
  BY <1>1 DEF Hashing, Waiting, HashingStates
<1>6. IsFiniteSet({}) /\ Cardinality({}) = 0 /\ Range(<<>>) = {}
  BY FS_EmptySet DEF Range
<1>7. PoolInv
  BY <1>1, <1>2, <1>5, <1>6, Bounds DEF Init, PoolInv, PoolMatchesHashing
<1>8. lock \in [Names -> Clients \cup {NoOne, "tool"}]
  BY DEF Init
<1>9. visitors = Legacy /\ selected = {} /\ sessions = {} /\ reset = Idle /\ resets = 0
  BY DEF Init
<1> QED BY <1>1, <1>2, <1>3, <1>4, <1>7, <1>8, <1>9, Bounds DEF TypeOK

LEMMA AccountStep == TypeOK /\ PoolInv /\ RowsHeld /\ [Next]_vars => TypeOK' /\ PoolInv'
<1> SUFFICES ASSUME TypeOK, PoolInv, RowsHeld, [Next]_vars PROVE TypeOK' /\ PoolInv'
  OBVIOUS
<1>0. /\ client \in [Clients -> ClientType] /\ user \in [Names -> UserType]
      /\ lock \in [Names -> Clients \cup {NoOne, "tool"}] /\ sessions \subseteq SessionType
      /\ resets \in 0..MaxResets
  BY DEF TypeOK
<1>k. ASSUME PoolInv', UNCHANGED <<rows, throttle, tool, selected>> PROVE TypeOK' /\ PoolInv'
  BY <1>k DEF TypeOK, PoolInv, rows, tool
<1>p. ASSUME client' = client, active' = active, waiters' = waiters PROVE PoolInv'
  BY <1>p DEF PoolInv, PoolMatchesHashing, Hashing, Waiting
<1>u. \A n \in Names : /\ user[n].hash \in Hashes \cup {NoOne}
                       /\ user[n] # NoUser => user[n].hash \in Hashes /\ user[n].visitor \in Legacy \cup {NoOne}
  BY <1>0 DEF UserType, NoUser
<1>1. ASSUME NEW c \in Clients, NEW n \in Names, NEW w \in Passwords, NEW kind \in Kinds,
             NEW i \in Legacy \cup {NoOne}, Begin(c, n, w, kind, i)
      PROVE TypeOK' /\ PoolInv'
  <2> DEFINE x == [at |-> kind, name |-> n, typed |-> w, cookie |-> i, read |-> NoOne]
  <2>1. x \in ClientType /\ x.at \notin HashingStates \cup {"wait"}
    BY DEF ClientType, AttemptType, Attempt, Kinds, HashingStates
  <2> HIDE DEF x
  <2>2. client[c].at = "idle" /\ UNCHANGED pool
        /\ (client' = client \/ client' = [client EXCEPT ![c] = x])
    BY <1>1, StatesOfRequests DEF Begin, x
  <2>3. PoolInv'
    BY <1>p, <2>1, <2>2, RequestMoves DEF HashingStates, pool
  <2>4. throttle' \in [Kinds -> CounterType]
    BY <1>1, CountedType DEF Begin, TypeOK
  <2> QED BY <1>1, <2>3, <2>4 DEF Begin, TypeOK, PoolInv, rows, tool
<1>2. ASSUME NEW c \in Clients, FindUser(c) PROVE TypeOK' /\ PoolInv'
  <2> DEFINE x == [client[c] EXCEPT !.at = "verify", !.read = user[client[c].name].hash]
  <2>1. x \in AttemptType /\ x.at = "verify" /\ Enter(c, x) /\ client[c].at = "login"
    <3>1. client[c] \in ClientType /\ client[c].at = "login" /\ Enter(c, x)
      BY <1>0, <1>2 DEF FindUser
    <3>2. client[c].name \in Names
      BY <3>1, AttemptMoves
    <3>3. user[client[c].name].hash \in Hashes \cup {NoOne}
      BY <1>u, <3>2
    <3>4. \A h \in Hashes \cup {NoOne} : /\ [client[c] EXCEPT !.at = "verify", !.read = h] \in AttemptType
                                        /\ [client[c] EXCEPT !.at = "verify", !.read = h].at = "verify"
      BY <3>1, AttemptMoves
    <3> QED BY <3>1, <3>3, <3>4
  <2> HIDE DEF x
  <2> QED BY <1>2, <1>k, <2>1, EnterKeepsPool DEF FindUser, HashingStates
<1>3. ASSUME NEW c \in Clients, Verified(c) PROVE TypeOK' /\ PoolInv'
  <2> DEFINE r == client[c]
             x == IF r.read = NoOne \/ r.read.password # r.typed THEN Idle
                  ELSE [r EXCEPT !.at = IF r.read.outdated THEN "upgrade" ELSE "claim"]
  <2>1. r.at = "verify" /\ Leave(c, x)
    BY <1>3 DEF Verified
  <2>2. x \in ClientType /\ x.at \in {"idle", "upgrade", "claim"}
    <3>1. r \in ClientType
      BY <1>0
    <3>2. CASE r.read = NoOne \/ r.read.password # r.typed
      BY <3>2, StatesOfRequests
    <3>3. CASE ~(r.read = NoOne \/ r.read.password # r.typed)
      <4> DEFINE a == IF r.read.outdated THEN "upgrade" ELSE "claim"
      <4>1. x = [r EXCEPT !.at = a] /\ a \in {"upgrade", "claim"}
        BY <3>3
      <4>2. \A b \in {"upgrade", "claim"} : [r EXCEPT !.at = b] \in AttemptType /\ [r EXCEPT !.at = b].at = b
        BY <2>1, <3>1, <3>3, AttemptMoves
      <4> HIDE DEF a, x
      <4> QED BY <4>1, <4>2, StatesOfRequests
    <3> QED BY <3>2, <3>3
  <2> HIDE DEF x
  <2> QED BY <1>3, <1>k, <2>1, <2>2, LeaveKeepsPool DEF Verified, HashingStates
<1>4. ASSUME NEW c \in Clients, Upgrade(c) PROVE TypeOK' /\ PoolInv'
  <2> DEFINE x == [client[c] EXCEPT !.at = "rehash"]
  <2>1. x \in AttemptType /\ x.at = "rehash" /\ Enter(c, x) /\ client[c].at = "upgrade"
    BY <1>0, <1>4, AttemptMoves DEF Upgrade
  <2> HIDE DEF x
  <2> QED BY <1>4, <1>k, <2>1, EnterKeepsPool DEF Upgrade, HashingStates
<1>5. ASSUME NEW c \in Clients, Rehashed(c) PROVE TypeOK' /\ PoolInv'
  <2> DEFINE x == [client[c] EXCEPT !.at = "claim"]
  <2>1. x \in ClientType /\ x.at = "claim" /\ Leave(c, x) /\ client[c].at = "rehash"
    BY <1>0, <1>5, AttemptMoves, StatesOfRequests DEF Rehashed
  <2> HIDE DEF x
  <2> QED BY <1>5, <1>k, <2>1, LeaveKeepsPool DEF Rehashed, HashingStates
<1>6. ASSUME NEW c \in Clients, ClaimUser(c) PROVE TypeOK' /\ PoolInv'
  <2>1. client[c].at = "claim" /\ UNCHANGED <<user, visitors, sessions, throttle, tool, pool, selected>>
    BY <1>6 DEF ClaimUser
  <2>2. lock' \in [Names -> Clients \cup {NoOne, "tool"}]
    BY <1>0, <1>6 DEF ClaimUser
  <2>3. PICK x \in ClientType : x.at \in {"idle", "session"} /\ client' = [client EXCEPT ![c] = x]
    <3>1. Idle \in ClientType /\ Idle.at = "idle"
      BY StatesOfRequests
    <3>2. [client[c] EXCEPT !.at = "session"] \in ClientType /\ [client[c] EXCEPT !.at = "session"].at = "session"
      <4>1. [client[c] EXCEPT !.at = "session"] \in AttemptType
            /\ [client[c] EXCEPT !.at = "session"].at = "session"
        BY <1>0, <2>1, AttemptMoves
      <4> QED BY <4>1, StatesOfRequests
    <3>3. \/ client' = [client EXCEPT ![c] = Idle]
          \/ client' = [client EXCEPT ![c] = [client[c] EXCEPT !.at = "session"]]
      BY <1>6 DEF ClaimUser
    <3> QED BY <3>1, <3>2, <3>3
  <2>4. PoolInv'
    BY <2>1, <2>3, RequestMoves DEF HashingStates
  <2> QED BY <2>1, <2>2, <2>4 DEF TypeOK, PoolInv, tool
<1>7. ASSUME NEW c \in Clients, CommitLogin(c) PROVE TypeOK' /\ PoolInv'
  <2>1. client[c].at = "session" /\ client[c].name \in Names /\ client[c].read \in Hashes
        /\ client[c].read.epoch \in 0..MaxResets
    <3>1. client[c].at = "session" /\ client[c].name \in Names /\ client[c].read \in Hashes
      BY <1>0, <1>7, AttemptMoves DEF CommitLogin
    <3> QED BY <3>1 DEF Hashes
  <2>2. sessions' \subseteq SessionType
    BY <1>0, <1>7, <2>1, NewSessionType DEF CommitLogin
  <2>3. user' \in [Names -> UserType]
    <3> DEFINE n == client[c].name
    <3>1. user[n].hash \in Hashes /\ user[n].visitor \in Legacy \cup {NoOne} /\ user[n] \in UserType
      BY <1>0, <1>u, <2>1 DEF RowsHeld, Exists
    <3>2. [user[n].hash EXCEPT !.outdated = FALSE] \in Hashes
      BY <3>1 DEF Hashes
    <3>3. user' = [user EXCEPT ![n] = [user[n] EXCEPT !.hash = [user[n].hash EXCEPT !.outdated = FALSE]]]
      BY <1>7 DEF CommitLogin
    <3>4. \A h \in Hashes : [user[n] EXCEPT !.hash = h] \in UserType
      BY <3>1 DEF UserType, NoUser
    <3> HIDE DEF n
    <3> QED BY <1>0, <3>2, <3>3, <3>4
  <2>4. lock' \in [Names -> Clients \cup {NoOne, "tool"}]
    BY <1>0, <1>7 DEF CommitLogin
  <2>5. PoolInv'
    BY <1>7, <2>1, RequestMoves, StatesOfRequests DEF CommitLogin, HashingStates
  <2> QED BY <1>7, <2>2, <2>3, <2>4, <2>5 DEF CommitLogin, TypeOK, PoolInv, tool
<1>8. ASSUME NEW c \in Clients, FindName(c) PROVE TypeOK' /\ PoolInv'
  <2> DEFINE x == IF Exists(client[c].name) THEN Idle ELSE [client[c] EXCEPT !.at = "legacy"]
  <2>1. client[c].at = "register" /\ UNCHANGED <<rows, throttle, tool, pool, selected>>
        /\ client' = [client EXCEPT ![c] = x]
    BY <1>8 DEF FindName
  <2>2. x \in ClientType /\ x.at \in {"idle", "legacy"}
    <3>1. client[c] \in ClientType
      BY <1>0
    <3>2. [client[c] EXCEPT !.at = "legacy"] \in AttemptType /\ [client[c] EXCEPT !.at = "legacy"].at = "legacy"
      BY <2>1, <3>1, AttemptMoves
    <3> QED BY <3>2, StatesOfRequests
  <2> HIDE DEF x
  <2>3. PoolInv'
    BY <2>1, <2>2, RequestMoves DEF HashingStates
  <2> QED BY <1>k, <2>1, <2>3
<1>9. ASSUME NEW c \in Clients, ResolveLegacyVisitor(c) PROVE TypeOK' /\ PoolInv'
  <2> DEFINE x == [client[c] EXCEPT !.at = "hash"]
  <2>1. /\ client[c].at = "legacy" /\ UNCHANGED <<rows, throttle, tool, selected>>
        /\ Enter(c, x) \/ (client' = [client EXCEPT ![c] = Idle] /\ UNCHANGED pool)
    BY <1>9 DEF ResolveLegacyVisitor
  <2>2. x \in AttemptType /\ x.at = "hash"
    BY <1>0, <2>1, AttemptMoves
  <2> HIDE DEF x
  <2>3. CASE Enter(c, x)
    BY <1>k, <2>1, <2>2, <2>3, EnterKeepsPool DEF HashingStates
  <2>4. CASE client' = [client EXCEPT ![c] = Idle] /\ UNCHANGED pool
    BY <1>k, <2>1, <2>4, RequestMoves, StatesOfRequests DEF HashingStates
  <2> QED BY <2>1, <2>3, <2>4
<1>10. ASSUME NEW c \in Clients, Hashed(c) PROVE TypeOK' /\ PoolInv'
  <2> DEFINE x == [client[c] EXCEPT !.at = "create"]
  <2>1. x \in ClientType /\ x.at = "create" /\ Leave(c, x) /\ client[c].at = "hash"
    <3>1. client[c] \in ClientType /\ client[c].at = "hash" /\ Leave(c, x)
      BY <1>0, <1>10 DEF Hashed
    <3>2. x \in AttemptType /\ x.at = "create"
      BY <3>1, AttemptMoves
    <3> QED BY <3>1, <3>2, StatesOfRequests
  <2> HIDE DEF x
  <2> QED BY <1>10, <1>k, <2>1, LeaveKeepsPool DEF Hashed, HashingStates
<1>11. ASSUME NEW c \in Clients, CreateUser(c) PROVE TypeOK' /\ PoolInv'
  <2> DEFINE r == client[c]
             x == [hash |-> Hash(r.typed, 0, FALSE), visitor |-> r.cookie]
  <2>1. r.at = "create" /\ r.name \in Names /\ r.typed \in Passwords /\ r.cookie \in Legacy \cup {NoOne}
    BY <1>0, <1>11, AttemptMoves DEF CreateUser
  <2>2. \/ UNCHANGED <<user, sessions>>
        \/ /\ FreeIds # {} /\ user' = [user EXCEPT ![r.name] = x]
           /\ sessions' = sessions \cup {NewSession(r.name, 0)}
    BY <1>11 DEF CreateUser
  <2>3. x \in UserType
    BY <2>1, Bounds DEF UserType, Hash, Hashes
  <2>4. PoolInv'
    BY <1>11, <2>1, RequestMoves, StatesOfRequests DEF CreateUser, HashingStates
  <2> HIDE DEF x
  <2>5. user' \in [Names -> UserType] /\ sessions' \subseteq SessionType
    BY <1>0, <2>1, <2>2, <2>3, NewSessionType, Bounds
  <2> QED BY <1>11, <2>4, <2>5 DEF CreateUser, TypeOK, PoolInv, tool
<1>12. ASSUME NEW c \in Clients, WaitTimesOut(c) PROVE TypeOK' /\ PoolInv'
  BY <1>12, <1>k, TimeoutKeepsPool DEF WaitTimesOut
<1>13. ASSUME NEW c \in Clients, RequestFails(c) PROVE TypeOK' /\ PoolInv'
  <2>1. PoolInv'
    BY <1>13, RequestMoves, StatesOfRequests DEF RequestFails, Hashing, HashingStates
  <2>2. lock' \in [Names -> Clients \cup {NoOne, "tool"}]
    BY <1>0, <1>13 DEF RequestFails, Unlocked
  <2> QED BY <1>13, <2>1, <2>2 DEF RequestFails, TypeOK, PoolInv, tool
<1>14. ASSUME NEW s \in sessions, EndSession(s) PROVE TypeOK' /\ PoolInv'
  <2>1. sessions' \subseteq SessionType
    BY <1>0, <1>14 DEF EndSession, SessionType
  <2> QED BY <1>14, <1>p, <2>1 DEF EndSession, TypeOK, tool, pool
<1>15. ASSUME NEW n \in Names, NEW w \in Passwords, BeginReset(n, w) PROVE TypeOK' /\ PoolInv'
  <2>1. resets' \in 0..MaxResets /\ resets' > 0
    BY <1>0, <1>15, Bounds DEF BeginReset
  <2> QED BY <1>15, <1>p, <2>1 DEF BeginReset, TypeOK, rows, pool
<1>16. CASE ResetPassword
  <2>1. lock' \in [Names -> Clients \cup {NoOne, "tool"}]
    BY <1>0, <1>16 DEF ResetPassword
  <2>2. reset' \in [at : {"update", "revoke"}, name : Names, typed : Passwords] /\ reset # Idle
    BY <1>16 DEF ResetPassword, TypeOK, Idle
  <2> QED BY <1>16, <1>p, <2>1, <2>2 DEF ResetPassword, TypeOK, pool
<1>17. CASE RevokeSessions
  <2> DEFINE n == reset.name
             h == Hash(reset.typed, resets, FALSE)
  <2>1. n \in Names /\ h \in Hashes
    BY <1>17 DEF RevokeSessions, TypeOK, Idle, Hash, Hashes
  <2>2. user' = [user EXCEPT ![n] = [user[n] EXCEPT !.hash = h]]
    BY <1>17 DEF RevokeSessions
  <2>3. [user[n] EXCEPT !.hash = h] \in UserType
    <3>1. user[n] \in UserType
      BY <1>0, <2>1
    <3>2. user[n].visitor \in Legacy \cup {NoOne}
          /\ [user[n] EXCEPT !.hash = h] = [hash |-> h, visitor |-> user[n].visitor]
      <4> HIDE DEF n, h
      <4>1. CASE user[n] = NoUser
        BY <4>1 DEF NoUser
      <4>2. CASE user[n] \in [hash : Hashes, visitor : Legacy \cup {NoOne}]
        BY <4>2
      <4> QED BY <3>1, <4>1, <4>2 DEF UserType
    <3> QED BY <2>1, <3>2 DEF UserType
  <2>4. sessions' \subseteq SessionType
    BY <1>0, <1>17 DEF RevokeSessions, EndedSessionsOf, SessionType
  <2>5. lock' \in [Names -> Clients \cup {NoOne, "tool"}]
    BY <1>0, <1>17 DEF RevokeSessions
  <2> HIDE DEF n, h
  <2>6. user' \in [Names -> UserType]
    BY <1>0, <2>2, <2>3
  <2> QED BY <1>17, <1>p, <2>4, <2>5, <2>6 DEF RevokeSessions, TypeOK, pool
<1>18. CASE ResetFails
  <2>1. lock' \in [Names -> Clients \cup {NoOne, "tool"}]
    BY <1>0, <1>18 DEF ResetFails, Unlocked
  <2> QED BY <1>18, <1>p, <2>1 DEF ResetFails, TypeOK, pool
<1>19. CASE DropEndedSessions
  BY <1>19, <1>p DEF DropEndedSessions, TypeOK, tool, pool
<1>20. CASE SelectOrphans
  BY <1>20, <1>p DEF SelectOrphans, TypeOK, rows, tool, pool
<1>21. CASE DeleteOrphans
  BY <1>21, <1>p DEF DeleteOrphans, TypeOK, tool, pool
<1>22. CASE UNCHANGED vars
  BY <1>22, <1>k, <1>p DEF vars, rows, tool, pool
<1> QED BY <1>1, <1>2, <1>3, <1>4, <1>5, <1>6, <1>7, <1>8, <1>9, <1>10, <1>11, <1>12, <1>13, <1>14,
           <1>15, <1>16, <1>17, <1>18, <1>19, <1>20, <1>21, <1>22 DEF Next, Kinds

-----------------------------------------------------------------------------
(* Sessions and visitors.                                                  *)

\* A usable session belongs to an account and to the password in force.
SessionsInv == UsableSessionFitsPassword /\ \A s \in sessions : Exists(s.name)

LEMMA RowsInit == Init => RowsHeld /\ SessionsInv /\ ClaimedVisitorStays
<1> SUFFICES ASSUME Init PROVE RowsHeld /\ SessionsInv /\ ClaimedVisitorStays
  OBVIOUS
<1>1. Idle.at = "idle" /\ \A c \in Clients : client[c] = Idle
  BY DEF Init, Idle
<1>2. sessions = {} /\ reset = Idle
  BY DEF Init
<1>3. \A n \in Names : user[n].visitor = NoOne
  <2>1. \A n \in Names : user[n] \in {NoUser} \cup {[hash |-> Hash(w, 0, TRUE), visitor |-> NoOne] : w \in Passwords}
    BY DEF Init
  <2>2. ASSUME NEW n \in Names PROVE user[n].visitor = NoOne
    <3>1. CASE user[n] = NoUser
      BY <3>1 DEF NoUser
    <3>2. ASSUME NEW w \in Passwords, user[n] = [hash |-> Hash(w, 0, TRUE), visitor |-> NoOne]
          PROVE  user[n].visitor = NoOne
      BY <3>2
    <3> QED BY <2>1, <3>1, <3>2
  <2> QED BY <2>2
<1> QED BY <1>1, <1>2, <1>3 DEF RowsHeld, SessionsInv, UsableSessionFitsPassword, ClaimedVisitorStays

\* The row locks keep a login's session and a reset of the same account apart.
LEMMA RowsHeldStep ==
  ASSUME TypeOK, TypeOK', PoolInv, RowsHeld, [Next]_vars
  PROVE  RowsHeld'
<1>0. /\ client \in [Clients -> ClientType] /\ user \in [Names -> UserType]
      /\ lock \in [Names -> Clients \cup {NoOne, "tool"}]
      /\ Idle.at = "idle" /\ \A c \in Clients : client[c].at = "session" => client[c].name \in Names
  BY AttemptMoves DEF TypeOK, Idle
<1>k. ASSUME UNCHANGED <<user, lock, reset>>,
             \A c \in Clients : client'[c] = client[c] \/ client'[c].at # "session"
      PROVE  RowsHeld'
  BY <1>k DEF RowsHeld, Exists
<1>l. ASSUME NEW c \in Clients, NEW state, state.at # "session", Leave(c, state) PROVE
      \A d \in Clients : client'[d] = client[d] \/ client'[d].at # "session"
  <2>1. CASE waiters = <<>>
    BY <1>0, <1>l, <2>1 DEF Leave
  <2>2. CASE waiters # <<>>
    <3> DEFINE h == Head(waiters)
    <3>1. h \in Clients /\ h \in Range(waiters)
      BY <2>2, InRange DEF PoolInv
    <3>2. client[h].next.at # "session"
      BY <1>0, <3>1, StatesOfRequests DEF PoolInv, PoolMatchesHashing, Waiting, HashingStates
    <3>3. client' = [client EXCEPT ![c] = state, ![h] = client[h].next]
      BY <1>l, <2>2 DEF Leave
    <3> HIDE DEF h
    <3> QED BY <1>0, <1>l, <3>1, <3>2, <3>3
  <2> QED BY <2>1, <2>2
<1>e. ASSUME NEW c \in Clients, NEW state, state.at # "session", Enter(c, state)
      PROVE  \A d \in Clients : client'[d] = client[d] \/ client'[d].at # "session"
  <2>1. [at |-> "wait", next |-> state].at # "session"
    OBVIOUS
  <2> QED BY <1>0, <1>e, <2>1 DEF Enter
<1>s. ASSUME NEW c \in Clients, client[c].at \notin {"idle", "wait"}, NEW a \in STRING
      PROVE  [client[c] EXCEPT !.at = a].at = a
  <2>1. client[c] \in AttemptType
    BY <1>0, <1>s, AttemptMoves
  <2> QED BY <2>1 DEF AttemptType, Attempt
<1>1. ASSUME NEW c \in Clients, NEW n \in Names, NEW w \in Passwords, NEW kind \in Kinds,
             NEW i \in Legacy \cup {NoOne}, Begin(c, n, w, kind, i)
      PROVE RowsHeld'
  <2> DEFINE x == [at |-> kind, name |-> n, typed |-> w, cookie |-> i, read |-> NoOne]
  <2>1. x.at # "session"
    BY DEF Kinds
  <2>2. client' = client \/ client' = [client EXCEPT ![c] = x]
    BY <1>1 DEF Begin
  <2> HIDE DEF x
  <2>3. \A d \in Clients : client'[d] = client[d] \/ client'[d].at # "session"
    BY <1>0, <2>1, <2>2
  <2> QED BY <1>1, <1>k, <2>3 DEF Begin, rows, tool
<1>2. ASSUME NEW c \in Clients, FindUser(c) \/ Upgrade(c) \/ ResolveLegacyVisitor(c) PROVE RowsHeld'
  <2>1. client[c].at \in {"login", "upgrade", "legacy"} /\ UNCHANGED <<user, lock, reset>>
    BY <1>2 DEF FindUser, Upgrade, ResolveLegacyVisitor, rows, tool
  <2>2. client[c] \in AttemptType
    BY <1>0, <2>1, AttemptMoves
  <2>3. \A h : [client[c] EXCEPT !.at = "verify", !.read = h].at = "verify"
    BY <2>2 DEF AttemptType, Attempt
  <2>4. [client[c] EXCEPT !.at = "rehash"].at = "rehash" /\ [client[c] EXCEPT !.at = "hash"].at = "hash"
    BY <1>s, <2>1
  <2>5. \A d \in Clients : client'[d] = client[d] \/ client'[d].at # "session"
    <3>1. CASE FindUser(c)
      BY <1>e, <2>3, <3>1 DEF FindUser
    <3>2. CASE Upgrade(c)
      BY <1>e, <2>4, <3>2 DEF Upgrade
    <3>3. CASE ResolveLegacyVisitor(c)
      BY <1>0, <1>e, <2>4, <3>3 DEF ResolveLegacyVisitor
    <3> QED BY <1>2, <3>1, <3>2, <3>3
  <2> QED BY <1>k, <2>1, <2>5
<1>3. ASSUME NEW c \in Clients, Verified(c) \/ Rehashed(c) \/ Hashed(c) PROVE RowsHeld'
  <2>1. client[c].at \in {"verify", "rehash", "hash"} /\ UNCHANGED <<user, lock, reset>>
    BY <1>3 DEF Verified, Rehashed, Hashed, rows, tool
  <2>2. /\ [client[c] EXCEPT !.at = "claim"].at = "claim" /\ [client[c] EXCEPT !.at = "create"].at = "create"
        /\ [client[c] EXCEPT !.at = "upgrade"].at = "upgrade"
    BY <1>s, <2>1
  <2>3. PICK state : Leave(c, state) /\ state.at # "session"
    <3>1. CASE Verified(c)
      BY <1>0, <2>2, <3>1 DEF Verified
    <3>2. CASE Rehashed(c)
      BY <2>2, <3>2 DEF Rehashed
    <3>3. CASE Hashed(c)
      BY <2>2, <3>3 DEF Hashed
    <3> QED BY <1>3, <3>1, <3>2, <3>3
  <2> QED BY <1>k, <1>l, <2>1, <2>3
<1>4. ASSUME NEW c \in Clients, ClaimUser(c) PROVE RowsHeld'
  <2> DEFINE r == client[c]
  <2>1. r.at = "claim" /\ lock[r.name] = NoOne /\ UNCHANGED <<user, reset>>
    BY <1>4 DEF ClaimUser, tool
  <2>2. r.name \in Names /\ r.read \in Hashes /\ r \in AttemptType
    BY <1>0, <2>1, AttemptMoves
  <2>3. CASE lock' = lock /\ client' = [client EXCEPT ![c] = Idle]
    BY <1>0, <1>k, <2>1, <2>3
  <2>4. CASE /\ user[r.name].hash = r.read /\ lock' = [lock EXCEPT ![r.name] = c]
             /\ client' = [client EXCEPT ![c].at = "session"]
    <3>1. user[r.name] # NoUser
      BY <2>2, <2>4, Bounds DEF Exists, NoUser
    <3>2. /\ client'[c].at = "session" /\ client'[c].name = r.name /\ client'[c].read = r.read
          /\ \A d \in Clients \ {c} : client'[d] = client[d]
      BY <1>0, <2>2, <2>4 DEF AttemptType, Attempt
    <3>3. lock'[r.name] = c /\ \A n \in Names \ {r.name} : lock'[n] = lock[n]
      BY <1>0, <2>2, <2>4
    <3>4. user'[r.name] # NoUser /\ user' = user
      BY <2>1, <3>1
    <3> HIDE DEF r
    <3>5. ASSUME NEW d \in Clients, client'[d].at = "session"
          PROVE  /\ lock'[client'[d].name] = d /\ user'[client'[d].name] # NoUser
                 /\ user'[client'[d].name].hash.epoch = client'[d].read.epoch
      <4>1. CASE d = c
        BY <2>4, <3>2, <3>3, <3>4, <4>1
      <4>2. CASE d # c
        <5>1. /\ lock[client[d].name] = d /\ user[client[d].name] # NoUser /\ client[d].name \in Names
              /\ user[client[d].name].hash.epoch = client[d].read.epoch /\ client'[d] = client[d]
          BY <1>0, <3>2, <3>5, <4>2 DEF RowsHeld, Exists
        <5>2. client[d].name # r.name
          BY <2>1, <5>1, Bounds
        <5> QED BY <3>3, <3>4, <5>1, <5>2
      <4> QED BY <4>1, <4>2
    <3>6. reset.at = "revoke" => lock'[reset.name] = "tool"
      <4>1. reset.at = "revoke" => reset.name \in Names /\ lock[reset.name] = "tool"
        BY DEF RowsHeld, TypeOK, Idle
      <4> QED BY <2>1, <3>3, <4>1, Bounds
    <3> QED BY <2>1, <3>5, <3>6 DEF RowsHeld, Exists
  <2> QED BY <1>4, <2>3, <2>4 DEF ClaimUser, StillVerified
<1>5. ASSUME NEW c \in Clients, CommitLogin(c) PROVE RowsHeld'
  <2> DEFINE n == client[c].name
  <2>1. client[c].at = "session" /\ n \in Names /\ lock[n] = c /\ reset' = reset
    BY <1>0, <1>5 DEF CommitLogin, RowsHeld, tool
  <2>2. /\ \A m \in Names \ {n} : user'[m] = user[m] /\ lock'[m] = lock[m]
        /\ client'[c].at = "idle" /\ \A d \in Clients \ {c} : client'[d] = client[d]
    BY <1>0, <1>5, <2>1 DEF CommitLogin
  <2> HIDE DEF n
  <2>3. ASSUME NEW d \in Clients, client'[d].at = "session"
        PROVE  client'[d] = client[d] /\ client[d].name \in Names \ {n} /\ client[d].at = "session"
    BY <1>0, <2>1, <2>2, <2>3 DEF RowsHeld
  <2>4. reset.at = "revoke" => reset.name \in Names \ {n} /\ lock[reset.name] = "tool"
    BY <2>1, Bounds DEF RowsHeld, TypeOK, Idle
  <2> QED BY <2>1, <2>2, <2>3, <2>4 DEF RowsHeld, Exists
<1>6. ASSUME NEW c \in Clients, FindName(c) PROVE RowsHeld'
  <2>1. client[c].at = "register" /\ UNCHANGED <<user, lock, reset>>
    BY <1>6 DEF FindName, rows, tool
  <2>2. [client[c] EXCEPT !.at = "legacy"].at = "legacy"
    BY <1>s, <2>1
  <2>3. \A d \in Clients : client'[d] = client[d] \/ client'[d].at # "session"
    BY <1>0, <1>6, <2>2 DEF FindName
  <2> QED BY <1>k, <2>1, <2>3
<1>7. ASSUME NEW c \in Clients, CreateUser(c) PROVE RowsHeld'
  <2> DEFINE n == client[c].name
  <2>1. client[c].at = "create" /\ n \in Names /\ UNCHANGED <<lock, reset>>
        /\ \A d \in Clients : client'[d] = client[d] \/ client'[d].at # "session"
    BY <1>0, <1>7, AttemptMoves DEF CreateUser, tool
  <2>2. CASE UNCHANGED user
    BY <1>k, <2>1, <2>2
  <2>3. CASE ~Exists(n) /\ \A m \in Names \ {n} : user'[m] = user[m]
    <3> HIDE DEF n
    <3>1. ASSUME NEW d \in Clients, client'[d].at = "session"
          PROVE  client'[d] = client[d] /\ client[d].name \in Names \ {n} /\ client[d].at = "session"
      BY <1>0, <2>1, <2>3, <3>1 DEF RowsHeld
    <3> QED BY <2>1, <2>3, <3>1 DEF RowsHeld, Exists
  <2> QED BY <1>0, <1>7, <2>1, <2>2, <2>3 DEF CreateUser
<1>8. ASSUME NEW c \in Clients, WaitTimesOut(c) PROVE RowsHeld'
  BY <1>0, <1>8, <1>k DEF WaitTimesOut, rows, tool
<1>9. ASSUME NEW c \in Clients, RequestFails(c) PROVE RowsHeld'
  <2>1. /\ client'[c].at = "idle" /\ \A d \in Clients \ {c} : client'[d] = client[d]
        /\ \A n \in Names : lock[n] # c => lock'[n] = lock[n]
        /\ UNCHANGED <<user, reset>>
    BY <1>0, <1>9 DEF RequestFails, Unlocked, tool
  <2>2. ASSUME NEW d \in Clients, client'[d].at = "session"
        PROVE  /\ client'[d] = client[d] /\ client[d].name \in Names /\ client[d].at = "session"
               /\ lock'[client[d].name] = lock[client[d].name]
    BY <1>0, <2>1, <2>2 DEF RowsHeld
  <2>3. reset.at = "revoke" => reset.name \in Names /\ lock'[reset.name] = lock[reset.name]
    BY <2>1, Bounds DEF RowsHeld, TypeOK, Idle
  <2> QED BY <2>1, <2>2, <2>3 DEF RowsHeld, Exists
<1>10. ASSUME UNCHANGED <<client, user, lock>>, reset'.at # "revoke" PROVE RowsHeld'
  BY <1>10 DEF RowsHeld, Exists
<1>11. ASSUME NEW n \in Names, NEW w \in Passwords, BeginReset(n, w) PROVE RowsHeld'
  BY <1>10, <1>11 DEF BeginReset, rows
<1>12. CASE ResetPassword
  <2>1. reset.name \in Names /\ lock[reset.name] = NoOne /\ UNCHANGED <<client, user>>
    BY <1>12 DEF ResetPassword, TypeOK, Idle
  <2>2. /\ lock'[reset.name] = "tool" /\ \A n \in Names \ {reset.name} : lock'[n] = lock[n]
    BY <1>0, <1>12, <2>1 DEF ResetPassword
  <2>3. reset'.name = reset.name
    BY <1>12 DEF ResetPassword, TypeOK, Idle
  <2> QED BY <1>0, <2>1, <2>2, <2>3, Bounds DEF RowsHeld, Exists
<1>13. CASE RevokeSessions
  <2> DEFINE n == reset.name
  <2>1. n \in Names /\ lock[n] = "tool" /\ reset'.at # "revoke" /\ client' = client
    BY <1>13 DEF RevokeSessions, RowsHeld, TypeOK, Idle
  <2>2. \A m \in Names \ {n} : lock'[m] = lock[m] /\ user'[m] = user[m]
    BY <1>0, <1>13, <2>1 DEF RevokeSessions
  <2> HIDE DEF n
  <2>3. \A d \in Clients : client[d].at = "session" => client[d].name \in Names \ {n}
    BY <1>0, <2>1, Bounds DEF RowsHeld
  <2> QED BY <2>1, <2>2, <2>3 DEF RowsHeld, Exists
<1>14. CASE ResetFails
  <2>1. /\ \A n \in Names : lock[n] # "tool" => lock'[n] = lock[n]
        /\ UNCHANGED <<user, client>> /\ reset'.at # "revoke"
    BY <1>0, <1>14 DEF ResetFails, Unlocked
  <2> QED BY <1>0, <2>1, Bounds DEF RowsHeld, Exists
<1>15. ASSUME NEW s \in sessions, EndSession(s) PROVE RowsHeld'
  BY <1>15, <1>k DEF EndSession, tool
<1>16. CASE DropEndedSessions \/ SelectOrphans \/ DeleteOrphans \/ UNCHANGED vars
  BY <1>16, <1>k DEF DropEndedSessions, SelectOrphans, DeleteOrphans, vars, rows, tool
<1> QED BY <1>1, <1>2, <1>3, <1>4, <1>5, <1>6, <1>7, <1>8, <1>9, <1>11, <1>12, <1>13, <1>14, <1>15, <1>16
        DEF Next, Kinds

\* Types, pool and locks hold together: a waiter must be waiting for the types
\* to survive, and a verified user must exist.
LEMMA RowsCorrect == Spec => [](TypeOK /\ PoolInv /\ RowsHeld)
<1>1. Init => TypeOK /\ PoolInv /\ RowsHeld
  BY AccountInit, RowsInit
<1>2. TypeOK /\ PoolInv /\ RowsHeld /\ [Next]_vars => TypeOK' /\ PoolInv' /\ RowsHeld'
  BY AccountStep, RowsHeldStep
<1> QED BY <1>1, <1>2, PTL DEF Spec

\* Rows, requests and counters have the shape the code gives them; a request
\* past the verification carries a hash that was read.
THEOREM TypeCorrect == Spec => []TypeOK
BY RowsCorrect, PTL

\* The pool's counter is the number of hashes being computed, whoever gives up
\* leaves the queue, and nobody queues for a free slot.
THEOREM PoolIsExact == Spec => []PoolMatchesHashing
<1>1. PoolInv => PoolMatchesHashing
  BY DEF PoolInv
<1> QED BY <1>1, RowsCorrect, PTL

LEMMA SessionsStep ==
  ASSUME TypeOK, RowsHeld, SessionsInv, [Next]_vars
  PROVE  SessionsInv'
<1>0. /\ user \in [Names -> UserType] /\ sessions \subseteq SessionType
      /\ client \in [Clients -> ClientType] /\ \A s \in sessions : s.name \in Names
  BY DEF TypeOK, SessionType
<1>k. ASSUME UNCHANGED user, sessions' \subseteq sessions PROVE SessionsInv'
  BY <1>k DEF SessionsInv, UsableSessionFitsPassword, Usable, Exists
<1>1. ASSUME NEW c \in Clients, CommitLogin(c) PROVE SessionsInv'
  <2> DEFINE n == client[c].name
             e == client[c].read.epoch
             new == NewSession(n, e)
  <2>1. n \in Names /\ e \in 0..MaxResets /\ Exists(n) /\ user[n].hash.epoch = e
    <3>1. client[c].at = "session" /\ client[c].name \in Names /\ client[c].read \in Hashes
      BY <1>0, <1>1, AttemptMoves DEF CommitLogin
    <3> QED BY <3>1 DEF Hashes, RowsHeld
  <2>2. new.name = n /\ new.epoch = e
    BY <1>1, <2>1, NewSessionType DEF CommitLogin
  <2>3. sessions' = sessions \cup {new}
    BY <1>1 DEF CommitLogin
  <2>4. /\ user'[n].hash.epoch = e /\ user'[n] # NoUser
        /\ \A m \in Names \ {n} : user'[m] = user[m]
    <3>1. user[n].hash \in Hashes /\ user[n] \in [hash : Hashes, visitor : Legacy \cup {NoOne}]
      BY <1>0, <2>1 DEF Exists, UserType
    <3>2. user' = [user EXCEPT ![n] = [user[n] EXCEPT !.hash = [user[n].hash EXCEPT !.outdated = FALSE]]]
      BY <1>1 DEF CommitLogin
    <3> HIDE DEF n, e
    <3>3. [user[n].hash EXCEPT !.outdated = FALSE] \in Hashes
          /\ [user[n].hash EXCEPT !.outdated = FALSE].epoch = e
      BY <2>1, <3>1 DEF Hashes
    <3>4. \A h \in Hashes : [user[n] EXCEPT !.hash = h].hash = h
      BY <3>1
    <3>5. user'[n].hash \in Hashes /\ user'[n].hash.epoch = e
      BY <1>0, <2>1, <3>2, <3>3, <3>4
    <3> QED BY <1>0, <2>1, <3>2, <3>5, Bounds DEF NoUser
  <2> HIDE DEF n, e, new
  <2> QED BY <1>0, <2>1, <2>2, <2>3, <2>4 DEF SessionsInv, UsableSessionFitsPassword, Usable, Exists
<1>2. ASSUME NEW c \in Clients, CreateUser(c) PROVE SessionsInv'
  <2> DEFINE n == client[c].name
             h == Hash(client[c].typed, 0, FALSE)
             new == NewSession(n, 0)
  <2>1. n \in Names /\ h \in Hashes /\ h.epoch = 0
    <3>1. n \in Names /\ client[c].typed \in Passwords
      BY <1>0, <1>2, AttemptMoves DEF CreateUser
    <3> QED BY <3>1, Bounds DEF Hash, Hashes
  <2>2. CASE UNCHANGED <<user, sessions>>
    BY <1>k, <2>2
  <2>3. CASE /\ ~Exists(n) /\ FreeIds # {} /\ sessions' = sessions \cup {new}
             /\ user' = [user EXCEPT ![n] = [hash |-> h, visitor |-> client[c].cookie]]
    <3>1. new.name = n /\ new.epoch = 0
      BY <2>1, <2>3, NewSessionType, Bounds
    <3>2. \A s \in sessions : s.name # n
      BY <2>3 DEF SessionsInv
    <3> HIDE DEF n, h, new
    <3>3. /\ user'[n].hash = h /\ user'[n] # NoUser
          /\ \A m \in Names \ {n} : user'[m] = user[m]
      BY <1>0, <2>1, <2>3, Bounds DEF NoUser
    <3> QED BY <1>0, <2>1, <2>3, <3>1, <3>2, <3>3 DEF SessionsInv, UsableSessionFitsPassword, Usable, Exists
  <2> QED BY <1>2, <2>2, <2>3 DEF CreateUser
<1>3. CASE RevokeSessions
  <2> DEFINE n == reset.name
             h == Hash(reset.typed, resets, FALSE)
  <2>1. n \in Names /\ h \in Hashes
    BY <1>3 DEF RevokeSessions, TypeOK, Idle, Hash, Hashes
  <2>2. /\ user' = [user EXCEPT ![n] = [user[n] EXCEPT !.hash = h]]
        /\ sessions' = EndedSessionsOf(n)
    BY <1>3 DEF RevokeSessions
  <2> HIDE DEF n, h
  <2>3. ASSUME NEW s \in sessions'
        PROVE  \E t \in sessions : /\ s.name = t.name /\ s.epoch = t.epoch
                                   /\ s.ended = (t.ended \/ t.name = n)
    <3>1. PICK t \in sessions : s = IF t.name = n THEN [t EXCEPT !.ended = TRUE] ELSE t
      BY <2>2 DEF EndedSessionsOf
    <3>2. t \in SessionType
      BY <1>0
    <3>3. /\ [t EXCEPT !.ended = TRUE].name = t.name /\ [t EXCEPT !.ended = TRUE].epoch = t.epoch
          /\ [t EXCEPT !.ended = TRUE].ended = TRUE /\ t.ended \in BOOLEAN
      BY <3>2 DEF SessionType
    <3> QED BY <3>1, <3>3
  <2>4. user'[n] # NoUser /\ \A m \in Names \ {n} : user'[m] = user[m]
    <3>1. user[n] \in UserType
      BY <1>0, <2>1
    <3>2. [user[n] EXCEPT !.hash = h].hash = h
      <4>1. CASE user[n] = NoUser
        BY <4>1 DEF NoUser
      <4>2. CASE user[n] \in [hash : Hashes, visitor : Legacy \cup {NoOne}]
        BY <4>2
      <4> QED BY <3>1, <4>1, <4>2 DEF UserType
    <3>3. user'[n].hash = h
      BY <1>0, <2>1, <2>2, <3>2
    <3> QED BY <1>0, <2>1, <2>2, <3>3, Bounds DEF NoUser
  <2>5. ASSUME NEW s \in sessions'
        PROVE  user'[s.name] # NoUser /\ (~s.ended => user'[s.name].hash.epoch = s.epoch)
    <3>1. PICK t \in sessions : /\ s.name = t.name /\ s.epoch = t.epoch
                                /\ s.ended = (t.ended \/ t.name = n)
      BY <2>3
    <3>2. t.name \in Names /\ user[t.name] # NoUser /\ (~t.ended => user[t.name].hash.epoch = t.epoch)
      BY <1>0 DEF SessionsInv, UsableSessionFitsPassword, Usable, Exists
    <3> QED BY <2>4, <3>1, <3>2
  <2> QED BY <2>5 DEF SessionsInv, UsableSessionFitsPassword, Usable, Exists
<1>4. ASSUME NEW s \in sessions, EndSession(s) PROVE SessionsInv'
  <2>1. sessions' = (sessions \ {s}) \cup {[s EXCEPT !.ended = TRUE]} /\ user' = user
    BY <1>4 DEF EndSession
  <2>2. [s EXCEPT !.ended = TRUE].name = s.name /\ [s EXCEPT !.ended = TRUE].ended = TRUE
    BY <1>0 DEF SessionType
  <2> QED BY <2>1, <2>2 DEF SessionsInv, UsableSessionFitsPassword, Usable, Exists
<1>5. ASSUME NEW c \in Clients, NEW n \in Names, NEW w \in Passwords, NEW kind \in Kinds,
             NEW i \in Legacy \cup {NoOne}, Begin(c, n, w, kind, i)
      PROVE SessionsInv'
  BY <1>5, <1>k DEF Begin, rows
<1>6. ASSUME NEW c \in Clients,
             \/ FindUser(c) \/ Verified(c) \/ Upgrade(c) \/ Rehashed(c) \/ ClaimUser(c)
             \/ FindName(c) \/ ResolveLegacyVisitor(c) \/ Hashed(c) \/ WaitTimesOut(c) \/ RequestFails(c)
      PROVE SessionsInv'
  BY <1>6, <1>k DEF FindUser, Verified, Upgrade, Rehashed, ClaimUser, FindName, ResolveLegacyVisitor,
                    Hashed, WaitTimesOut, RequestFails, rows
<1>7. ASSUME NEW n \in Names, NEW w \in Passwords, BeginReset(n, w) PROVE SessionsInv'
  BY <1>7, <1>k DEF BeginReset, rows
<1>8. CASE ResetPassword \/ ResetFails \/ SelectOrphans \/ DeleteOrphans \/ UNCHANGED vars
  BY <1>8, <1>k DEF ResetPassword, ResetFails, SelectOrphans, DeleteOrphans, vars, rows
<1>9. CASE DropEndedSessions
  BY <1>9, <1>k DEF DropEndedSessions
<1> QED BY <1>1, <1>2, <1>3, <1>4, <1>5, <1>6, <1>7, <1>8, <1>9 DEF Next, Kinds

\* Whatever logins overlap a password reset, the sessions that are usable when
\* it commits, and after, were opened with the password in force.
THEOREM SessionsFitPasswords == Spec => []UsableSessionFitsPassword
<1>1. SessionsInv => UsableSessionFitsPassword
  BY DEF SessionsInv
<1>2. Init => SessionsInv
  BY RowsInit
<1>3. TypeOK /\ PoolInv /\ RowsHeld /\ SessionsInv /\ [Next]_vars => SessionsInv'
  BY SessionsStep
<1> QED BY <1>1, <1>2, <1>3, RowsCorrect, PTL DEF Spec

LEMMA VisitorsStep ==
  ASSUME TypeOK, RowsHeld, ClaimedVisitorStays, [Next]_vars
  PROVE  ClaimedVisitorStays'
<1>0. /\ user \in [Names -> UserType] /\ client \in [Clients -> ClientType] /\ selected \subseteq Legacy
  BY DEF TypeOK
<1>k. ASSUME \A n \in Names : user'[n].visitor = user[n].visitor,
             \A i \in visitors : i \in visitors' \/ ~Claimed(i)
      PROVE  ClaimedVisitorStays'
  BY <1>k DEF ClaimedVisitorStays, Claimed
<1>h. ASSUME NEW n \in Names, NEW h, user' = [user EXCEPT ![n] = [user[n] EXCEPT !.hash = h]]
      PROVE  \A m \in Names : user'[m].visitor = user[m].visitor
  <2>1. [user[n] EXCEPT !.hash = h].visitor = user[n].visitor
    <3>1. user[n] \in UserType
      BY <1>0
    <3>2. CASE user[n] = NoUser
      BY <3>2 DEF NoUser
    <3>3. CASE user[n] \in [hash : Hashes, visitor : Legacy \cup {NoOne}]
      BY <3>3
    <3> QED BY <3>1, <3>2, <3>3 DEF UserType
  <2> QED BY <1>0, <1>h, <2>1
<1>1. ASSUME NEW c \in Clients, CommitLogin(c) PROVE ClaimedVisitorStays'
  <2>1. client[c].name \in Names
    BY <1>0, <1>1, AttemptMoves DEF CommitLogin
  <2>2. \E h : user' = [user EXCEPT ![client[c].name] = [user[client[c].name] EXCEPT !.hash = h]]
    BY <1>1 DEF CommitLogin
  <2> QED BY <1>1, <1>h, <1>k, <2>1, <2>2 DEF CommitLogin
<1>2. CASE RevokeSessions
  <2>1. reset.name \in Names
    BY <1>2 DEF RevokeSessions, TypeOK, Idle
  <2>2. \E h : user' = [user EXCEPT ![reset.name] = [user[reset.name] EXCEPT !.hash = h]]
    BY <1>2 DEF RevokeSessions
  <2> QED BY <1>2, <1>h, <1>k, <2>1, <2>2 DEF RevokeSessions
<1>3. ASSUME NEW c \in Clients, CreateUser(c) PROVE ClaimedVisitorStays'
  <2> DEFINE n == client[c].name
             i == client[c].cookie
  <2>1. n \in Names /\ i \in Legacy \cup {NoOne} /\ visitors' = visitors
    BY <1>0, <1>3, AttemptMoves DEF CreateUser
  <2>2. CASE UNCHANGED user
    BY <1>k, <2>1, <2>2
  <2>3. CASE /\ i # NoOne => i \in visitors /\ ~Claimed(i)
             /\ user' = [user EXCEPT ![n] = [hash |-> Hash(client[c].typed, 0, FALSE), visitor |-> i]]
    <3>1. user'[n].visitor = i /\ \A m \in Names \ {n} : user'[m] = user[m]
      BY <1>0, <2>1, <2>3
    <3> HIDE DEF n, i
    <3> QED BY <2>1, <2>3, <3>1 DEF ClaimedVisitorStays, Claimed
  <2> QED BY <1>3, <2>2, <2>3 DEF CreateUser
<1>4. CASE DeleteOrphans
  <2>1. \A i \in visitors : i \in visitors' \/ ~Claimed(i)
    BY <1>4 DEF DeleteOrphans, Accepted
  <2> QED BY <1>4, <1>k, <2>1 DEF DeleteOrphans
<1>5. ASSUME NEW c \in Clients, NEW n \in Names, NEW w \in Passwords, NEW kind \in Kinds,
             NEW i \in Legacy \cup {NoOne}, Begin(c, n, w, kind, i)
      PROVE ClaimedVisitorStays'
  BY <1>5, <1>k DEF Begin, rows
<1>6. ASSUME NEW c \in Clients,
             \/ FindUser(c) \/ Verified(c) \/ Upgrade(c) \/ Rehashed(c) \/ ClaimUser(c)
             \/ FindName(c) \/ ResolveLegacyVisitor(c) \/ Hashed(c) \/ WaitTimesOut(c) \/ RequestFails(c)
      PROVE ClaimedVisitorStays'
  BY <1>6, <1>k DEF FindUser, Verified, Upgrade, Rehashed, ClaimUser, FindName, ResolveLegacyVisitor,
                    Hashed, WaitTimesOut, RequestFails, rows
<1>7. ASSUME NEW n \in Names, NEW w \in Passwords, BeginReset(n, w) PROVE ClaimedVisitorStays'
  BY <1>7, <1>k DEF BeginReset, rows
<1>8. ASSUME NEW s \in sessions, EndSession(s) PROVE ClaimedVisitorStays'
  BY <1>8, <1>k DEF EndSession
<1>9. CASE ResetPassword \/ ResetFails \/ SelectOrphans \/ DropEndedSessions \/ UNCHANGED vars
  BY <1>9, <1>k DEF ResetPassword, ResetFails, SelectOrphans, DropEndedSessions, vars, rows
<1> QED BY <1>1, <1>2, <1>3, <1>4, <1>5, <1>6, <1>7, <1>8, <1>9 DEF Next, Kinds

\* A visitor an account has taken over stays, and is nobody else's.
THEOREM VisitorsStay == Spec => []ClaimedVisitorStays
<1>1. Init => ClaimedVisitorStays
  BY RowsInit
<1>2. TypeOK /\ PoolInv /\ RowsHeld /\ ClaimedVisitorStays /\ [Next]_vars => ClaimedVisitorStays'
  BY VisitorsStep
<1> QED BY <1>1, <1>2, RowsCorrect, PTL DEF Spec

=============================================================================
