--------------------------- MODULE AccountSessions ---------------------------
(***************************************************************************)
(* Accounts and sessions: registration, login and logout (AuthService),    *)
(* the attempts counted against them (AuthThrottleService), the pool that  *)
(* bounds password hashing (PasswordService), the operator's password      *)
(* reset (reset-user-password.cli) and what the daily cleanup removes.     *)
(*                                                                         *)
(* A password hash is the password it was made of, the reset it stems from *)
(* and whether its parameters are outdated.  Transactions run at READ      *)
(* COMMITTED: a statement that finds a user row locked waits for the       *)
(* holder.                                                                 *)
(***************************************************************************)
EXTENDS Naturals, Sequences, FiniteSets, SequencesExt

CONSTANTS Clients,         \* browsers
          Names, Passwords,
          Legacy,          \* visitors of the signed cookies used before accounts
          NoOne,
          Slots, QueueLimit,           \* AUTH_PASSWORD_CONCURRENCY, AUTH_PASSWORD_QUEUE_MAX
          Limit,           \* attempts in a window, of each kind: by client, by name, in all
          MaxSessions, MaxResets \* bounds of the model

Kinds == {"login", "register"}
Hash(w, n, old) == [password |-> w, epoch |-> n, outdated |-> old]
Hashes == [password : Passwords, epoch : 0..MaxResets, outdated : BOOLEAN]

ASSUME AccountAssumption ==
  /\ Slots \in Nat \ {0} /\ QueueLimit \in Nat
  /\ Limit \in [Kinds -> [client : Nat, name : Nat, all : Nat]]
  /\ {MaxSessions, MaxResets} \subseteq Nat
  /\ NoOne \notin Legacy \cup Clients \cup Names \cup Hashes
  /\ "tool" \notin Clients \cup {NoOne}

VARIABLES user,      \* the User rows
          visitors,  \* the legacy AnonymousVisitor rows
          sessions,  \* the AuthSession rows
          lock,      \* who holds the row of a user
          throttle,  \* attempts of each kind and key; a run lies in one window
          client,    \* where a browser's request stands
          reset,     \* where the reset tool stands
          active, waiters,   \* the hashing pool
          selected,  \* the visitors a running cleanup has selected
          resets     \* bound

vars == <<user, visitors, sessions, lock, throttle, client, reset, active, waiters, selected,
          resets>>
pool == <<active, waiters>>
rows == <<user, visitors, sessions, lock>>
tool == <<reset, resets>>

NoUser == [hash |-> NoOne, visitor |-> NoOne]
Idle == [at |-> "idle"]
Exists(n) == user[n] # NoUser
Claimed(i) == \E n \in Names : user[n].visitor = i

HashingStates == {"verify", "rehash", "hash"}
Hashing == {c \in Clients : client[c].at \in HashingStates}
Waiting == {c \in Clients : client[c].at = "wait"}

UserType == {NoUser} \cup [hash : Hashes, visitor : Legacy \cup {NoOne}]
SessionType == [id : 1..MaxSessions, name : Names, epoch : 0..MaxResets, ended : BOOLEAN]
CounterType == [client : [Clients -> Nat], name : [Names -> Nat], all : Nat]

\* A request; from the verification on it carries the hash it has read.
Attempt(states, read) ==
  [at : states, name : Names, typed : Passwords, cookie : Legacy \cup {NoOne}, read : read]
AttemptType == Attempt({"login", "register", "legacy", "hash", "create"}, {NoOne})
                 \cup Attempt({"verify"}, Hashes \cup {NoOne})
                 \cup Attempt({"upgrade", "rehash", "claim", "session"}, Hashes)
ClientType == {Idle} \cup AttemptType
                \cup [at : {"wait"}, next : {a \in AttemptType : a.at \in HashingStates}]

TypeOK ==
  /\ user \in [Names -> UserType]
  /\ visitors \subseteq Legacy /\ selected \subseteq Legacy
  /\ sessions \subseteq SessionType
  /\ lock \in [Names -> Clients \cup {NoOne, "tool"}]
  /\ throttle \in [Kinds -> CounterType]
  /\ client \in [Clients -> ClientType]
  /\ reset \in {Idle} \cup [at : {"update", "revoke"}, name : Names, typed : Passwords]
  /\ resets \in 0..MaxResets /\ (reset # Idle => resets > 0)
  /\ active \in 0..Slots
  /\ waiters \in Seq(Clients) /\ Len(waiters) <= QueueLimit

Init ==
  /\ user \in [Names -> {NoUser} \cup {[hash |-> Hash(w, 0, TRUE), visitor |-> NoOne] : w \in Passwords}]
  /\ visitors = Legacy
  /\ sessions = {}
  /\ lock = [n \in Names |-> NoOne]
  /\ throttle = [kind \in Kinds |->
       [client |-> [c \in Clients |-> 0], name |-> [n \in Names |-> 0], all |-> 0]]
  /\ client = [c \in Clients |-> Idle]
  /\ reset = Idle
  /\ active = 0 /\ waiters = <<>>
  /\ selected = {}
  /\ resets = 0

-----------------------------------------------------------------------------
(* The throttle: three counters in this order; one over its limit stops the *)
(* attempt before the next one is raised.                                   *)

AdmittedBy(kind, c, n) ==
  LET t == throttle[kind]
      byClient == t.client[c] + 1 <= Limit[kind].client
      byName   == byClient /\ t.name[n] + 1 <= Limit[kind].name
  IN  [client |-> byClient, name |-> byName, all |-> byName /\ t.all + 1 <= Limit[kind].all]

\* A counter at its limit refuses the next attempt, as it does beyond it.
UpTo(max, n) == IF n > max THEN max ELSE n

Counted(kind, c, n) ==
  LET t   == throttle[kind]
      by  == AdmittedBy(kind, c, n)
      max == Limit[kind]
  IN [throttle EXCEPT ![kind] =
       [client |-> [t.client EXCEPT ![c] = UpTo(max.client, @ + 1)],
        name   |-> IF by.client THEN [t.name EXCEPT ![n] = UpTo(max.name, @ + 1)] ELSE t.name,
        all    |-> IF by.name THEN UpTo(max.all, t.all + 1) ELSE t.all]]

\* register and login begin by counting the attempt.
Begin(c, n, w, kind, cookie) ==
  /\ client[c] = Idle
  /\ throttle' = Counted(kind, c, n)
  /\ client' = IF AdmittedBy(kind, c, n).all
               THEN [client EXCEPT ![c] = [at |-> kind, name |-> n, typed |-> w, cookie |-> cookie,
                                           read |-> NoOne]]
               ELSE client
  /\ UNCHANGED <<rows, tool, pool, selected>>

-----------------------------------------------------------------------------
(* The hashing pool.                                                        *)

\* acquire: a slot, a place in the queue, or a refusal.
Enter(c, state) ==
  IF active < Slots
  THEN /\ active' = active + 1 /\ UNCHANGED waiters
       /\ client' = [client EXCEPT ![c] = state]
  ELSE IF Len(waiters) < QueueLimit
  THEN /\ waiters' = Append(waiters, c) /\ UNCHANGED active
       /\ client' = [client EXCEPT ![c] = [at |-> "wait", next |-> state]]
  ELSE /\ client' = [client EXCEPT ![c] = Idle]
       /\ UNCHANGED pool

\* release: the slot goes to the first waiter, or back.
Leave(c, state) ==
  IF waiters = <<>>
  THEN /\ active' = active - 1 /\ UNCHANGED waiters
       /\ client' = [client EXCEPT ![c] = state]
  ELSE /\ waiters' = Tail(waiters) /\ UNCHANGED active
       /\ client' = [client EXCEPT ![c] = state, ![Head(waiters)] = client[Head(waiters)].next]

\* Variant for PoolMatchesHashing: who gave up stays in the queue.
WaitTimesOutInPlace(c) ==
  /\ client[c].at = "wait"
  /\ client' = [client EXCEPT ![c] = Idle]
  /\ UNCHANGED <<rows, throttle, tool, pool, selected>>

WaitTimesOut(c) ==
  /\ client[c].at = "wait"
  /\ \E i \in DOMAIN waiters : waiters[i] = c /\ waiters' = RemoveAt(waiters, i)
  /\ client' = [client EXCEPT ![c] = Idle]
  /\ UNCHANGED <<rows, throttle, tool, active, selected>>

-----------------------------------------------------------------------------
(* Login.                                                                   *)

FindUser(c) ==
  /\ client[c].at = "login"
  /\ Enter(c, [client[c] EXCEPT !.at = "verify", !.read = user[client[c].name].hash])
  /\ UNCHANGED <<rows, throttle, tool, selected>>

\* An unknown name is verified against a fixed hash, and fails.
Verified(c) ==
  LET r == client[c] IN
  /\ r.at = "verify"
  /\ Leave(c, IF r.read = NoOne \/ r.read.password # r.typed THEN Idle
              ELSE [r EXCEPT !.at = IF r.read.outdated THEN "upgrade" ELSE "claim"])
  /\ UNCHANGED <<rows, throttle, tool, selected>>

Upgrade(c) ==
  /\ client[c].at = "upgrade"
  /\ Enter(c, [client[c] EXCEPT !.at = "rehash"])
  /\ UNCHANGED <<rows, throttle, tool, selected>>

Rehashed(c) ==
  /\ client[c].at = "rehash"
  /\ Leave(c, [client[c] EXCEPT !.at = "claim"])
  /\ UNCHANGED <<rows, throttle, tool, selected>>

\* Variant for UsableSessionFitsPassword: the user is found by name alone.
StillThere(r) == Exists(r.name)

StillVerified(r) == user[r.name].hash = r.read

\* The transaction's first statement takes the row only if the hash is still the one verified.
ClaimUser(c) ==
  LET r == client[c] IN
  /\ r.at = "claim"
  /\ lock[r.name] = NoOne
  /\ IF StillVerified(r)
     THEN /\ lock' = [lock EXCEPT ![r.name] = c]
          /\ client' = [client EXCEPT ![c].at = "session"]
     ELSE /\ client' = [client EXCEPT ![c] = Idle]
          /\ UNCHANGED lock
  /\ UNCHANGED <<user, visitors, sessions, throttle, tool, pool, selected>>

FreeIds == (1..MaxSessions) \ {s.id : s \in sessions}
NewSession(n, epoch) ==
  [id |-> CHOOSE i \in FreeIds : \A j \in FreeIds : i <= j, name |-> n, epoch |-> epoch,
   ended |-> FALSE]

CommitLogin(c) ==
  LET r == client[c] IN
  /\ r.at = "session"
  /\ FreeIds # {}
  /\ sessions' = sessions \cup {NewSession(r.name, r.read.epoch)}
  /\ user' = [user EXCEPT ![r.name].hash.outdated = FALSE]
  /\ lock' = [lock EXCEPT ![r.name] = NoOne]
  /\ client' = [client EXCEPT ![c] = Idle]
  /\ UNCHANGED <<visitors, throttle, tool, pool, selected>>

-----------------------------------------------------------------------------
(* Registration.                                                            *)

FindName(c) ==
  /\ client[c].at = "register"
  /\ client' = [client EXCEPT ![c] = IF Exists(client[c].name) THEN Idle ELSE [@ EXCEPT !.at = "legacy"]]
  /\ UNCHANGED <<rows, throttle, tool, pool, selected>>

\* Without a cookie the account gets a visitor of its own; a cookie must name one that is free.
ResolveLegacyVisitor(c) ==
  LET i == client[c].cookie IN
  /\ client[c].at = "legacy"
  /\ IF i = NoOne \/ (i \in visitors /\ ~Claimed(i))
     THEN Enter(c, [client[c] EXCEPT !.at = "hash"])
     ELSE client' = [client EXCEPT ![c] = Idle] /\ UNCHANGED pool
  /\ UNCHANGED <<rows, throttle, tool, selected>>

Hashed(c) ==
  /\ client[c].at = "hash"
  /\ Leave(c, [client[c] EXCEPT !.at = "create"])
  /\ UNCHANGED <<rows, throttle, tool, selected>>

\* The unique indexes on name and visitor and the foreign key refuse a row that does not fit.
CreateUser(c) ==
  LET r == client[c] IN
  /\ r.at = "create"
  /\ IF Exists(r.name) \/ (r.cookie # NoOne /\ (r.cookie \notin visitors \/ Claimed(r.cookie)))
     THEN UNCHANGED <<user, sessions>>
     ELSE /\ FreeIds # {}
          /\ user' = [user EXCEPT ![r.name] = [hash |-> Hash(r.typed, 0, FALSE), visitor |-> r.cookie]]
          /\ sessions' = sessions \cup {NewSession(r.name, 0)}
  /\ client' = [client EXCEPT ![c] = Idle]
  /\ UNCHANGED <<visitors, lock, throttle, tool, pool, selected>>
-----------------------------------------------------------------------------
(* Ending a session, and the reset tool, which runs in a process of its own. *)

Usable(s) == ~s.ended

\* Logout revokes one session; time ends one.
EndSession(s) ==
  /\ Usable(s)
  /\ sessions' = (sessions \ {s}) \cup {[s EXCEPT !.ended = TRUE]}
  /\ UNCHANGED <<user, visitors, lock, throttle, client, tool, pool, selected>>

BeginReset(n, w) ==
  /\ reset = Idle /\ resets < MaxResets
  /\ Exists(n)
  /\ resets' = resets + 1
  /\ reset' = [at |-> "update", name |-> n, typed |-> w]
  /\ UNCHANGED <<rows, throttle, client, pool, selected>>

\* The two statements of one transaction. The new hash is visible when both are done.
ResetPassword ==
  /\ reset.at = "update"
  /\ lock[reset.name] = NoOne
  /\ lock' = [lock EXCEPT ![reset.name] = "tool"]
  /\ reset' = [reset EXCEPT !.at = "revoke"]
  /\ UNCHANGED <<user, visitors, sessions, throttle, client, pool, resets, selected>>

EndedSessionsOf(n) == {IF s.name = n THEN [s EXCEPT !.ended = TRUE] ELSE s : s \in sessions}

RevokeSessions ==
  LET n == reset.name IN
  /\ reset.at = "revoke"
  /\ sessions' = EndedSessionsOf(n)
  /\ user' = [user EXCEPT ![n].hash = Hash(reset.typed, resets, FALSE)]
  /\ lock' = [lock EXCEPT ![n] = NoOne]
  /\ reset' = Idle
  /\ UNCHANGED <<visitors, throttle, client, resets, pool, selected>>

-----------------------------------------------------------------------------
(* The daily cleanup and failures.                                           *)

DropEndedSessions ==
  /\ \E s \in sessions : s.ended
  /\ sessions' = {s \in sessions : ~s.ended}
  /\ UNCHANGED <<user, visitors, lock, throttle, client, tool, pool, selected>>

\* Visitors without projects and account, not seen for a month.
SelectOrphans ==
  /\ selected = {}
  /\ selected' \in (SUBSET {i \in visitors : ~Claimed(i)}) \ {{}}
  /\ UNCHANGED <<rows, throttle, client, tool, pool>>

\* Variant for ClaimedVisitorStays: no foreign key refuses.
Unchecked(s) == s

\* The foreign key refuses the whole statement when one was claimed meanwhile.
Accepted(s) == IF \E i \in s : Claimed(i) THEN {} ELSE s

DeleteOrphans ==
  /\ selected # {}
  /\ visitors' = visitors \ Accepted(selected)
  /\ selected' = {}
  /\ UNCHANGED <<user, sessions, lock, throttle, client, tool, pool>>

Unlocked(c) == [n \in Names |-> IF lock[n] = c THEN NoOne ELSE lock[n]]

\* A statement fails: the transaction is rolled back and the request ends.
RequestFails(c) ==
  /\ client[c].at \notin {"idle", "wait"} /\ c \notin Hashing
  /\ client' = [client EXCEPT ![c] = Idle]
  /\ lock' = Unlocked(c)
  /\ UNCHANGED <<user, visitors, sessions, throttle, tool, pool, selected>>

ResetFails ==
  /\ reset # Idle
  /\ reset' = Idle
  /\ lock' = Unlocked("tool")
  /\ UNCHANGED <<user, visitors, sessions, throttle, client, resets, pool, selected>>

Next ==
  \/ \E c \in Clients, n \in Names, w \in Passwords :
        \/ Begin(c, n, w, "login", NoOne)
        \/ \E i \in Legacy \cup {NoOne} : Begin(c, n, w, "register", i)
  \/ \E c \in Clients :
        \/ FindUser(c) \/ Verified(c) \/ Upgrade(c) \/ Rehashed(c) \/ ClaimUser(c) \/ CommitLogin(c)
        \/ FindName(c) \/ ResolveLegacyVisitor(c) \/ Hashed(c) \/ CreateUser(c)
        \/ WaitTimesOut(c) \/ RequestFails(c)
  \/ \E s \in sessions : EndSession(s)
  \/ \E n \in Names, w \in Passwords : BeginReset(n, w)
  \/ ResetPassword \/ RevokeSessions \/ ResetFails
  \/ DropEndedSessions \/ SelectOrphans \/ DeleteOrphans

Spec == Init /\ [][Next]_vars

-----------------------------------------------------------------------------
(* Properties.                                                               *)

\* A session that can be used was opened with the password in force: a reset that commits leaves
\* none of an earlier password, however a login overlaps it (login's claim, resetUserPassword).
UsableSessionFitsPassword ==
  \A s \in sessions : Usable(s) => user[s.name].hash.epoch = s.epoch

\* The visitor an account has taken over, and with it its old projects, stays and is nobody else's
\* (register against the cleanup of orphans and against another registration).
ClaimedVisitorStays ==
  \A n \in Names : user[n].visitor # NoOne =>
    /\ user[n].visitor \in visitors
    /\ \A m \in Names : user[m].visitor = user[n].visitor => m = n

\* The pool's counter is the number of hashes being computed, nobody who gave up holds a place in
\* the queue, and nobody queues for a free slot (PasswordService).
PoolMatchesHashing ==
  /\ active = Cardinality(Hashing) /\ active <= Slots
  /\ Waiting = Range(waiters)
  /\ waiters # <<>> => active = Slots

=============================================================================
