----------------------------- MODULE SourceFetch -----------------------------
(***************************************************************************)
(* How one trend source is fetched (trends/sources, fetchJson): the        *)
(* requests for its boards, their retries, and what the source remembers   *)
(* of the provider's limits from one fetch to the next.  TrendRefresh      *)
(* takes a fetch as one step, FetchDelivers or FetchFails.                 *)
(*                                                                         *)
(* A board is what a source asks for with a request of its own: an X or    *)
(* YouTube region, a Qianfan tab, a day of the Wikimedia ranking or a      *)
(* batch of its details.  A time is kept as what is left of it, so that    *)
(* the model needs no last moment.  A source fetches once at a time        *)
(* (TrendRefresh) and its process does not restart.                        *)
(***************************************************************************)
EXTENDS Naturals

CONSTANTS
  Boards,    \* regions, tabs, days
  Batches,   \* requests for the details of a Wikimedia ranking, at most
  Interval,  \* between two Qianfan requests
  Backoff,   \* before fetchJson's second attempt
  Asks,      \* waits a provider asks for with a 429, up to a day; 0: none
  Cap        \* the longest wait a retry agrees to

ASSUME FetchAssumption ==
  /\ Boards \in Nat \ {0} /\ Batches \in Nat /\ Interval \in Nat
  /\ Backoff \in Nat /\ Cap \in Nat /\ Backoff <= Cap
  /\ Asks \subseteq Nat /\ 0 \in Asks

VARIABLES
  kind,     \* the source
  fetch,    \* the fetch under way
  outcome,  \* how the last one ended
  wait,     \* left before fetchJson's next attempt
  window,   \* X: left of nextAllowedAt
  pace,     \* Qianfan: left of lastRequestStartedAt and the interval
  hold,     \* Qianfan: left of nextRequestNotBeforeAt
  since,    \* history: time since the last request, up to the interval
  told,     \* history: left of the wait the last 429 asked for, up to Cap
  closed    \* history: left of every wait X asked for

limits == <<window, pace, hold>>
history == <<since, told, closed>>
fetchVars == <<kind, fetch, outcome, wait, limits, history>>

Kinds == {"x", "youtube", "qianfan", "weibo", "wikimedia", "feed"}
Longest(a, b) == IF a >= b THEN a ELSE b
Shortest(a, b) == IF a <= b THEN a ELSE b

NoFetch == [at |-> "idle", board |-> 0, attempt |-> 0, failed |-> {}]
LastBoard == CASE kind \in {"weibo", "feed"} -> 1
               [] kind = "wikimedia" -> Boards + Batches
               [] OTHER -> Boards

\* What ends a request.  "broken" is a network error, a timeout, a 5xx, an
\* answer over the byte limit or no JSON; "refused" another 4xx; "unusable"
\* JSON the source cannot read.
Answers == [code : {"data", "empty", "unusable", "broken", "refused"}, ask : {0}]
           \cup [code : {"limited"}, ask : Asks]
Arrived(a) == a.code \in {"data", "empty", "unusable"}
Retryable(a) == a.code \in {"broken", "limited"}

Fetches ==
  [at : {"idle", "open", "send", "sent"}, board : 0..(Boards + Batches + 1),
   attempt : 0..2, failed : SUBSET (1..Boards)]

FetchTypeOK ==
  /\ kind \in Kinds
  /\ fetch \in Fetches
  /\ outcome \in {"none", "failed", "part", "whole"}
  /\ wait \in Nat /\ window \in Nat /\ pace \in Nat /\ hold \in Nat
  /\ since \in Nat /\ told \in Nat /\ closed \in Nat

FetchInit ==
  /\ kind \in Kinds
  /\ fetch = NoFetch /\ outcome = "none"
  /\ wait = 0 /\ window = 0 /\ pace = 0 /\ hold = 0
  /\ since = Interval /\ told = 0 /\ closed = 0

-----------------------------------------------------------------------------
(* The boards of a fetch.                                                  *)

Open(board) == fetch' = [fetch EXCEPT !.at = "open", !.board = board, !.attempt = 0]
Ends(how) == fetch' = NoFetch /\ outcome' = how

\* The next board, after this one was read or failed.
BoardRead == Open(fetch.board + 1) /\ UNCHANGED outcome
BoardFails ==
  /\ fetch' = [fetch EXCEPT !.at = "open", !.board = @ + 1, !.attempt = 0,
                            !.failed = @ \cup {fetch.board}]
  /\ UNCHANGED outcome

\* X refuses a fetch while its window is closed; the feed's address may turn
\* out to be a private one.
XRefuses == kind = "x" /\ window > 0
FeedRefuses == kind = "feed"

Start ==
  /\ fetch.at = "idle"
  /\ \/ XRefuses /\ Ends("failed")
     \/ FeedRefuses /\ Ends("failed")
     \/ ~XRefuses /\ Open(1) /\ UNCHANGED outcome
  /\ UNCHANGED <<kind, wait, limits, history>>

\* An X region after a 429 that closed the window is not asked for.
XSkipsNone == FALSE  \* variant for WaitsAsTold: every region is asked for
XSkips == kind = "x" /\ window > 0

OpenBoard ==
  /\ fetch.at = "open" /\ fetch.board <= LastBoard
  /\ IF XSkips THEN BoardFails
     ELSE fetch' = [fetch EXCEPT !.at = "send"] /\ UNCHANGED outcome
  /\ UNCHANGED <<kind, wait, limits, history>>

\* A fetch fails when every board did.
Finish ==
  /\ fetch.at = "open" /\ fetch.board > LastBoard
  /\ Ends(IF fetch.failed = {} THEN "whole"
          ELSE IF fetch.failed = 1..LastBoard THEN "failed" ELSE "part")
  /\ UNCHANGED <<kind, wait, limits, history>>

-----------------------------------------------------------------------------
(* A request.                                                              *)

\* Every attempt for a Qianfan tab takes a slot: an interval after the
\* request before, and after what a 429 asked for.
Slot == kind = "qianfan" => pace = 0 /\ hold = 0

Send ==
  /\ fetch.at = "send" /\ wait = 0 /\ Slot
  /\ fetch' = [fetch EXCEPT !.at = "sent", !.attempt = @ + 1]
  /\ pace' = IF kind = "qianfan" THEN Interval ELSE pace
  /\ since' = 0
  /\ UNCHANGED <<kind, outcome, wait, window, hold, told, closed>>

\* Variant for FetchEnds: an attempt is not counted.
AgainFromStart ==
  fetch' = [fetch EXCEPT !.at = "send", !.attempt = 0] /\ UNCHANGED outcome
Again == fetch' = [fetch EXCEPT !.at = "send"] /\ UNCHANGED outcome

\* fetchJson's second attempt, for the sources that let it have one.
JsonRetries(a) ==
  kind \in {"weibo", "wikimedia", "feed"} /\ fetch.attempt < 2 /\ Retryable(a)
RetryDelay(a) == Shortest(Cap, Longest(Backoff, a.ask))
JsonRetry(a) ==
  /\ JsonRetries(a)
  /\ Again /\ wait' = RetryDelay(a) /\ UNCHANGED limits

\* An X region; a 429 that names a wait closes the window.
WindowAfter(a) == Longest(window, a.ask)
XRegionEnds(a) ==
  /\ kind = "x"
  /\ IF a.code \in {"data", "empty"} THEN BoardRead ELSE BoardFails
  /\ window' = WindowAfter(a)
  /\ UNCHANGED <<wait, pace, hold>>

YouTubeRegionEnds(a) ==
  /\ kind = "youtube"
  /\ IF a.code \in {"data", "empty"} THEN BoardRead ELSE BoardFails
  /\ UNCHANGED <<wait, limits>>

\* A Qianfan tab makes its own second attempt; only then does it note the
\* wait a 429 asked for.
HoldAfter(a) == Longest(hold, Shortest(Cap, a.ask))
QianfanRetries(a) == fetch.attempt < 2 /\ Retryable(a)
QianfanTabEnds(a) ==
  /\ kind = "qianfan"
  /\ IF QianfanRetries(a) THEN Again /\ hold' = HoldAfter(a)
     ELSE /\ IF a.code \in {"data", "empty"} THEN BoardRead ELSE BoardFails
          /\ UNCHANGED hold
  /\ UNCHANGED <<wait, window, pace>>

\* Weibo refuses an answer without its list.
WeiboReads(a) == a.code \in {"data", "empty"}
WeiboEnds(a) ==
  /\ kind = "weibo" /\ ~JsonRetries(a)
  /\ IF WeiboReads(a) THEN BoardRead ELSE Ends("failed")
  /\ UNCHANGED <<wait, limits>>

\* The Wikimedia ranking is that of the latest day that has one, and as many
\* batches of details are asked for as its titles fill.
RankingEnds(a) ==
  /\ fetch.board <= Boards
  /\ IF a.code = "data"
     THEN /\ \E none \in 0..Batches : Open(Boards + none + 1)
          /\ UNCHANGED outcome
     ELSE IF fetch.board = Boards THEN Ends("failed") ELSE BoardRead
DetailsEnd(a) ==
  /\ fetch.board > Boards
  /\ IF a.code \in {"data", "empty"} THEN BoardRead ELSE Ends("failed")
WikimediaEnds(a) ==
  /\ kind = "wikimedia" /\ ~JsonRetries(a)
  /\ RankingEnds(a) \/ DetailsEnd(a)
  /\ UNCHANGED <<wait, limits>>

\* The feed takes JSON it cannot read for an empty one.
FeedEnds(a) ==
  /\ kind = "feed" /\ ~JsonRetries(a)
  /\ IF Arrived(a) THEN BoardRead ELSE Ends("failed")
  /\ UNCHANGED <<wait, limits>>

RequestEnds ==
  /\ fetch.at = "sent"
  /\ \E a \in Answers :
       /\ \/ JsonRetry(a) \/ XRegionEnds(a) \/ YouTubeRegionEnds(a)
          \/ QianfanTabEnds(a) \/ WeiboEnds(a) \/ WikimediaEnds(a) \/ FeedEnds(a)
       /\ told' = Shortest(Cap, a.ask)
       /\ closed' = IF kind = "x" THEN Longest(closed, a.ask) ELSE closed
  /\ UNCHANGED <<kind, since>>

-----------------------------------------------------------------------------
(* Time.                                                                   *)

Less(t) == IF t = 0 THEN 0 ELSE t - 1

TimePasses ==
  /\ wait' = Less(wait) /\ window' = Less(window)
  /\ pace' = Less(pace) /\ hold' = Less(hold)
  /\ since' = Shortest(Interval, since + 1)
  /\ told' = Less(told) /\ closed' = Less(closed)
  /\ UNCHANGED <<kind, fetch, outcome>>

FetchNext == Start \/ OpenBoard \/ Finish \/ Send \/ RequestEnds \/ TimePasses

\* Time goes on, the process takes its steps, and every request ends, by its
\* answer or by AbortSignal.timeout.  Nobody has to start a fetch.
FetchSpec == FetchInit /\ [][FetchNext]_fetchVars
FairSpec ==
  /\ FetchSpec
  /\ WF_fetchVars(TimePasses) /\ WF_fetchVars(OpenBoard) /\ WF_fetchVars(Finish)
  /\ WF_fetchVars(Send) /\ WF_fetchVars(RequestEnds)

-----------------------------------------------------------------------------
(* Properties.                                                             *)

\* No request is sent before its time: none to X while a wait X asked for is
\* not over, whether for the fetch's next region or for the next fetch; none
\* to Qianfan within the interval of the request before, of this fetch or
\* of the last one; and no second attempt, of whichever loop, before the wait
\* the first was told of is over, as far as a retry agrees to wait.
SendsInTime ==
  fetch'.at = "sent" /\ fetch.at # "sent" =>
    /\ kind = "x" => closed = 0
    /\ kind = "qianfan" => since = Interval
    /\ fetch.attempt > 0 => told = 0
WaitsAsTold == [][SendsInTime]_fetchVars

\* A fetch ends, however its requests do: TrendsService waits for every fetch
\* before a refresh ends, so one that does not would stop them all.
FetchEnds == fetch.at # "idle" ~> fetch.at = "idle"

=============================================================================
