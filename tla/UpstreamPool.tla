---------------------------- MODULE UpstreamPool ----------------------------
(***************************************************************************)
(* The pool of upstreams (internal/upstream/upstream.go): an ordered list  *)
(* of upstreams, which a request copies and then tries one after the       *)
(* other, while successes of other requests update the response times and  *)
(* sort the list again.                                                    *)
(*                                                                         *)
(* Only the order of the response times matters, so they are small         *)
(* numbers; the moving average of an old value and a sample is any value   *)
(* between them.  Upstreams are numbered in the order of their names.  An  *)
(* exchange with an upstream may succeed or fail at any time until it runs *)
(* out of time; how it goes about it is the subject of ConnPool.  All of a *)
(* request's attempts share the deadline of its context, and time passes   *)
(* in ticks.  The resolver asks once more when an answer is truncated      *)
(* (internal/resolver/resolver.go): a second exchange, of what is left of  *)
(* the same deadline.                                                      *)
(*                                                                         *)
(* ConnPool has none of the names here, so that a module can extend both.  *)
(***************************************************************************)
EXTENDS Integers, Sequences

CONSTANTS
  Caller,    \* goroutines calling Exchange
  Upstreams, \* how many upstreams there are
  Priority,  \* Priority[u]
  DoHs,      \* the upstreams asked over HTTPS; the others are TCP or DoT
  Timeout,   \* Timeout[u]: the upstream's timeout
  Budget,    \* the time a request has: the server's 4 s
  MaxTime    \* the longest response time

Upstream == 1..Upstreams

ASSUME UpstreamPoolAssumption ==
  /\ Upstreams \in Nat
  /\ Priority \in [Upstream -> Int]
  /\ DoHs \subseteq Upstream
  /\ Budget \in Nat /\ Timeout \in [Upstream -> Nat]
  /\ MaxTime \in Nat

VARIABLES
  upstreamList,  \* upstreamList
  ewma,          \* ewma[u], 0 for an upstream that is not in the map
  measured,      \* the upstreams in the map
  at,            \* at[r]: where Exchange is in goroutine r
  snapshot,      \* snapshot[r]: upstreamSnapshot, less those already tried
  tried,         \* tried[r]: the upstreams that failed
  current,       \* current[r]: the upstream it is asking, or 0
  left,          \* left[r]: the time until the deadline of its context
  waited,        \* waited[r]: the time it has been asking the current one
  again,         \* again[r]: whether this is the second exchange, for a truncated answer
  given          \* given[r]: the time there was when the exchange began

ranking == <<upstreamList, ewma, measured>>
request == <<left, again, given>>
callers == <<at, snapshot, tried, current, waited, request>>
failoverVars == <<ranking, callers>>

Stage == {"none", "try", "ask", "success", "answered", "failed"}

\* Mutant: a fast upstream goes before one of a higher priority.
LessFastest(u, v, times) ==
  \/ times[u] < times[v]
  \/ times[u] = times[v] /\ Priority[u] > Priority[v]
  \/ times[u] = times[v] /\ Priority[u] = Priority[v] /\ u < v

(* less: higher priority, then lower response time, then name. *)
Less(u, v, times) ==
  \/ Priority[u] > Priority[v]
  \/ Priority[u] = Priority[v] /\ times[u] < times[v]
  \/ Priority[u] = Priority[v] /\ times[u] = times[v] /\ u < v

\* sort.Slice by a strict total order: there is one such list.
Sorted(times) ==
  CHOOSE list \in [Upstream -> Upstream] :
    \A i, j \in Upstream : i < j => Less(list[i], list[j], times)

FailoverInit ==
  /\ ewma = [u \in Upstream |-> 0]
  /\ measured = {}
  /\ upstreamList = Sorted(ewma)
  /\ at = [r \in Caller |-> "none"]
  /\ snapshot = [r \in Caller |-> << >>]
  /\ tried = [r \in Caller |-> {}]
  /\ current = [r \in Caller |-> 0]
  /\ left = [r \in Caller |-> Budget]
  /\ waited = [r \in Caller |-> 0]
  /\ again = [r \in Caller |-> FALSE]
  /\ given = [r \in Caller |-> Budget]

MoveTo(r, label) == at' = [at EXCEPT ![r] = label]

(* Exchange copies the list under the read lock. *)
Begin(r) ==
  /\ at[r] = "none"
  /\ snapshot' = [snapshot EXCEPT ![r] = upstreamList]
  /\ MoveTo(r, "try")
  /\ UNCHANGED <<ranking, tried, current, waited, request>>

\* Mutant: a DoH client without a timeout of its own.
PatienceNone(u) == Budget

(* How long one exchange may take.  A DoH client has the upstream's timeout for  *)
(* all of it; over TCP the dial, or the wait for a connection of the pool, has   *)
(* only the deadline of the request.                                             *)
Patience(u) == IF u \in DoHs THEN Timeout[u] ELSE Budget

Tick(r) ==
  /\ at[r] = "ask" /\ left[r] > 0 /\ waited[r] < Patience(current[r])
  /\ left' = [left EXCEPT ![r] = @ - 1]
  /\ waited' = [waited EXCEPT ![r] = @ + 1]
  /\ UNCHANGED <<ranking, at, snapshot, tried, current, again, given>>

\* Mutant: the loop goes over the live list by position.
NextUpstreamLive(r) == upstreamList[Upstreams - Len(snapshot[r]) + 1]

\* The upstream the loop comes to.
NextUpstream(r) == Head(snapshot[r])

(* The loop: the context is checked before each upstream. *)
Ask(r) ==
  /\ at[r] = "try" /\ left[r] > 0 /\ snapshot[r] # << >>
  /\ current' = [current EXCEPT ![r] = NextUpstream(r)]
  /\ snapshot' = [snapshot EXCEPT ![r] = Tail(@)]
  /\ waited' = [waited EXCEPT ![r] = 0]
  /\ MoveTo(r, "ask")
  /\ UNCHANGED <<ranking, tried, request>>

Fail(r) ==
  /\ at[r] = "ask"
  /\ tried' = [tried EXCEPT ![r] = @ \cup {current[r]}]
  /\ current' = [current EXCEPT ![r] = 0]
  /\ MoveTo(r, "try")
  /\ UNCHANGED <<ranking, snapshot, waited, request>>

Succeed(r) ==
  /\ at[r] = "ask"
  /\ MoveTo(r, "success")
  /\ UNCHANGED <<ranking, snapshot, tried, current, waited, request>>

Between(old, sample) ==
  {t \in 0..MaxTime : (old <= t /\ t <= sample) \/ (sample <= t /\ t <= old)}

(* recordSuccess: under the lock, update the response time and sort. *)
RecordSuccess(r) ==
  /\ at[r] = "success"
  /\ \E sample \in 0..MaxTime :
       \E t \in IF current[r] \in measured THEN Between(ewma[current[r]], sample) ELSE {sample} :
         ewma' = [ewma EXCEPT ![current[r]] = t]
  /\ measured' = measured \cup {current[r]}
  /\ upstreamList' = Sorted(ewma')
  /\ MoveTo(r, "answered")
  /\ UNCHANGED <<snapshot, tried, current, waited, request>>

(* The context is done, or no upstream is left: an error is returned. *)
RunOut(r) ==
  /\ at[r] = "try"
  /\ left[r] = 0 \/ snapshot[r] = << >>
  /\ MoveTo(r, "failed")
  /\ UNCHANGED <<ranking, snapshot, tried, current, waited, request>>

(* The answer is truncated: Resolve calls Exchange again, with the same context. *)
AskAgain(r) ==
  /\ at[r] = "answered" /\ ~again[r]
  /\ again' = [again EXCEPT ![r] = TRUE]
  /\ given' = [given EXCEPT ![r] = left[r]]
  /\ snapshot' = [snapshot EXCEPT ![r] = upstreamList]
  /\ tried' = [tried EXCEPT ![r] = {}]
  /\ current' = [current EXCEPT ![r] = 0]
  /\ waited' = [waited EXCEPT ![r] = 0]
  /\ MoveTo(r, "try")
  /\ UNCHANGED <<ranking, left>>

Return(r) ==
  /\ at[r] \in {"answered", "failed"}
  /\ MoveTo(r, "none")
  /\ snapshot' = [snapshot EXCEPT ![r] = << >>]
  /\ tried' = [tried EXCEPT ![r] = {}]
  /\ current' = [current EXCEPT ![r] = 0]
  /\ left' = [left EXCEPT ![r] = Budget]
  /\ waited' = [waited EXCEPT ![r] = 0]
  /\ again' = [again EXCEPT ![r] = FALSE]
  /\ given' = [given EXCEPT ![r] = Budget]
  /\ UNCHANGED ranking

FailoverNext ==
  \E r \in Caller :
    \/ Begin(r) \/ Tick(r) \/ Ask(r) \/ Fail(r) \/ Succeed(r)
    \/ RecordSuccess(r) \/ RunOut(r) \/ AskAgain(r) \/ Return(r)

FailoverSpec == FailoverInit /\ [][FailoverNext]_failoverVars
-----------------------------------------------------------------------------
(* "Higher priority tiers are always tried first": an exchange asks an upstream  *)
(* only when every one of a higher priority has failed it, however often other  *)
(* requests reorder the list in the meantime.                                   *)
TiersInOrder ==
  \A r \in Caller : current[r] # 0 =>
    \A u \in Upstream : Priority[u] > Priority[current[r]] => u \in tried[r]

(* An exchange asks no upstream twice, and it fails only when the request's time *)
(* is up or when every upstream has failed it.                                   *)
EachTriedOnce ==
  /\ \A r \in Caller : current[r] \notin tried[r]
  /\ \A r \in Caller : at[r] = "failed" => left[r] = 0 \/ tried[r] = Upstream

\* The timeouts of some upstreams, added up.
TimeoutsOf(S) ==
  LET sum[n \in 0..Upstreams] ==
        IF n = 0 THEN 0 ELSE sum[n - 1] + IF n \in S THEN Timeout[n] ELSE 0
  IN  sum[Upstreams]

(* The failover reaches every upstream that the deadline has time for: an         *)
(* exchange gives up before it has asked them all only when a TCP or DoT          *)
(* upstream, which may take all the time there is, was among those it asked, or   *)
(* when the timeouts of those it asked add up to the time it had.  That is all of *)
(* the request's, except for the retry of a truncated answer, which has what the  *)
(* exchange that brought that answer has left of it.                              *)
FailoverFits ==
  \A r \in Caller : at[r] = "failed" /\ tried[r] # Upstream =>
    \/ tried[r] \ DoHs # {}
    \/ TimeoutsOf(tried[r]) >= IF again[r] THEN given[r] ELSE Budget
=============================================================================
