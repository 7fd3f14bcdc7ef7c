------------------------------ MODULE Resolver ------------------------------
(***************************************************************************)
(* The resolver of the server (internal/resolver) and the reporter that    *)
(* reads its statistics (Server.reportStats).  Each request is a goroutine *)
(* that looks into the cache, then into the custom records, then asks the  *)
(* upstreams, and once more when the answer is truncated; on its way it    *)
(* counts, one critical section under statsMutex at a time.                *)
(*                                                                         *)
(* A question is its name, and an answer is where it came from.  Counters  *)
(* are bounded by the number of requests, MaxRequests.  The cache and the  *)
(* upstreams are the subject of Cache and UpstreamPool: here an entry may  *)
(* go at any time, and the upstreams may answer or fail.                   *)
(***************************************************************************)
EXTENDS Integers, FiniteSets

CONSTANTS
  Request,      \* goroutines calling Resolve
  Name,         \* the names that are asked about
  Owned,        \* the names with custom records
  MaxTracked,   \* maxTrackedDomains
  KeepTop,      \* keepTopDomains
  Performance,  \* LogPerformance
  Analytics,    \* LogAnalytics
  MaxRequests,  \* bound on the number of requests
  None

ASSUME ResolverAssumption ==
  /\ IsFiniteSet(Request) /\ IsFiniteSet(Name) /\ Owned \subseteq Name
  /\ MaxTracked \in Nat /\ KeepTop \in Nat /\ KeepTop <= MaxTracked
  /\ Performance \in BOOLEAN /\ Analytics \in BOOLEAN
  /\ MaxRequests \in Nat
  /\ None \notin Name
  /\ None \notin {"record", "answer", "truncated", "servfail", "formerr"}

VARIABLES
  window,      \* the counters total, cacheHits and cacheMisses
  taken,       \* what all windows taken so far held
  all,         \* all[n]: domainsAll, 0 for a name that is not in it
  recent,      \* recent[n]: domainsWindow
  report,      \* whether the reporter is to read the domains
  cached,      \* cached[n]: the answer in the cache
  started,     \* how many requests there were
  pc,          \* pc[r]: where Resolve is
  name,        \* name[r]: the name it is asked about, None without a question
  answer,      \* answer[r]
  asked        \* asked[r]: how often it asked the upstreams

stats == <<window, all, recent>>
locals == <<pc, name, answer, asked>>
vars == <<window, taken, all, recent, report, cached, started, locals>>

PC == {"none", "domain", "lookup", "hit", "miss", "records", "upstream", "store",
       "return"}

Zero == [total |-> 0, hits |-> 0, misses |-> 0]

Init ==
  /\ window = Zero /\ taken = Zero
  /\ all = [n \in Name |-> 0] /\ recent = [n \in Name |-> 0]
  /\ report = FALSE
  /\ cached = [n \in Name |-> None]
  /\ started = 0
  /\ pc = [r \in Request |-> "none"]
  /\ name = [r \in Request |-> None]
  /\ answer = [r \in Request |-> None]
  /\ asked = [r \in Request |-> 0]

Goto(r, label) == pc' = [pc EXCEPT ![r] = label]
Answer(r, a) == answer' = [answer EXCEPT ![r] = a]

-----------------------------------------------------------------------------
(* Resolve *)

\* recordTotal
Begin(r, n) ==
  /\ pc[r] = "none" /\ started < MaxRequests
  /\ started' = started + 1
  /\ window' = [window EXCEPT !.total = @ + 1]
  /\ name' = [name EXCEPT ![r] = n]
  /\ Goto(r, IF n = None THEN "miss" ELSE "domain")
  /\ UNCHANGED <<taken, all, recent, report, cached, answer, asked>>

Known(counts) == {n \in Name : counts[n] > 0}

\* topDomains: the names with the highest counts; of equals, any.
Top(counts, limit) ==
  IF Cardinality(Known(counts)) <= limit THEN {Known(counts)}
  ELSE {s \in SUBSET Known(counts) :
          /\ Cardinality(s) = limit
          /\ \A n \in s, m \in Known(counts) \ s : counts[n] >= counts[m]}

\* Mutant: the names that were asked about least are kept.
PrunedBottom(counts) ==
  IF Cardinality(Known(counts)) <= MaxTracked THEN {counts}
  ELSE {[n \in Name |-> IF n \in Known(counts) \ s THEN counts[n] ELSE 0] :
          s \in Top(counts, KeepTop)}

\* Mutant: the map is pruned one name too late.
PrunedLate(counts) ==
  IF Cardinality(Known(counts)) <= MaxTracked + 1 THEN {counts}
  ELSE {[n \in Name |-> IF n \in s THEN counts[n] ELSE 0] : s \in Top(counts, KeepTop)}

\* pruneDomainsAllLocked, when the map has become too large.
Pruned(counts) ==
  IF Cardinality(Known(counts)) <= MaxTracked THEN {counts}
  ELSE {[n \in Name |-> IF n \in s THEN counts[n] ELSE 0] : s \in Top(counts, KeepTop)}

\* recordDomain
CountDomain(r) ==
  /\ pc[r] = "domain"
  /\ all' \in Pruned([all EXCEPT ![name[r]] = @ + 1])
  /\ recent' = [recent EXCEPT ![name[r]] = @ + 1]
  /\ Goto(r, "lookup")
  /\ UNCHANGED <<window, taken, report, cached, started, name, answer, asked>>

\* cacheStore.Get
Lookup(r) ==
  /\ pc[r] = "lookup"
  /\ Goto(r, IF cached[name[r]] = None THEN "miss" ELSE "hit")
  /\ Answer(r, cached[name[r]])
  /\ UNCHANGED <<stats, taken, report, cached, started, name, asked>>

CountHit(r) ==
  /\ pc[r] = "hit"
  /\ window' = [window EXCEPT !.hits = @ + 1]
  /\ Goto(r, "return")
  /\ UNCHANGED <<taken, all, recent, report, cached, started, name, answer, asked>>

\* recordCacheMiss, also of a message without a question, which is then answered.
CountMiss(r) ==
  /\ pc[r] = "miss"
  /\ window' = [window EXCEPT !.misses = @ + 1]
  /\ IF name[r] = None THEN Goto(r, "return") /\ Answer(r, "formerr")
     ELSE Goto(r, "records") /\ UNCHANGED answer
  /\ UNCHANGED <<taken, all, recent, report, cached, started, name, asked>>

\* recordStore.Lookup: an owned name is answered here, with or without records.
Records(r) ==
  /\ pc[r] = "records"
  /\ IF name[r] \in Owned THEN Goto(r, "store") /\ Answer(r, "record")
     ELSE Goto(r, "upstream") /\ UNCHANGED answer
  /\ UNCHANGED <<stats, taken, report, cached, started, name, asked>>

\* Mutant: a truncated answer is stored like any other.
UpstreamStored(r) ==
  /\ pc[r] = "upstream"
  /\ asked' = [asked EXCEPT ![r] = @ + 1]
  /\ \/ Goto(r, "return") /\ Answer(r, "servfail")
     \/ Goto(r, "store") /\ Answer(r, "answer")
     \/ IF asked[r] = 0 THEN UNCHANGED <<pc, answer>>
        ELSE Goto(r, "store") /\ Answer(r, "truncated")
  /\ UNCHANGED <<stats, taken, report, cached, started, name>>

\* upstreamPool.Exchange, again with a larger buffer when truncated; an empty
\* pool, or an error, is a SERVFAIL.
Upstream(r) ==
  /\ pc[r] = "upstream"
  /\ asked' = [asked EXCEPT ![r] = @ + 1]
  /\ \/ Goto(r, "return") /\ Answer(r, "servfail")
     \/ Goto(r, "store") /\ Answer(r, "answer")
     \/ IF asked[r] = 0 THEN UNCHANGED <<pc, answer>>
        ELSE Goto(r, "return") /\ Answer(r, "truncated")
  /\ UNCHANGED <<stats, taken, report, cached, started, name>>

\* cacheStore.Set, which leaves out an NXDOMAIN.
Store(r) ==
  /\ pc[r] = "store"
  /\ \/ cached' = [cached EXCEPT ![name[r]] = answer[r]]
     \/ answer[r] = "answer" /\ UNCHANGED cached
  /\ Goto(r, "return")
  /\ UNCHANGED <<stats, taken, report, started, name, answer, asked>>

Return(r) ==
  /\ pc[r] = "return"
  /\ Goto(r, "none")
  /\ name' = [name EXCEPT ![r] = None]
  /\ Answer(r, None)
  /\ asked' = [asked EXCEPT ![r] = 0]
  /\ UNCHANGED <<stats, taken, report, cached, started>>

\* The entry of a name expires or is evicted.
Forget(n) ==
  /\ cached[n] # None
  /\ cached' = [cached EXCEPT ![n] = None]
  /\ UNCHANGED <<stats, taken, report, started, locals>>

-----------------------------------------------------------------------------
(* The reporter *)
Sum(v, w) ==
  [total |-> v.total + w.total, hits |-> v.hits + w.hits, misses |-> v.misses + w.misses]

\* Mutant: the misses of a window stay in the next one.
TakeWindowKept ==
  /\ Performance \/ Analytics
  /\ ~report /\ window # Zero
  /\ taken' = Sum(taken, window)
  /\ window' = [Zero EXCEPT !.misses = window.misses]
  /\ report' = (Analytics /\ window.total > 0)
  /\ UNCHANGED <<all, recent, cached, started, locals>>

\* TakeWindow; of a window without queries nothing is reported.
TakeWindow ==
  /\ Performance \/ Analytics
  /\ ~report /\ window # Zero
  /\ taken' = Sum(taken, window)
  /\ window' = Zero
  /\ report' = (Analytics /\ window.total > 0)
  /\ UNCHANGED <<all, recent, cached, started, locals>>

DomainStats ==
  /\ report
  /\ recent' = [n \in Name |-> 0]
  /\ report' = FALSE
  /\ UNCHANGED <<window, taken, all, cached, started, locals>>

\* The bound on requests is reached and all of them have returned.
Finished ==
  /\ started = MaxRequests /\ \A r \in Request : pc[r] = "none"
  /\ UNCHANGED vars

Next ==
  \/ \E r \in Request :
       \/ \E n \in Name \cup {None} : Begin(r, n)
       \/ CountDomain(r) \/ Lookup(r) \/ CountHit(r) \/ CountMiss(r) \/ Records(r)
       \/ Upstream(r) \/ Store(r) \/ Return(r)
  \/ \E n \in Name : Forget(n)
  \/ TakeWindow \/ DomainStats \/ Finished

Spec == Init /\ [][Next]_vars
-----------------------------------------------------------------------------
(* Type invariant of the resolver, the reporter and the requests. *)
Counters == [total : 0..MaxRequests, hits : 0..MaxRequests, misses : 0..MaxRequests]
Answers == {None, "record", "answer", "truncated", "servfail", "formerr"}

TypeOK ==
  /\ window \in Counters /\ taken \in Counters
  /\ all \in [Name -> 0..MaxRequests] /\ recent \in [Name -> 0..MaxRequests]
  /\ report \in BOOLEAN
  /\ cached \in [Name -> Answers]
  /\ started \in 0..MaxRequests
  /\ pc \in [Request -> PC]
  /\ name \in [Request -> Name \cup {None}]
  /\ answer \in [Request -> Answers]
  /\ asked \in [Request -> 0..2]

(* The windows together lose no request and count none twice, although one may *)
(* be counted in one window and its hit or miss in the next: every request is  *)
(* in one total, and every one that has come that far is one hit or one miss.  *)
Undecided == {r \in Request : pc[r] \in {"domain", "lookup", "hit", "miss"}}

EachCountedOnce ==
  LET sum == Sum(taken, window)
  IN  /\ sum.total = started
      /\ sum.hits + sum.misses + Cardinality(Undecided) = started

(* An answer about an owned name comes from the custom records, also when it   *)
(* comes from the cache, and no request that got a truncated answer lets it     *)
(* into the cache or returns it without having asked for it again.              *)
AnswersGenuine ==
  /\ \A n \in Name : cached[n] \in IF n \in Owned THEN {None, "record"} ELSE {None, "answer"}
  /\ \A r \in Request : name[r] \in Owned => asked[r] = 0
  /\ \A r \in Request : answer[r] = "truncated" => asked[r] = 2

(* "maxTrackedDomains bounds the all-time domain map", and what pruning drops *)
(* was not asked about more often than what it keeps.                         *)
AllTimeBounded == Cardinality(Known(all)) <= MaxTracked

TopKept ==
  [][\A n, m \in Name :
       all[n] > 0 /\ all'[n] = 0 /\ all'[m] > 0 => all'[m] >= all[n]]_vars
=============================================================================
