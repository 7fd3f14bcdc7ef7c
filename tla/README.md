# A TLA+ model of dns-over-minecraft

dns-over-minecraft carries DNS over the status exchange of the Minecraft protocol. A client
resolves locally: it answers from its cache, asks the DNS servers of an active VPN connection, or
hides the query in the server address of a Minecraft handshake. The server takes the handshake
apart, resolves the query and returns the answer in the favicon of a server status.

The modules here model the parts of the program in which things happen at the same time, out of
order, late or not at all, and the bytes the two sides exchange. TLC checks them on small
instances and TLAPS proves all safety properties for all values of their constants.
`PROJECT.json` maps every definition to the lines it models and lists the hazards at the lines where
they bite.

## 1. The system

| component | code | state | operations |
|---|---|---|---|
| server connections | `internal/mc/server.go` | `connSlots`, deadlines | accept loop, `handleConn`, `rejectAndClose`, `handleLogin`, `handlePing` |
| rate limiter | `internal/mc/ratelimit.go` | a token bucket per address | `Allow`, `cleanup` once a minute |
| fragment assembler | `internal/mc/fragment.go` | `sets`, each set's pieces, `started`, `resultReady`, result | `add`, `reassemble`, `storeResult`, `waitResult`, `purgeLocked` |
| resolver, statistics | `internal/resolver` | counters, two maps of domains | `Resolve`, `TakeWindow`, `DomainStats`, pruning |
| cache | `internal/cache` | map and list of entries | `Get`, `Set`, eviction |
| custom records | `internal/records` | none after the start | `Lookup` |
| upstream pool | `internal/upstream/upstream.go` | ordered list, response times | `Exchange`, `recordSuccess` |
| upstream connections | `conn_pool.go`, `tcp.go`, `dot.go` | `idle`, `total` | `acquire`, `release`, `dialFresh`, `Exchange` |
| DoH upstream | `doh.go` | none | one HTTP request |
| client resolver | `internal/client` | `nextServer`, a cache | `Resolve`, `queryVpn`, `pickServer` |
| client listener | `internal/client/server.go` | two DNS servers | `ListenAndServe`, shutdown |
| VPN DNS provider | `internal/vpndns` | the snapshot `servers` | `refreshOnce`, `Start`, `Servers` |
| fragmented query | `internal/mc/client.go` | nonce, next piece | `Query`, `queryFragmented`, `exchange` |
| frames | `frame.go`, `varint.go`, `status.go` | how far a connection has been read | read and write |
| DNS codec | `internal/dnscodec` | name tables while coding | queries to text and back, responses to bytes and back |
| command line | `cmd/dnsmc` | none | `runClientService`, `attachVPN`, wiring, printing |
| configuration | `internal/config` | none | read once |

How they interact. The accept loop starts a goroutine per connection. A handler asks the rate
limiter, reads a handshake and a status request under a deadline, checks the passphrase, and then
either hands a piece of a query to the assembler or calls the resolver. The completer of a
fragment set calls the resolver for all of its connections; the connection of the last piece waits
on the channel `resultReady`. The resolver consults the cache, the custom records and the upstream
pool; the pool copies its list and tries upstreams in order; a TCP or DoT upstream takes a
connection from its own pool. The statistics reporter and the rate limiter's cleanup run beside
all of it. On the client every DNS query is a goroutine that shares the cache, the round-robin
counter and the provider's snapshot, which a poller replaces every few seconds over D-Bus.

What is hard:

- **Interleaving**: pieces of one query that arrive at once; Gets that age the records of a shared
  entry with no lock held; a Get that removes by key after releasing the lock; requests iterating
  a list that others sort; queries sharing a counter.
- **Time**: five seconds for the write deadline and for `waitResult`, four for the resolver, two
  for the handshake and the ping: who gives up first decides what a peer sees.
- **Accounting**: connection slots, the connection pool's `total`, tokens, statistics: each has
  many ways out and must be corrected on every one.
- **Two sides that must agree**: frames in a stream of bytes, tables of names that encoder and
  decoder each build on their own, a client that takes a refusal for an acknowledgement.
- **Start and stop**: servers that are shut down before they have started, errors that arrive while
  nobody takes them, a poller that outlives or underlives what it serves.
- **Failure**: failed dials, stale connections, truncated answers, D-Bus calls that fail in the
  middle of a refresh, peers that fall silent.

What makes each component correct:

| component | must hold |
|---|---|
| assembler | a set is completed once, and then everybody gets the one result; an answer is about one query, whole and in order |
| cache | map and list agree; live entries are not lost; a TTL is too long by no more than the time between racing Gets' clock readings |
| connection pool | no slot leaks; no connection is shared or reused after a failure; nobody waits for ever |
| upstream pool | tiers in order, each upstream once, failure only after all |
| resolver | each request counted once; owned names never leave the server; nothing incomplete is cached; bounded map |
| rate limiter | burst and rate over every window; cleanup changes nothing |
| server connections | slots, admission before work, a bounded life |
| VPN provider | each snapshot has what was there throughout and only what was there at some time, and snapshots follow the network |
| client | VPN servers first, no leak without fallback, fail-over over all servers |
| client service | it stops when told to, and leaves no query, goroutine or error behind |
| fragmented query | a refused piece dooms its query and nothing else keeps one waiting; tokens enough are enough |
| frames and codec | frames in step however bytes arrive; the server resolves what was asked; the client reads the names that were sent |

## 2. The modules

Every component has its module, an `...MC` module with the instance for TLC, and where there are
theorems a `...Proofs` module: `UpstreamProofs` for *ConnPool* and *UpstreamPool*, `ClientProofs` for *VpnDns*,
*Client* and *ClientService*, `ExchangeProofs` for *Exchange* and the codes under it. Two modules that one
`...Proofs` module extends have no name in common. Names are the source's where TLA+ allows it.

**Fragments** (with the abstract **OneShot**). One action per critical section or channel
operation of the handler of a piece: `Open` (a handshake `isFragmented` accepts), `Lookup` and
`Store` (the two critical sections of `add`), `Reassemble`, `Resolve`, `StoreResult` and
`CloseReady` (`storeResult` assigns under the mutex and closes the channel afterwards),
`WaitReady` and `WaitTimeout` (the two cases of the select), `Reply`. Sets are heap objects named
by the connection that created them: a connection keeps its pointer to a set that `purgeLocked`
has dropped from the map. A piece is the query it belongs to, so a text that mixes two queries or
lacks a piece can be told apart. `OneShot` is what a set promises: a cell claimed once, filled
once, and read only with the value it was filled with. Two queries that share a nonce do share a
set, as in the code; only `OwnAnswer` assumes they do not.

**Cache**. `Set` is one action, with eviction in it. `Get` is eight, because only its first lookup
and its last move or removal hold the lock: the age is checked, and the records of the shared
entry are read and written back, while others do the same. A message is one record TTL; entries
have ages instead of time stamps. Seconds pass between any two steps. What nobody points to is blanked,
which is the garbage collector. `earliest` is a history variable: when a Get reads the clock, the least
reading of the Gets then at work on the same records.

**ConnPool**. Each worker runs `Exchange` of `tcp.go` and `dot.go`, which are the same up to the
dial. The count is corrected in a step after the close, as in the code; `dialFresh` is outside the
count. A failed exchange may leave a response on its connection (`owed`).

**UpstreamPool**. `Exchange` copies the list, then goes over its copy; `recordSuccess` updates the
moving average and sorts in one critical section. The average is any value between the old one
and the sample, which covers every weight. A request has the four seconds of the handler for all of
its upstreams (`left`, in ticks); a DoH exchange has no more than its own timeout (`Patience`), a TCP
or DoT one whatever is left, because its dial and its wait are bounded by the request alone. `AskAgain` is
the resolver's second `Exchange` for a truncated answer (`resolver.go:89-94`): a new copy of the list, and of
the time only what is left (`given`).

**Resolver**. `Resolve` step by step with one action per critical section of `stats.go`; pruning is
part of `CountDomain`; the reporter's `TakeWindow` and `DomainStats` are separate calls, as in
`reportStats`. `taken` is a history variable: the sum of the windows that were reported.

**RateLimiter** (with the abstract **TokenBucket**). `Allow` refills lazily and spends; `Cleanup`
drops idle buckets, and a new address starts with a full one. `TokenBucket` refills every bucket
at every tick and never drops one. One token is gained per tick: the unit of time is 1/rate.

**FragmentedQuery** extends `RateLimiter` with the clients that spend its tokens: `queryFragmented`
sends piece after piece, each an ordinary request to the server. `Piece` is one that is stored,
`Limited` and `Crowded` are those refused with an ordinary status, which the client takes for an
acknowledgement (`GoOn`) unless it is the last; `Lose`, `TimeOut` and `Purge` are what else can
happen. The set of pieces is seen from outside: what `Fragments` shows in detail is here one set
per query. `calm` and `spoiled` are history variables: had the query tokens for all of its pieces when it
started, and nobody else took any or lost it a piece; and was a piece of it refused unnoticed, or purged.

**Frames**, **QueryCodec** and **NameCodec** are the codes. `Frames` and `QueryCodec` are operators over
sequences of bytes and characters: VarInt, strings, frames and handshakes; the query's wire, base32
bit by bit, the addresses it is cut into and what the server takes out of them. A reader's result
says whether it has a value, needs more bytes, or fails, so that one definition serves a stream
and a buffer. `NameCodec` has two states, the encoder's and the decoder's tables, and an action per
name.

**Exchange** puts the three on a connection. One side is `exchange` of `mc/client.go` or a Minecraft
player, the other `handleConn`; each direction is the bytes written, how many have arrived and how
many have been read, and `Arrive` lets one more or all of them arrive at any time. Everything from
the query to the resolver and from its answer's names to the client is followed; deadlines are a
`Hangup` at any time. A status that is misread (the last but one item of section 5) does not parse as JSON, and
the client fails.

**ServerConn**. The accept loop with `connSlots`, and the path of every connection through
`handleConn` or `rejectAndClose` with the deadlines set on the way. What the peer sends, what the
limiter says and what the resolver does are arbitrary, so the module stands for every behaviour of
the modules above. A name in `Conn` can be used again after the next tick.

**VpnDns**. A refresh call by call: the list of active connections, those still being activated or already
going down among them; then of each its type and state (`CheckConnection`), and then its servers
(`ReadServers`). The first call's error fails the refresh; errors of later ones only leave servers out.
NetworkManager is external: connections come, change and go between any two calls. `seen` and `steady` are
history variables: the WireGuard connections that were activated at some time during the refresh, and those
that were all the time and about which no call has failed.

**ClientService** extends `VpnDns` with what starts and stops it: `runClientService` and `attachVPN`
(`main`), the poller's goroutine (`poller`), and `ListenAndServe` of the client with the goroutines of
its two DNS servers (`srv`), the queries they handle (`busy`) and the channel of their errors
(`errs`). The servers are the DNS library's: they may fail to bind or fail later, `Shutdown` waits for the
queries, and one that has not bound yet is missed by it.

**Client** extends `VpnDns`, so queries run while the snapshot changes under them. The queries ask
one question; an answer is where it came from. `allowVpnFallback` is fixed at the start, either way.

## 3. The runs

| run | bounds | shows |
|---|---|---|
| Fragments | 3 connections, 2 queries of 2 pieces, timeouts 2/1/2 ticks | `CompletesOnce`, `FullSetServed`, `RepliesAgree`, `OwnAnswer`, `ResultDelivered`, `HandlersFinish`, `RefinesOneShot` |
| FragmentedQuery | 2 queries of 3 and 2 pieces behind one address, a burst of 3, windows of up to 4 ticks | `WindowBound`, `RefinesTokenBucket`, `RefusalDooms`, `QuotaEnough` |
| Exchange | 10 queries, 5 players, 6 strangers; addresses of 44 characters, frames of 80 bytes, up to 3 pieces, 4 records | `FramesInSync`, `NeverWaitsForMore`, `QueryUnderstood`, `AddressesFit`, `NamesRestored` |
| Cache | 2 Gets, 3 keys, room for 2, 3 entry objects | `Consistent`, `LiveEntriesStay`, `TTLNotTooLong` |
| CacheAging | 1 Get, 1 key | `HitTTLExact` is violated |
| ConnPool | 3 workers, 3 connections, a pool of 1 | `Accounting`, `Exclusive`, `IdleClean`, `RequestsEnd` |
| UpstreamPool | 2 requests, 3 upstreams in 2 tiers, 2 of them DoH, 2 ticks for a request and its retry | `FailoverFits`, `TiersInOrder`, `EachTriedOnce` |
| Resolver | 2 goroutines, 4 requests, 3 names (1 owned), room for 2 names | `EachCountedOnce`, `AnswersGenuine`, `AllTimeBounded`, `TopKept` |
| ServerConn | 3 connections, 1 slot, budgets 1/2/1/1 ticks | `SlotsAccounted`, `OnlyAdmitted`, `LifeBounded`, `ConnectionsEnd` |
| Client | 2 queries, 2 servers, a tunnel with 2 DNS servers, fallback on and off | `VpnFirst`, `FailoverAlone` |
| ClientConcurrent | 2 queries, 2 servers, no tunnel | `FailoverAlways` is violated |
| ClientService | a VPN connection and one of another type, a DNS server each, 1 query per server at a time | `NothingLeft`, `ServiceStops`, `SnapshotRegular`, `SnapshotFollows` |

Why the bounds are enough to be of interest:

- *Fragments*: three connections are the two pieces of a query and a duplicate of either, or one
  late piece that finds its set purged; two queries share the assembler's map and can purge each
  other's sets. Two ticks tell the resolver's timeout from the write deadline and from the purge.
- *FragmentedQuery*: a burst of three is the longer query's and less than both; so one can starve the
  other in the middle. The idle timeout is no shorter than a refill, as five minutes are longer
  than a second.
- *Exchange*: names with and without a TLD of the table, of letters of either case, types of one and of
  three bytes, EDNS sizes below 512, between multiples of 256 and at the most; queries that fit one
  address, need two or three, or more than are allowed. The limits are reduced so that all of that
  happens with names of a few labels (`MaxAddress` 44 for 255, `MaxLabelLength` 10 for 60, three
  pieces for 16, four bytes of VarInt for five, since TLC's integers have 32 bits). The strangers
  send what breaks each check of a frame. Each frame arrives in whichever pieces. The ordinary status has 123
  bytes, the one length that is misread; that of an answer has 130.
- *Cache*: three keys in two places force evictions while a Get holds a pointer; three objects are two in
  the list and the new one, so that a Get's entry can be replaced or evicted under it (only a Set that
  meets a full list while a third entry is held and gone is left out). Two Gets are at work on one entry, or on an entry and its successor,
  with seconds passing between their clock readings and their writes. Lifetimes of one and two seconds put
  expired behind live, and a record's TTL of three, more than the entry's life, shows one that is too long.
- *ConnPool*: with three workers and one place, one holds, one waits and one retries outside the
  count. Larger pools add only more of the same holders; the count is checked on every path.
- *UpstreamPool*: a tier of two that can be swapped under a request, and a tier above it. A tick is two
  seconds, a DoH upstream's default timeout; the two of them use up the four seconds. A retry
  begins with both ticks, one, or none.
- *Resolver*: one name more than fits forces a pruning; four requests outlive a window.
- *ServerConn*: one connection holds the slot, two are rejected or take their turn.
- *Client*: two attempts of two queries are the least in which they can disturb each other.
- *ClientService*: either server can fail before, while and after the other is shut down. Each connection can
  be on its way up or down, or gone, when its turn comes in a refresh; the one of another type must never count.
  What several VPN connections add, servers they share and a part of one's servers that is lost, is left to the
  theorem about `SnapshotRegular`.

Counters in the code that have no bound are bounded by what the model runs out of (connections,
`MaxRequests`, `MaxWindow`, `MaxBusy`), or are kept modulo what the code uses (`nextServer`), or stop
at the value beyond which nothing reads them (ages and timers). Symmetry is used only in runs
without liveness properties.

**Fairness.** Weak fairness of each goroutine's own steps: the Go scheduler runs what can run.
Weak fairness of `Tick` where there is one: time passes. In `ServerConn` only the steps that are
*due* are fair (the server's own, and what an expired deadline forces), never what a peer sends;
that is why `ConnectionsEnd` says something. There a tick also separates two uses of a name, so
that no infinity of connections fits between two ticks. In `ConnPool` the end of a request's
context is fair, since every caller passes one with a timeout; what an upstream or a peer does is not,
beyond one of its outcomes happening. In `ClientService` the steps of `main`, of the servers' goroutines
and of the poller are fair; a query ends because `Resolve` and `exchange` have timeouts, and a refresh
goes on because D-Bus answers or fails and the ticker fires. No signal, query or failure has to come,
and `SnapshotFollows` is conditional on the network and the bus having calmed down and on a poller
that still runs. `FragmentedQuery`, `Exchange`, `Cache`, `UpstreamPool`, `Resolver`, `VpnDns` and `Client` state no liveness and
assume no fairness. `Prompt` in `Fragments` is the assumption that a step that can run takes less than a
tick; the property that needs it says so.

## 4. What is proved

| module | theorem | statement |
|---|---|---|
| FragmentsProofs | `TypeCorrect`, `CompletesOnceHolds`, `FullSetServedHolds`, `RepliesAgreeHolds`, `OwnAnswerHolds` | each invariant, for any connections, queries, keys, number of pieces and timeouts |
| FragmentsProofs | `ResultDeliveredHolds` | no query is resolved in vain, for any timeouts |
| FragmentsProofs | `Refinement` | `Spec => Cells!Spec`: a fragment set implements the one-shot cell |
| CacheProofs | `TypeCorrect`, `ConsistentHolds`, `LiveEntriesStayHolds`, `TTLNotTooLongHolds` | every property of the cache that a passing run checks, for any number of keys, Gets and places |
| RateLimiterProofs | `TypeCorrect`, `WindowBoundHolds`, `Refinement` | burst and rate over any window; cleanup cannot be noticed |
| RateLimiterProofs | `RefusalDoomsHolds`, `QuotaEnoughHolds` | fragmented queries, for any burst, any split and any number of neighbours |
| UpstreamProofs | `TypeCorrect`, `AccountingHolds`, `ExclusiveHolds`, `IdleCleanHolds` | every safety property of the connection pool, for any workers and any size |
| UpstreamProofs | `TiersInOrderHolds`, `EachTriedOnceHolds`, `FailoverFitsHolds` | every property of the upstream pool, for any number of upstreams, requests, priorities and timeouts |
| ServerConnProofs | `TypeCorrect`, `SlotsAccountedHolds`, `OnlyAdmittedHolds`, `LifeBoundedHolds` | every safety property of the handler, for any cap and any deadlines |
| ResolverProofs | `TypeCorrect`, `EachCountedOnceHolds`, `AnswersGenuineHolds`, `AllTimeBoundedHolds`, `TopKeptHolds` | counting, caching and pruning, for any requests, names and limits |
| ClientProofs | `SnapshotRegularHolds`, `TypeCorrect`, `VpnFirstHolds`, `FailoverAloneHolds` | the provider's snapshot and the client's order, for any connections, servers and queries |
| ClientProofs | `NothingLeftHolds`, `ProviderKept` | what is left when the service returns; `Client` and `ClientService` implement `VpnDns` |
| ExchangeProofs | `FramesInSyncHolds`, `NeverWaitsForMoreHolds` | frames and bytes, for any queries, players, strangers, replies, limits and pieces |
| ExchangeProofs | `AddressesFitHolds` | every address fits a handshake, if there is room for a piece |
| ExchangeProofs | `Base32Read`, `LabelsRead`, `QueryDecoded`, `HandshakeRead`, `AddressesRead` | what one side's coders undo of the other's, for every input |
| ExchangeProofs | `QueryUnderstoodHolds` | the server resolves what the client asked for, for any queries, secret, suffix and limits, if there is room for a piece |
| ExchangeProofs | `NamesRestoredHolds` | the client reads the owners the server wrote, in `Exchange` and whatever anybody sent |
| ExchangeProofs | `NamesTypeCorrect`, `OwnersRestored` | the decoder has the names the encoder sent, for any names and any number of records |

The only assumptions are those the modules name (`FragmentsAssumption` and so on), which TLC
evaluates in every run. The ones that carry weight: `WriteDeadline <= FragmentTimeout` (five
seconds each, `server.go` and `fragment.go:12`), on which `RepliesAgree` rests; an idle timeout of
at least one refill in `RateLimiter`, on which the refinement rests; the budgets of `ServerConn` in
their order (four seconds of work within five of writing), on which `LifeBounded` rests; `KeepTop <=
MaxTracked` in `Resolver`; three bytes or more for a VarInt, and nothing that is configured, asked or sent of
`Endless` (65536) bytes or more, a status of sixteen times that, so that three bytes are enough for every
length the program writes (`VarIntBytes` is five; a name has 255 bytes, an address too, a DNS answer 65535
before base64); names whose characters are bytes, and no more TLDs or pieces than a byte can number, since each
number is sent as one (`tldList` has 99 entries, `maxFragmentPieces` is 16); a nonce without a dot, which is base32;
the status of an answer is longer than 123 bytes, as `BuildStatusJSON` makes it (the last but one item of section
5); and at most one
question in `NameCodec`, which `DecodeQuery` and `validateResponse` see to and without which the tables do
part (the encoder lists only the first question's name, the decoder every one).

`NoneAssumption` says that the mark of what is not there yet is neither a query nor a name.

One hypothesis is the theorems' own: `RoomForPiece`, that passphrase and suffix leave an address room for the
shortest piece of a query and its dots. Nothing in the program sees to it (the last item of section 5), so
`AddressesFitHolds`, `AddressesRead` and `QueryUnderstoodHolds` assume it by name and no module does.
`ExchangeMC` evaluates it for its instance; the default suffix and the longest passphrase that `main.go`
accepts satisfy it.

*Fragments.* `CompletesOnce` is not inductive: nothing in it says why a second completer cannot
appear. `IInv` adds `Publishing` (whoever is between the decision and the publication holds a set
that is claimed, and is the only one), `Published` (closed exactly when the result is there and the
completer is through) and `Replies` (what a connection is about to send is the published
result, or it has run out of time: a wait's timer never runs ahead of the connection's age, so a
SERVFAIL of the timeout finds the deadline passed). `OwnInv` adds that the pieces of a set belong
to its key's query. The refinement follows from `IInv` with one case per action.

`ResultDelivered` is about time: `InTime` says that a prompt completer is at most as old as the resolver has
been at work, and not older than its timeout when it comes to publish; so whoever has published still may write,
and `Delivered` follows the published result from there to the reply.

*Cache.* `ConsistentHolds` needs `TypeInv`: `TypeOK` and `Holding`, that a Get in progress holds an
entry and a key. A new entry comes from outside `InUse`, so `Set` never takes one that is still
listed. `Consistent` is restated over the list, the map and the heap as arguments (`Matches`), and
the work is in the lemmas about `Without`: removing an element from a list of distinct elements
shortens it by one and leaves all others in it. `LiveEntriesStay` needs one more fact, `Stale`: what a Get
found expired stays expired, because ages only grow; so the live entry it removes is another one. For
`TTLNotTooLong`, `Ordered` says that the earliest reading a Get goes by is no later than its own and those of the
Gets it can race, and `Bounded` at each step how the TTL it has read or written compares with what is left of
the stored one: whatever another Get writes was computed from a reading no earlier than that, and from a TTL no
longer than the stored one (`Shrinking`).

*RateLimiter.* `WindowBound` needs the balance `spent + available <= burst + elapsed` for the
bucket under observation, including a bucket that does not exist, which counts as full. That is
also why cleanup is harmless: it drops only buckets that are full by then. Every step of `FragmentedQuery` is
for the limiter a request or nothing (`LimiterStep`), so all this holds of its specification too.
`RefusalDooms` needs `Followed`: while a query is being sent, it is spoiled exactly if a piece before the next one
is missing on the server. `QuotaEnough` is not inductive: `Provided` adds that a query nothing has disturbed has stored every piece it
sent, still has a token for each it has not, and has no active neighbour to take one.

*ConnPool.* The four properties need each other and one more, `Held`: a connection in use is open, and
until its exchange fails nobody's response is on its way to it. `Exclusive` needs `Held` because a dial
returns a connection that is not open; `IdleClean` needs it at the release. `BusyChanges` and
`CountKept` do the arithmetic of the count once: a step moves one worker, so the number of those that
count changes by one at most.

*UpstreamPool.* `Underway` says of a request that every upstream is in exactly one of three places: the rest of
its copy, those that failed, or the one it asks; and that none left has a higher priority than those it has
come to. That needs the list to be in tiers whenever it is copied (`ListReady`), hence that the sort yields a
permutation in order, which is proved from `Less` being a strict total order by placing each upstream behind
as many as are below it. `Accounted` adds up the time: what is left, the timeouts of those that failed and the
wait for the current one make at least what the exchange was given; the first is given the whole.

*ServerConn.* Slots need `FreesItsOwn`, that only a holder comes to free. `OnlyAdmitted` needs `Admitted`,
which says how far each check has let a connection come. `LifeBounded` needs `Timely`: the age of a
connection together with what its deadline leaves it never exceeds the latest end of where it is.

*Resolver.* `EachCountedOnce` is inductive with types, by counting the requests that are between two
critical sections. The types need `DomainsCounted`, that no name has been counted for a request that
has not come to its domain. `Honest` says of every step what a request knows there; `AnswersGenuine` is
its outcome. `AllTimeBounded` comes from the sum of what pruning keeps, `TopKept` from what `Top` is.

*Client.* `Grounded` says a refresh has found only what connections seen activated advertise; `Covered` that of a
connection activated throughout either its turn is still to come or all its servers have been found. `VpnFirst`
needs that a query which has come to the servers was allowed to (`MayTunnel`); `FailoverAlone` that an
undisturbed query has tried exactly the positions behind the next one (`Behind`), as many as it made
attempts, so after all of them every position. `NothingLeft` needs `ServiceInv`: only a server that is bound
has queries, and the shutdown is entered only for a signal or an error. Every step of either module is a step of
`VpnDns` or leaves it alone, which is `ProviderKept`; `SnapshotRegular`, proved of `VpnDns` alone, so holds
in both.

*NameCodec.* `InStep`: encoder and decoder hold the same three things after every name, and no name is
in the table twice. So a token says the same to both (`TokenRight`).

*Exchange.* The invariant has three parts. `Typed`: a direction never gives more than it was given. `Along`: on
both directions (`InSync`) the bytes are those of the frames written, one after the other, and the frames read
are the first of them; and nothing has been written before the server replies or read before the client's
status. `Shows`: the status written is the first frame, and what the client has shown is it, unless it is the
status that is misread. A step that writes
lays one more frame behind the others; a step that reads meets either the next frame or not enough bytes, since
`ReadFrame` of bytes that begin with a frame's is that frame or `More` (`FrameRead`). That rests on VarInts being
read as they were written (`VarIntRead`), for numbers of up to three bytes. `NeverWaitsForMore` needs only
`Typed`: of as many bytes as the largest frame has, `ReadFrame` never says `More`. `AddressesFit` counts: a base32
text has a length, its pieces are at most `MaxPieceLength` long, and with their dots they fit the budget
(`DotsFit`). The recursive functions of `Frames` and `QueryCodec` have values because their steps stay within a
set (`Recursion`), which is proved with the least number at which that fails in place of the library's
induction theorems.

*Reading back.* Each recursive function of `Frames` and `QueryCodec` is first shown to have its value, and then to
undo its counterpart by the least place at which it would not. `Base32Read` compares bit by bit (`BitSet`): a digit
is five of the bits, a byte is eight of them again (`RegroupedBits`), the length written is one that
`FromBase32` accepts (`Base32Length`) and the bits added at the end make no byte. `LabelsRead` goes from the last
label to the first, as `UnpackLabels` is defined: what lies behind the zero is of no use, and the length of each label
leads to the next. `ChunksJoined` finds each character behind as many dots as were put before it. `QueryDecoded` puts them
together with the magic, the code of the TLD and the type; `AddressesRead` takes the suffix, the passphrase and
the marker off again, and shows that the pieces put one behind the other are the text.

*QueryUnderstood* needs `Asks`, which says how far a query has come. Of the plan of addresses it is sent as
(`Wanted`) the client has so many behind it: between two connections (`Behind`) or in one of them (`Amid`). What the
server has been told is then the text of the pieces so far (`Told`), and once it is whole it has been understood. In a
connection `Amid` follows the address: it is the one written first into `up`, the one read first from there, which
`IInv` says is the same, and the one `ParseHandshake` has found in it. `Decided` is the step that matters: it
puts `AddressesRead` and `QueryDecoded` together. A connection that breaks ends the query (`GiveUp`), so there is nothing
to say of it but that no wrong query has been understood.

*NamesRestored* in `Exchange` needs `Named`: whatever text the server is sent, what `DecodeQuery` accepts has a
name, a sequence of labels; so the coders are handed names only, and their invariant (`NamesInv`), which is stated of
any set of names, holds of that set.

*Only model-checked*: the liveness properties `HandlersFinish`, `RequestsEnd`, `ConnectionsEnd`, `ServiceStops` and
`SnapshotFollows`. Liveness under fairness and `ENABLED` are out of the prover's reach. `RECURSIVE` operators there
are none.

## 5. Where code and words disagree

Two disagreements have a run whose counterexample shows them:

- `CacheAging`: `Get` subtracts an entry's whole age from its records on every hit and leaves
  `storedAt` alone (`cache.go:67-78`). A second hit subtracts it again, and TTLs reach zero early.
  The test (`cache_test.go:159-160`) wants 290 s ten seconds after storing 300 s, and looks at one
  hit only. `TTLNotTooLong` shows the error is on the safe side, except that a Get may undo
  what another has written that read the clock after it: then a TTL is too long by the seconds between the two.
- `ClientConcurrent`: an attempt takes the next value of a counter all queries advance, so a query
  can draw the same dead server each time; `config.client.yaml.example:8-9` says unreachable servers
  are skipped until a healthy one answers. `FailoverAlone` is what does hold.

Others were met while modelling; they follow from one or two lines and need no run:

- After the first D-Bus call of a refresh an error is swallowed and the poorer list is stored
  (`nm.go:60`); `provider.go:101-102` says failures leave the previous snapshot intact. In `VpnDns`
  it is `ReadFails` followed by `StoreSnapshot`.
- `Shutdown` misses a DNS server that has not bound its socket (`client/server.go:44`), and the client
  then waits for it for ever; a second signal is taken by the same context and does not help.
  `ServiceStops` excepts exactly this.
- The client does not tell the acknowledgement of a piece from a refusal (`mc/client.go:80`), although the
  server marks it (`fragment-ack`, `server.go:362`). A refused piece costs it a wait of five seconds for
  the last one's reply, and its query.
- TCP and DoT dials are bounded by the request, not by the upstream's `timeout` (`tcp.go:25`, `dot.go`), and two
  DoH upstreams that hang use up the request; the retry of a truncated answer has only what the first exchange left.
  `FailoverFits` is what remains of the failover.
- A cache hit returns the OPT record that was stored to a query without EDNS (`resolver.go:47-52`), although
  `codec.go:698-700` says it must not; and `Get` counts down the TTL field of that OPT record, which
  holds its flags (`cache.go:75-77`).
- Queries of the server to its upstreams have the message ID 0 (`codec.go:233`), so that the ID check of
  `doh.go:108` and of the DNS library tells nothing apart; `IdleClean` and the question are what
  protects a connection from a late response.
- The retry's `dialFresh` is outside the count (`tcp.go:52`), so more connections can be open than
  the bound `conn_pool.go:12-13` promises.
- `upstream.go:44` tries the higher priority number first; `README.md:125` says the lower.
- Without `LogAnalytics` nothing resets `domainsWindow` (`stats.go:55`), although `stats.go:26-28`
  prunes the other map so that memory does not grow.
- `MaxConnections` does not count rejected connections (`server.go:108`), which are accepted and
  served a status; `server.go:41` says it caps concurrent accepted connections.
- The client's cache is consulted before the VPN servers (`client.go:85`) and not flushed when a
  tunnel comes up; `README.md:171-173` promises VPN servers first.
- A zero in `security` disables a control according to `config.go:22-24` and `README.md:246-249`,
  and is replaced by the default in `config.go:220-225`.
- The client takes a status that starts with a brace for JSON without a length (`mc/client.go:165`), but a
  brace is also the length 123. The status of a DNS answer is longer than that; an ordinary server's of
  exactly 123 bytes is misread, and the client fails on it. `FramesInSync` says that no other status is.
- A passphrase of at most 64 characters (`main.go:308-320`) leaves room for pieces unless the suffix is very
  long; then the least piece of 40 characters (`client.go:67`) makes an address longer than 255, or a query
  becomes its own only piece, which the server does not take for one (`server.go:377`). `AddressesFit` and
  `QueryUnderstood` are checked and proved where the budget holds (`RoomForPiece`).

## 6. Not modelled

- *Configuration*: a table of defaults applied to a file that is read once, before anything else runs. Its
  values are constants here. A table of tests covers what a model could.
- *The contents of records*: types, classes, rdata and flags are copied between the DNS library's wire
  form and the compact one, field by field; base64 and JSON wrap them. `Exchange` follows the names,
  which are coded with state, and takes a status for a text of some length.
- *Names*: a dot or an escape within a label, which the DNS library writes with a backslash.
- *DoH*: one HTTP request. To `UpstreamPool` it is an upstream that answers or fails within its timeout.
- *Matching of custom records* is membership in a set; the simulated player count, the sample of players
  and logging have no effect on the rest.
- *Command line*: flags, printing and the construction of the parts; `ClientService` has the rest.
- *Deployment files and scripts* do not belong to the running program.

## 7. Plan

Done: every component but the configuration, in the order of the table in section 3.

Left:

1. A proof that `FragmentedQuery`'s set of pieces is what `Fragments` shows from outside, in place of the
   comment that says so.
2. The contents of records, if the compact form comes to be written with more state than the names'.
