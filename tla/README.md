# Dasher in TLA+

A model of Dasher, the CDC event consumer under `src/dasher`: TLA+ modules
translated from its code, TLC runs on small instances, and TLAPS proofs for
instances of any size. `PROJECT.json` is the index: which definition stands for
which lines, what every run checks, which mutation of the code each property
catches, the findings and the hazards.

To check a run: `tlc -config <cfg> <module>`; to check the proofs of a module:
`tlapm <module>Proofs.tla`.

## The system

One process serves one application instance. `main` loads and validates the
configuration, builds the HTTP clients, the database pool and the lookups, and
starts one consumer goroutine per stream binding in an errgroup.

| Part | State | Operations | Interacts with |
|---|---|---|---|
| `internal/consume` | in Redis: stream, group cursor, pending list (PEL), members and their clocks; per consumer: place in the loop, batch, `inFlight`, the locals of three background goroutines | `Run`, `ensureGroup`, `selfReclaim`, `process`, `peerReclaim`, `gcConsumers`, `heartbeatLoop` | Redis, through which it meets its peers; the handler chain; the error policy |
| `cmd/dasher/main.go`, `dasher.go` | contexts, errgroup | wiring, signals, shutdown order, `FailLoud` | all parts |
| `internal/config` | none after start-up | `Load`, `validateInstance`, `detectEmitCycles`, `ResolveKey` | `main` |
| `internal/lookup` cache | map and LRU list with expiry times, a mutex | `Resolve`, `Get`, `Set` | shared by all bindings; database |
| `internal/lookup` runner, bind | none | `Run`, `ResolveBind` | cache, middleware |
| `internal/middleware` | none | `Enrich`, `EmitAfter` | runner, handler, producer |
| `internal/produce` | `closed` flag | `Emit`, `Close` | Redis |
| `internal/event` | none | `Parse` | consume |
| `internal/handlers`, `internal/registry` | none | `Forward`, `Lookup` | clients |
| `internal/services` | gateway token, its expiry, a mutex | `Do`, `getToken`, `authenticate`, `New`, `Close` | shared by all handlers |

What is hard here: consumers in different processes coordinate through single
Redis commands only, so every check-then-act over two commands can be overtaken;
each consumer has four goroutines of its own; the process can be killed between
any two steps and Redis replies can be lost; ownership of an entry is decided by
timers; caches are read and filled in separate critical sections.

What makes the parts correct:

* *consume*: an entry leaves the PEL only after a successful `Handle`; every
  delivered entry is acknowledged in the end although consumers die; an entry is
  handled twice only for the causes at-least-once delivery admits; one consumer
  handles in stream order; poison is never acknowledged.
* *handler chain*: an entry is acknowledged after both its side effect and its
  emit; nothing is emitted whose side effect did not happen; what one stage
  emits the next can read, and in the end it reaches the last one.
* *timers*: a live consumer that sends its heartbeats keeps the entry it works
  on, and a dead one's entries are taken over within a bounded time.
* *process*: exactly the sound configurations get to serve, and a cancelled
  process ends, whatever its consumers are doing. (That producer and pool are
  closed after the consumers is g.Wait, the guard of `CloseProducer`.)
* *config*: exactly the configurations whose emit graph has a cycle are refused.
* *lookup cache*: map and list agree within the capacity; answers are bounded in
  age; only single rows are cached; a bind is served its own answers.
* *gateway client*: logins are coalesced, a cached token is not used when it may
  expire on the way, and a slow login does not block the other streams for ever.

## The modules

| Module | Models |
|---|---|
| `AtLeastOnce` | what a consumer group promises: the abstract specification |
| `Consume` | `internal/consume` and the process around one consumer |
| `ConsumeProofs` | theorems about `Consume`: types, no loss, the refinement |
| `ConsumeOrderProofs` | more of them: poison, duplicates, order |
| `Envelope` | `event.Parse` and the fields `Producer.Emit` writes |
| `Pipeline` | one process with a chain of bindings: `main` from the first `g.Go` to the exit, `Enrich`, `Runner.Run`, `EmitAfter`, `Emit` and a consumer loop for each |
| `Heartbeat` | `heartbeatLoop` and `peerReclaim` with a clock, and the durations `Load` accepts |
| `Startup` | `main` up to `g.Wait`: `Load`, `validateInstance`, `services.New`, the lookup catalogue, `buildHandler`, the registry, `selectClient` |
| `EmitGraph` | the checks of stream bindings and `detectEmitCycles` |
| `LookupCache` | `cachedLookup`, `Cache` and the query timeout of `sqlLookup` |
| `Gateway` | `GatewayClient` under `handlers.Forward` |
| `PipelineProofs`, `HeartbeatProofs`, `StartupProofs`, `EmitGraphProofs`, `LookupCacheProofs`, `GatewayProofs` | theorems about the module they are named after |
| `MC...` | the instances TLC checks |

Definitions whose comment says *mutant* are plausible faults of the definition
they precede. No specification uses them; they show which property would notice.

### Consume

All consumers of one stream in one group. `len`, `base`, `last`, `owner`,
`stale` and `member` are what Redis knows; entries are numbered in stream order,
`owner[e]` is the PEL. `pc`, `batch`, `next` and `inFlight` are the main loop;
`hb`, `peerIds`, `peerStart` and `gcTodo` are what a background goroutine keeps
between two commands. `handled`, `disturbed`, `missed` and `orphaned` are
history that no action reads. One action is one Redis command or one local step:

* `EnsureGroup`; `SelfPending`, `SelfClaim` (selfReclaim); `Read`, `ReadEmpty`
  (XREADGROUP; an empty one may create the member or reset its idle clock,
  where Redis versions differ); `BeginProcess`, `HandleOk`, `HandleTransient`, `HandleFatal`,
  `BackoffElapsed`, `AckOk`, `AckError`, `AckRetry`, `WaitAborted` (process);
* `HeartbeatLoad`, `HeartbeatClaim`; `PeerPending`, `PeerClaim`; `GCInfo`,
  `GCDelete`, and the failing variant of each;
* faults: `Crash`, `Cancel`, `RedisError`, `ReadReplyLost`, and in `AckError` an
  XACK that Redis executed although its reply was lost.

Time is abstracted to two facts that may become true at any moment: a pending
entry has been idle for `reclaimMinIdle` (`stale`), a member for
`consumerGCTimeout` (`"idle"`). The model therefore covers every choice of the
durations, badly chosen ones included; what follows from good ones is the
subject of `Heartbeat`.

Merged or left out, and why that hides nothing:

* The start of the process and its XGROUP CREATE are one step: nothing of the
  consumer is visible before. An XGROUP CREATE that fails is a start that did not
  happen.
* A claim that Redis executed and whose reply was lost, so that `Run` returns, is
  `SelfClaim` followed by `Crash`; the same holds of a read.
* A good entry answered once with a poison error (a 401, say) is a `Crash` there.
  `Poisonous` is the set of entries that never succeed.
* Commands of a dead process that Redis has not yet read are not modelled.
* Retry counting and the growth of the backoff decide only log level and delay.
* Redis drops a trimmed entry from the PEL; nothing in the repository trims.

### Pipeline and Envelope

Binding `s` consumes stream `s` and, but for the last, emits to stream `s + 1`.
`stream`, `base`, `last` and `pel` are Redis; `proc`, `booted` and `ctx` are
`main` and the errgroup's context; `pc[s]`, `cur[s]` and `enr[s]` are the place
of consumer `s` in its loop and chain, its entry, and what `Enrich` put on the
event. `effects` (which side effects happened) and `excused` (which binding may
emit which event again: its XADD reply was lost, or it ended between emit and
XACK) are history. A chain is `EnrichOk`, `EnrichTransient`
or `EnrichPoison`; `HandleOk`, `HandleTransient`, `HandlePoison`, the last two with or without the
side effect; `EmitOk`,
`EmitError`, `EmitReplyLost`; `AckOk`, `AckError`. Every transient error leads
back to the enrichment with the event as parsed, since Go passes it by value.
`Runner.Run` is a function of the rows each lookup answers. `GoConsumer`,
`Signal`, `CloseProducer`, `Exit`, `Crash` and `Boot` are the process.

An entry is its envelope as `Envelope` has it: a JSON object is the set of its
columns with a value, a time is counted in half seconds because `Emit` drops the
fraction, and a field may be absent, blank or garbage.

The consumer loop is `Consume`'s with pages of one entry and no peers.
Background goroutines are left out: the errgroup does not wait for them, but
they use the Redis client only, which is closed by nobody while they run.
Backoff is left out: it delays only. A SIGTERM is a cancelled context, so
`Run` returns an error and the process exits with status 1.

### Heartbeat

One page in the hands of a consumer, its heartbeat, and one peer's reclaim loop,
in discrete time. Init takes each setting of the environment that `Load` accepts
(`Rejected` has its checks) and any phase of the heartbeat's and the reclaim
ticker; the third, of `consumerGCLoop`, is there for its period only, which must
not be 0. Idle times and MinIdle are cut to milliseconds on the wire, so Redis
may be a `grain` off when it compares them (`Stale`). `Tick` advances
the clocks; a ticker's tick is acted on within `delay`, and `BeatFail` and
`ScanFail` are commands that failed or took longer. `startIdle` is the idle time
with which an entry's turn came: 0 for the first one of a page, but as long as
the handling of its predecessors for the others.

### Startup

The file and the environment are one value, `cfg`, and Init is every one of
them over the given catalogue entries and bindings. Actions are the phases of
`Load` in their order, `NewServices`, one `BuildLookup` per catalogue entry in
any order (it is a Go map), and one `GoConsumer` per binding, while consumers
already started handle events (`Forward`). `LookupError` has the checks of type
and ttl that `buildLookupCatalog` makes a second time, against its own registry.
`pgxpool.NewWithConfig` may fail for a DSN that parses. The checks that other
modules have may pass or fail here.

### EmitGraph

`validateInstance` from the bindings on: each binding by itself in the order of
the checks, then `detectEmitCycles` with one action per loop iteration, call and
return of `dfs`; `stack` is the Go call stack. Init is *every* list of up to
`MaxBindings` bindings. A key is a model value, `Prefixed[n]` the key
`"<instance>.n"`; one of the names is itself such a key, because a raw name may
spell it. Lookups, services and enrich rules are in `Startup`.

### LookupCache

A call of `Resolve` is at most four steps: `Get` under the mutex, the query as
evaluated by the database, its reply together with the reading of the clock at
the top of `Set`, and `Set` under the mutex. Other callers, other
applications' writes and the clock come between any two. `Resolve` is called
with a bind; the cache knows its key only, and `MakeCacheKey` puts names and
values together as the code does, so two binds may have one key. Text is a
sequence of pieces that no property needs to split. The cache holds `<<b, n>>`,
the n-th version of the answer to bind b, so that it can be told whose answer
it serves and how old it is. The list `lru` has the most recently used key in front, as
`container/list` has it: `RemoveFirst` is `list.Remove` of a key's element,
`Front` drops the one `list.Back` returns. Nothing between the last row and the reading of the clock
blocks, and it is taken to fit into a tick.

### Gateway

One client, called by the handlers of several streams: `Forward` waits for the
mutex, `GetCached` or `BeginLogin` under it, `Issue` by the gateway, `LoginOk`
or `LoginFail`, then the request with `Accepted`, `Transient` or `Poisoned`
(the process exits and starts without a token). A token is known by its expiry
and the time it was granted for, which may be any; a request also knows whether
its token is `fresh`, from this call's own login, which nobody checks. Client and gateway share a clock; a cancelled context is one of the reasons for
`LoginFail` and `Transient`.

## The runs

| Run | Bounds | Shows |
|---|---|---|
| `consume_solo` | 1 consumer, 4 entries, pages of 2, entry 3 poison, 4 malformed, 2 faults | `InOrder`, `PoisonStays`, `PELFirst` |
| `consume_pair_faults` | 2 consumers, 1 entry, 2 faults, 1 idle member | `TypeOK`, `NoLoss`, `NoUnexcusedDuplicate`, `ImplementsPromise` |
| `consume_live` | 2 consumers, 1 entry, 1 fault, fairness | `EventuallyAcked` |
| `pipeline` | 2 bindings, 2 lookup rules, 2 entries of 4 kinds, 1 fault, fairness | `TypeOK`, `AckedIsThrough`, `EmittedIsHandled`, `CopiesExcused`, `EmittedIsWhole`, `ShutsDown`, `ReachesEnd` |
| `heartbeat` | a page of 2, 480 settings, delays 0 and 1, grains 0 and 1, 2 failing commands | `TakenOverInTime`, `StolenOnlyIfLate`, `HeartbeatProtects`, `PanicsOnlyAtOne` |
| `startup` | 2 bindings out of 6, 2 catalogue names with 4 kinds of entries, all environment variables | `TypeOK`, `ServesExactlySound`, `GapsAfterLoad`, `KilledByHandlerOnly`, `ForwardedOrUnnamed` |
| `emit_keys` | 3 bindings over two names and a name that spells the key of the first; both scopes | `TypeOK`, `NoFalseAlarm`, `CyclesFound`, `StackIsPath`, `Terminates` |
| `cache_race` | 2 callers, 3 binds with 2 keys, capacity 1, TTL 2 ± 1, timeout 1, 5 ticks, 1 write | `TypeOK`, `CacheConsistent`, `OnlySingleRows`, `BoundedStaleness`, `ServesOwnBind` |
| `gateway` | 2 callers, ticks of 10s and the code's 60s, 10s, 30s, lifetimes 30s, 40s, 50s and 80s, 80s in all, fairness | `TypeOK`, `LoginNeeded`, `TokenValidOnArrival`, `EveryCallReturns` |

Why the bounds are enough. Ownership races need an owner, a thief and one entry;
two faults allow a crash on top of a lost reply, or a crash of each consumer.
Pages need an entry more than one page holds, which four entries in pages of two
give twice. A cycle of the emit
graph that needs more than three keys differs from a three-key one in no
branch of `dfs`. An unknown scope
occurs in `emit_two_bindings` only: it ends validation before the graph is built.
Capacity 1 with two keys evicts on every second `Set`; five ticks are more than
timeout, TTL and jitter together, so that an entry can be filled, overwritten in
the database, and expire. Within eight ticks a token can be got, come within the
buffer, be renewed and be used again; the lifetimes are the 30s of the
repository's tests, the longest a login and a request can outlive, the next one,
and one beyond the buffer.

Two bindings are an upstream and a downstream stage; a third would meet its
neighbour the same way. The two entries of `pipeline` are drawn from an update
whose second bind column is in `old` only, an insert without `old`, a row
without columns (poison for the rules) and one that does not parse; one fault is a crash, a signal, a lost reply,
a Redis error, a missing row or a rejection, at any place, while transient
errors of lookup, handler, emit and XACK are unlimited. The page of two in
`heartbeat` has an entry with and one without a heartbeat; time is unbounded,
but entries that lie longer than `TakenOverInTime` allows would be a violation,
so the clocks stay small. A tick stands for a nanosecond or a millisecond, as one
likes to read it: with grain 0 clocks are exact, with grain 1 a comparison may be
a tick off. The settings include 0, 1, odd and even values on both
sides of each check. The six bindings of `startup` are a plain handler, a
handler with a lookup, a transform with two, a misspelt handler, one with
neither handler nor emit, and one with a bad bind column.

`EmitGraph` and `Startup` model programs that end, and in `Heartbeat` a process
may have panicked; deadlock is not checked there. It is in all others.

What the runs `pipeline`, `heartbeat` and `startup` say beyond "it holds": an
event may be handled at the last stage for certain only if no copy was emitted before that stage's group existed
(`ReachesEnd` needs `Skipped`); a configuration may pass validation and still not
start for exactly the five reasons in `GapsAfterLoad`, and for one of them, an
unregistered handler, consumers of earlier bindings are already at work
(`KilledByHandlerOnly`); a reclaimMinIdle of 1ns is accepted and panics
(`PanicsOnlyAtOne`); only the first entry of a page is protected by the
heartbeat from the start (`HeartbeatProtects`, `StolenOnlyIfLate`).

### Disagreements between comments and code

These runs are expected to end in a violation.

| Run | The comment | What happens |
|---|---|---|
| `consume_gc_race` | "The Pending==0 guard ensures we never delete a consumer that still has unprocessed work" (`consume.go:373`) | an idle member is delivered an entry between XINFO and DELCONSUMER and its PEL is deleted with it; in the trace the reply to its XREADGROUP is lost, so that nobody has the entry or gets it again (a crash before `Handle` does the same) |
| `consume_shared_name` | "the Consumer filter limits results to c.name — there are no live peers to protect against" (`consume.go:241`) | two bindings on one stream key pass validation and run under one consumer name: each reclaims what the other is handling |
| `emit_two_bindings` | "A → B → … → A is a genuine cycle and returns ErrEmitCycle" (`config.go:357`) | of two bindings on one key the map keeps one edge; a cycle through the other is accepted |

`NoLoss` states what remains true with the first one in the code: the pending
list of a deleted member is the only way an entry gets lost.

Smaller disagreements met while modelling, without a run of their own.
`MakeCacheKey` (`cache.go:55`) escapes nothing: `a="x|b=string:y", b="z"` and
`a="x", b="y|b=string:z"` have one key, and the row cached for one is served for
the other, though "Resolve runs the lookup for the given bind parameters"
(`lookup.go:19`). Both binds are in `cache_race`; `ServesOwnBind` therefore speaks
of binds whose values contain no `|name=`, and without that condition
(`Unmistakable`) TLC finds the wrong row in the cache after one call of `Resolve`. MinIdle=0
in selfReclaim and in the heartbeat ("we already own this entry",
`consume.go:150`) takes an entry back from a peer that reclaimed it since;
`SelfClaim`, `HeartbeatClaim` and `BeatClaim` model it so. `enrich.go:14` says
the result is merged into `evt.Enrichment`, which the code replaces. The comment
on `ErrMissingDBConfig` (`config.go:105`) expects a nil dereference at lookup
time where the factory refuses to start (`FactoryError`).

### Fairness

`consume_live` assumes, beyond the weak fairness of a running goroutine and of
the exit once `Run` has returned:

* a handler or an XACK that is tried again and again succeeds at last (strong
  fairness of `HandleOk`, `AckOk`); the code retries without limit;
* `reclaimLoop` keeps ticking (weak fairness of `PeerPending`, `PeerClaim`) and
  untouched pending entries grow old;
* one consumer, p2, is restarted whenever it has exited; p1 need not be;
* from some time on, no entry grows stale under a consumer that is between two
  messages. A round of the main loop takes at most the block time of 2s,
  `reclaimMinIdle` is 30s. Without this TLC shows two idle consumers reclaiming
  an entry from each other for ever before either looks at it.

`pipeline` assumes weak fairness of each consumer, of `main` and of the
supervisor that restarts the process, and strong fairness of `EnrichOk`,
`HandleOk`, `EmitOk` and `AckOk`: an operation that the code retries without
limit succeeds at last. For `EmitOk` this takes for granted that the event can be
encoded: a NaN in a looked-up row makes `json.Marshal` (`produce.go:74`) fail at
every retry, and such an event never leaves its stage. `ReachesEnd` further supposes that all entries are good,
since a bad one stops its consumer at every restart.

`gateway` assumes that login and request end (their timeouts) and strong
fairness of taking the mutex, which Go's `sync.Mutex` gives in its starvation
mode. `emit_keys` assumes that a sequential program goes on.

## The proofs

Every invariant and every action property that a run expects to hold is also a
theorem, for all values of the constants its module's assumptions allow. The
runs keep their place: they show that the interesting states are reached, which
mutations the properties notice, and they alone speak of liveness. In each proof module
the invariant's parts are named, a lemma per action (or per effect an action
can have) shows that it is kept, and the properties are read off at the end. All
inductive invariants were model-checked with the bounds of the module's run.

**`ConsumeProofs`**, from `ConstantsAssumption` only, for any number of consumers,
names (shared or not), entries, faults and any page size:

* `TypeCorrect`: `Spec => []TypeOK`;
* `NothingLost`: `Spec => []NoLoss`, at-least-once delivery;
* `KeepsPromise`: `Spec => ImplementsPromise`, `Consume` implements
  `AtLeastOnce` with the delivered, pending and orphaned entries as its state.

`NoLoss` is not inductive: that an XACK removes only a handled entry depends on
where the consumer is. `IInv` adds that `inFlight` is an entry from publishing to
acknowledgement (`Working`), that a consumer about to acknowledge has handled
what it holds (`AckedHandled`), that batches hold delivered entries only
(`HeldDelivered`), that a running consumer has a group (`Started`), and that
nothing is pending, handled or orphaned that was not delivered (`Accounting`).
The proof shows that each step of `Consume` is a step of `AtLeastOnce` or a
stutter (`ConsumerStepPromise`) and keeps the local parts (`ConsumerStepLocal`);
`Accounting` then follows from the abstract steps alone (`PromiseAccounting`).

**`ConsumeOrderProofs`** reduces the actions of a consumer to seven effects on its
main loop and to what can happen to owners (`StepFootprint`), and proves from
that and `IInv`:

* `PoisonNeverAcked`: `PoisonStays`. The strengthening (`Clean`) is that none
  of these entries is handled and a malformed one is never in flight.
* `DuplicatesExcused`: `NoUnexcusedDuplicate`, and `NoLivePeer`:
  `OwnPageUnshared`, both under `DistinctNames`. `Single` says who may hold an
  undisturbed entry: its owner only, in one place, and not at all once it was
  handled and acknowledged. The assumption is needed: `consume_shared_name` is
  the counterexample. Nothing in the code enforces it; it holds when host
  names differ and no two bindings are on one stream key.
* `SerialInOrder`: `InOrder` under `OneConsumer`. `Ordered` says that a page
  is cut off the front of what is still to be handled, that the entry in flight
  comes before all the rest of it, and that new entries are read only when
  nothing is left; entries of a reply that was lost do not count.
* `OldBeforeNew`: `PELFirst` under `OneConsumer`, lost replies included. The
  strengthening is `LastPageIsAll`: a page after which selfReclaim will not look
  again has everything that is pending.
* `LostByGCOnly`: while no member is idle for `consumerGCTimeout`
  (`MaxIdles = 0`; entries still go stale and are claimed), every delivered entry
  is handled or pending. `gcConsumers` is the only way to lose one, and
  `consume_gc_race` shows that it is one.

**`PipelineProofs`**, for any number of bindings, rules and faults, from
`PipelineAssumption` (WALker's entries are entries: `Inputs \subseteq Entries`):
`TypeCorrect`, `AckedThrough`, `HandledBeforeEmit`, `EmitsWhole` and
`NoSpuriousCopies`. `PInv` adds to the properties what a consumer knows at its
place in the chain (`ChainOK`: at the emit the side effect has happened, at the
XACK the copy is written), that what is neither pending nor ahead of the cursor
is through (`ThroughOK`), and that every entry of a downstream stream is the
`Envelope` of an upstream one that parses (`SourceOK`); `EnvelopeParses` is the
round trip of `Emit` and `Parse`. `CopiesExcused` needs a second invariant,
`Copies`: an event that still waits at a stage and is on the next stream already
was emitted by the consumer about to acknowledge it, or is excused there.

**`HeartbeatProofs`**, for any settings, delays, phases of the tickers and numbers
of failures: `TakenOver`, `StolenLate`, `Protected`, `PanicsAtOne`. `Beaten` and
`Scanned` bound the idle time of an entry at any moment: a period for each
command that failed, one if the present tick is not yet acted on, and the time
since that tick; `Ticking` ties the age of a tick to the ticker. That the
products of periods and failures grow by one period at a failure is a lemma.

**`LookupCacheProofs`**, for any callers, columns, binds, capacity and durations,
from `CacheAssumption`: `TypeCorrect`, `MapAndListAgree`, `CachesSingleRows`,
`StalenessBounded`, and `OwnAnswers`: `ServesOwnBind`, if such a bind shares its
key with no other (`NoCollision`). That is a fact about concatenation which the
prover cannot establish for all lengths; `cache_race` checks `ServesOwnBind`
without assuming it. `CInv` says that the list has each key of the map once
(`ListOK`), that a query's answer was current when or after it began (`CallOK`),
and that whatever waits for the mutex in `Set`, or is cached, expires in time
(`Servable`). The lemmas are about lists without duplicates.

**`EmitGraphProofs`**, for any names, scopes and list of bindings: `TypeCorrect`,
`PathOfVisiting`, `AlarmsAreCycles`, `AcceptedHasNoCycle`. A back edge closes the
part of the stack from its target on (`BackEdge`), hence no false alarm. For the
converse `VisitedOK` says that visited keys lead to visited keys only and that
no set of visited keys is closed under the edges; when dfs leaves a key, a closed
set with that key would have been closed without it. At the end all roots are
visited (`RootsOK`) and, with one emit per key, the map has all the edges.

**`StartupProofs`**, for any catalogue entries, bindings and environment:
`TypeCorrect`, `ServesSound`, `Gaps`, `Killed`, `Forwarded`. The invariant lists
what has been checked (`LoadedOK`) and built (`BuiltOK`) when main is at a
certain place, and that consumers run for the bindings before the loop's index
only (`RunningOK`). `BindingErrorFacts` shows that the loop over a binding's
rules finds an error iff there is a bad rule.

**`GatewayProofs`**, from `GatewayAssumption` (the buffer is no shorter than the
request timeout; lifetimes are any numbers): `TypeCorrect`; `LoginsCoalesce`:
`LoginNeeded`; `ExpiredOnlyIfShortLived`: `TokenValidOnArrival`. The
strengthening is `TokenOutlivesUse`: a long-lived token in a login reply outlives
the rest of the login and a request, and a cached or long-lived one in a request
outlives the request.

Only model-checked: `EventuallyAcked`, `ReachesEnd`, `ShutsDown`, `Terminates` and
`EveryCallReturns`, since fairness and ENABLED are beyond the prover, and the
three violations, which are counterexamples.

## Not modelled, and the plan

Not modelled: the HTTP, SQL and Redis drivers, logging, YAML decoding,
`normalizeNumber` and `ValidColumn` (conversions of text no property here tells
apart), commands of a dead process that are still on their way to Redis, and
time inside `Pipeline`.

What could still be proved:

1. An abstract specification of the cache (a map from keys to answers with
   expiry times, no list) that `LookupCache` implements.
2. The safety part of termination: each step of `EmitGraph` decreases a rank.
