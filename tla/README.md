# TLA+ models of leartech-bus-common

`pkg/` is a library that services link: caches, locks, an event bus, a schema
migration manager, a client and server side for the Maestro event broker, and
thin wrappers of MongoDB and Redis. The library has no process of its own.
What is hard about it happens between the services that use it: several of
them share one MongoDB or one Redis server, their calls interleave, some of
these calls fail and some of these services die halfway.

The modules here model the parts with state, TLC checks them on small
instances, and TLAPS proves the main invariants for every size.

## 1. Inventory

| Component | Code | State | Operations | Interacts with |
|---|---|---|---|---|
| migration manager | `mongo/migration/{manager,node,migration,idos,dummy}.go` | the documents of collection `Migrations`, the marker document `InProgressMigration`; per run: the models loaded, the lists of nodes | `RunMigrations(steps)`: check, load, sort, insert the marker, forward or backward loop, remove the marker | MongoDB, the `Up`/`Down` of each migration, the managers of other services through the collection |
| Cache interface | `cache/cache.go` | keys with values | `Get`, `Set`, `Delete`, `DeleteKeysMatching` | its users, the lock |
| in-memory cache | `cache/cache_inmemory.go` | a mutex and a map of values with the time each was set | the same, expiry found out lazily by `Get` | clock |
| Redis cache | `cache/cache_redis.go` | none but the keys on the server | the same; `DeleteKeysMatching` is KEYS, then DEL | Redis, caches of other services on the same server |
| lock | `lock/{lock,locker}.go` | none but the keys of its cache | `AcquireLock` (Get, then Set), `ReleaseLock`, `TryFunc` | Cache |
| event bus | `events/{bus,envelope}.go` | none | `Publish` (defaults for tenant and correlation, JSON), `Subscribe` (decode, tenant filter) | a transport, handlers |
| Redis transport | `events/transport_redis.go` | mutex, `closed`, `subs`, WaitGroup, context, one goroutine for each subscription | `Publish`, `Subscribe`, `Close`, `consume` | go-redis, callbacks which may use the bus |
| in-memory transport | `events/transport_inmemory.go` | RWMutex, `closed`, handlers by topic | `Publish`, `Subscribe`, `Close` | handlers, on the goroutine of the publisher |
| Maestro consumer | `maestro/handler.go` | registry of events and handlers | `Register`, `Dispatch`, the HTTP handler that answers with a status | the broker, which may deliver again |
| Maestro producer | `maestro/producer.go` | none | `NewProducer`, `Announce` | the broker, a source of tokens that change |
| Maestro audience check | `maestro/audience.go` | none | decodes a token and compares its audience | `NewProducer` |
| Maestro HTTP client | `maestro/client_generated.go` | none | generated from `swagger.yaml`: builds requests, parses replies | the producer |
| queue | `queue/queue_redis.go` | a Redis list | `Push`, `Pop` | Redis, producers and consumers |
| Mongo indexes | `mongo/{index,collection}.go` | the indexes of a collection | list, compare, create | MongoDB, other services doing the same |
| mocks and test helpers | `*_mock.go`, `testutils` | the expectations and calls of a testify `Mock` | `EXPECT()`, `Run`, `Return`, `RunAndReturn` of 68 methods, the mocked methods, the cleanup of `NewMock…` | tests of the services, on several goroutines |
| wrappers | `mongo/{client,database,cursor}.go`, `redis/redis_client.go` | none | forwarding, one ping | drivers |
| the rest | `logger`, `random` | none of interest | | |

What makes each component correct, and what is hard about it:

* **migrations**: one run at a time over all services; documents and database
  agree; a run moves by the steps it was asked for; the marker goes away.
  Hard: services at any two calls of each other, a failure between any two
  calls, runs in both directions one after the other.
* **caches**: a `Get` answers what was last set and is neither deleted nor
  expired. Hard: lazy expiry, a server shared with others, the two commands of
  `DeleteKeysMatching`, errors that are logged and swallowed.
* **lock**: mutual exclusion, the lock stays held while `fn` runs, no lock
  stays behind. Hard: two calls to acquire, a TTL, silent failures, crashes.
* **Redis transport**: `Close` ends and leaves nothing open; handlers see messages
  in order, and once for each time the server took one. Hard: three critical sections
  with calls outside them, callbacks that use the transport from the goroutine that
  `Close` awaits, a PUBLISH that go-redis sends again.
* **in-memory transport**: a `Publish` calls exactly the subscriptions it found
  and returns. Hard: handlers outside the lock, nested `Publish`, `Close` meanwhile.
* **Maestro**: what a caller believes announced is with the broker; an event that
  the service handles is delivered until a handler has consumed it, and is
  given up for known causes only. Hard: lost replies and replies without the optional
  flag, redelivery while a handler still runs, replicas that restart with an empty
  registry and may serve before it is filled, errors of handlers that must reach the
  broker as what they are.
* **audience check**: a producer is built only with a token that Maestro takes. Hard:
  a claim has many shapes, null in a list among them, and the token that the client
  attaches is not the one checked, or changes after.
* **queue**: what was accepted is handed out once and in order. Hard: several
  consumers, an answer that is lost, a command that go-redis sends again, an
  element that is taken before it turns out not to decode.
* **indexes**: services that start together agree on the indexes. Hard: each creates
  from a list it read before, under names it does not hand to MongoDB.
* **mocks**: a test that passes made the calls it expects, and a mocked method does as
  its expectation was told. Hard: variadic parameters that travel as one argument,
  expectations that shadow each other, calls from other goroutines.

`PROJECT.json` lists the hazards line by line with the properties that cover them.

## 2. Modules

```
SchemaHistory <--refines-- Migration   <- MCMigration, MigrationProofs
Cache         <--refines-- InMemoryCache <- CacheLockProofs
Cache         <--refines-- RedisCache  <- MCRedisCache, CacheLockProofs
Cache         <--extends-- Lock        <- CacheLockProofs
Envelope  <--extends-- EventBus
EventBus      <--refines-- RedisTransport (extends Envelope)
                              <- MCRedisTransport, RedisTransportProofs
EventBus      <--refines-- InMemoryTransport (extends Envelope)
                              <- MCInMemoryTransport, InMemoryTransportProofs
Producer      <--extends-- Maestro     <- MCMaestro, MaestroProofs
Queue         <--refines-- RedisQueue  <- MCRedisQueue, RedisQueueProofs
Indexes                     <- MCIndexes, IndexesProofs
MockedMethods <--extends-- Mocks       <- MocksProofs
```

The operators marked *Faulty* in the modules are mistakes somebody could make
in the definition that follows; `PROJECT.json` names the property each breaks.
No specification uses them.

### Migration

A step of a service is one call to MongoDB or one `Up`/`Down`; `pc[s]` names the
next one:

| `pc` | action | code in `manager.go` |
|---|---|---|
| `idle` | `Call` | 44 |
| `check` | `IsMigrationRunning` | 47, 209-224 |
| `load` | `LoadAndParse` | 55-65, 182-207; `node.go` 34-97 |
| `set` | `SetMigrationToRunning` | 67, 226-244 |
| `insert`, `up`, `demote`, `promote` | `InsertModel`, `Up`, `DemotePrevious`, `PromoteCurrent` | the forward loop, 104-140 |
| `down`, `delete`, `restore` | `Down`, `DeleteModel`, `RestoreCurrent` | the backward loop, 151-179 |
| `remove` | `RemoveMigrationFromRunning` | 85, 246-261 |
| any but `idle` | `Abort` | the error returns and the death of the process |

`docs` and `marker` are the collection. `effect[m]` counts `Up`s minus `Down`s
that really happened; no action reads it, the properties compare the documents
with it. `path[s]` is `currentNode` followed by the nodes its loop has still to
reach. `Abort` stands for a call that fails before it acts, a reply that is
lost after it acted (then it is the next call that never happens) and a crash:
all three leave the collection as it is and the run over. An `Up` is taken as
atomic: a migration that fails in the middle of its own work is its author's
matter.

Abstracted: a name with its version is a model value, versions are integers in
the order of go-version, an `_id` is who made it in which run.

### Cache, InMemoryCache, RedisCache

`Cache` is what callers may rely on: atomic operations on `content`, entries
that vanish, and, if `MayFail`, operations that do nothing and say nothing.
`InMemoryCache` keeps items with the time they were set and a clock `now`; its
`content` is what is `Visible`: set and not expired. An item expires in the
refinement when the clock ticks, though nothing happens in the map. `RedisCache`
is several caches on one server; keys and prefixes are sequences of segments, so
that the collision of `user:` + `session:id` with `user:session:` + `id` is
real, and each cache stores values of a type of its own, so that what one
stores another may fail to decode. The variable `own` is what each cache would
hold on a server of its own: what its own operations wrote and deleted, and the server
expired. No action reads it. `Isolated` compares it with the server for
each cache that is `Apart`: one whose full keys no other cache uses and no pattern of another
matches. `Promised(p)`, the cache of prefix `p` in the refinement, has `own[p]` for its content:
what another cache writes or deletes under `p`'s keys is no operation of `p`. Caches whose
keys collide or whose patterns reach into each other are not isolated, but each still
implements `Cache` if what one stores does not decode to the other's type (`Distinguishable`
in the proofs): a `Get` then takes the other's value for nothing.

### Lock

Extends `Cache` and composes with it: `isLocked`, `SetLock` and `ReleaseLock`
each contain the cache's own action, with its failures. `overlapped`, `overrun`
and `failed` are auxiliary variables: they remember that acquisitions
overlapped, that a TTL passed under an `fn`, that a cache call failed in a way
that mattered. They are how the properties say under which circumstances the
lock keeps its promise; that the first and the second of them break it is what
`MutualExclusion` and `HeldUntilExpiry` say, which the code violates (section 3). `Crash` and `ExpireLock` are the environment.

### Envelope, EventBus, RedisTransport, InMemoryTransport

`Envelope` has what of the bus matters to who handles what: the default tenant and
the correlation of a published envelope, and the tenant filter with the decoding of a
received one. An envelope made by other means may have no tenant at all
(`NoTenant`), and `chain` is the correlation that follows from handler to handler. A
subscription without `WithTenantFilter` has `NoFilter`; `WithTenantFilter("")` is a filter
(`bus.go:101-106`) and lets only envelopes without a tenant through. `EventBus` is the
promise: a subscription handles what concerns it at most once for each time the transport
took it, a closed bus accepts nothing. It is not once for each `Publish`: `bus.go:67-70`
allows transports to deliver an event more than once. Its `Concerns` is written apart from
the `Handles` of the code, so that the refinement is not circular.

`RedisTransport` has callers and one goroutine for each subscription. The
sections under `t.mu` are one action each (`Subscribe`, the check of `Publish`,
the first part of `Close`); what happens outside the mutex is a step of its own
(`Send`, `Spawn`, `ClosePubSub`, `Wait`, `CloseClient`). A callback that runs may
make calls from its own goroutine (`MayCall`). Subscribing twice with the same
handler is two elements of `Subs`. The server and go-redis are external: a
message reaches any subset of the open PubSubs, in order, and a PUBLISH whose answer is
lost is sent again (`Resend`), as `redis_client.go` leaves the retries at their default.
`closed` also stands for the context, which is
cancelled under the same mutex.

`InMemoryTransport` keeps for each goroutine a stack of the calls of `Publish`
it is in, since a handler that publishes does so on the goroutine of its
publisher.

### Maestro

Callers, broker and consumers in one module, since what matters is the loop they
form. `Producer`, which it extends, has what a producer decides by itself: `Tokens` are
the shapes in which a token and its `aud` claim come, `VerifyAudience` is the check,
`Replies` are the parts of an HTTP reply and `Succeeded` is what the code takes for
success.

`source[p]` is what the TokenSource of the check mints, `credential[p]` what the
`http.Client` attaches to a request: two things to the code, with tokens of their own
(`Sources`, `Credentials`), of which the second may be nothing at all, as with the default client. `Checked` are the producers built
`WithAudienceCheck`. `NewProducer` checks what its source mints at the time; `TokensChange`
replaces the tokens of a running service, for one or both, for the check only as long as the
producer is not built, as nobody asks its source again after; `AnnounceDenied` is Maestro refusing
the credential. `Announce(p, x)` is one exchange with the broker as the caller sees it:
accepted, refused or lost on the way there or back. `muted` remembers the events refused in
a 200 without the `success` flag.

A consumer is a set of replicas, each with a registry that is filled name by name
(`Register`). `Mount` does not wait for that: `handler.go:52-54` advises to register first,
and nothing in `handler.go:148` asks. `job[g]` is the request a goroutine of a
replica is at: received, decoded and looked up (`Dispatch`), the handler running,
answered with `Response(outcome)`: status, `isConsumed` and `isErrored`. A handler ends by
`nil`, by an error, or by an error that wraps `ErrUnknownEvent`. `missed` remembers the events
for which some `Dispatch` had no handler, `disowned` those for which a handler returned
an `ErrUnknownEvent`.

The broker is external and modelled from the words of `handler.go` (44, 111-114,
122-129, 137-144) and its test. `Decisions` are what it may make of an answer: consumed first,
and otherwise it goes by the status (`handler.go:137-144`) or by `isErrored`, which
`handler_test.go:109` calls the trigger for a retry. The two disagree about a body that does
not decode, a 400 with `isErrored`; the model lets the broker do either. It may lose an
answer, which is also what its own timeout looks like, and deliver the event again meanwhile
or later, to any replica. It keeps its events: the library calls it durable (`producer.go:37`).

### Queue, RedisQueue

`Queue` is a first-in-first-out list per name; a removed value is in the `hand` of its
caller, and is then given out or lost, never put back. `RedisQueue` splits a `Push` or a `Pop`
into the command that is sent, executed (`ServerPush`, `ServerPop`) and answered.
`CommandFails`, `AnswerLost` (which is also a caller that dies with the answer) and
`SendAgain`, the default retry of go-redis, are the faults. Each caller has a type:
`Decodes[c]` is what it can unmarshal, `Encodable` what `json.Marshal` accepts. What a type
keeps of a value it decodes, without the fields it does not have, is left out: the properties
follow the element from `Push` to `Pop`, not its content. The
refinement reverses the list: `LPUSH` adds at the left, `RPOP` takes from the right.

### Indexes

`GetExistingIndexes` reads the names on the server once, and the loop then takes one
wanted index at each step: `Skip` if its name was read, otherwise `CreateOne`. What
is created has the name the driver derives from the keys (`Generated`), since the
code builds its `IndexModel` without a name. The read is a subset if the cursor breaks,
which the code does not ask about. `Conflicts` are MongoDB's rules, `CreateForeign` is
somebody else's index; both are external.

### MockedMethods, Mocks

The mocks are one template that mockery filled in for 68 methods. `MockedMethods` has one
line for each: how many parameters it names, whether a variadic one follows, and by
which of three ways each result is taken from what an expectation returns
(`Error`, cast after a nil test, bare cast). `Mocks` is the template: `Init` chooses the
shape of a method, the test makes expectations (`Expect`) and configures the latest
one (`Once`, `Run`, `Return`, `RunAndReturn`, or the untyped `ReturnRaw` of the embedded
`Call`), and meanwhile its own goroutine and another one call the method.
A call is `Called` (or `Unexpected`), then `RunFn`, then `Answer`; `Cleanup` is the end of the
test. What testify does (first match with a use left, what counts as met) is external.
A call's options are one slice in `Arguments`, while `ExpecterArguments` hands them to `On`
one by one: that is what the generated code does.

## 3. Runs

Runs that pass (all exhaustive; two workers, about ten minutes together, most of them
for `mocks` and `maestro`). Where a run does not check the type invariant of its module, it leaves it
to the proof (section 4).

| Run | What it asks | Instance and why it is enough |
|---|---|---|
| `migration_services` (82k states) | Do two services of a rolling deployment ever run at the same time (`MutualExclusion`)? Is a collection that some service would accept true to the database (`AcceptedIsConsistent`)? Does the marker go away as long as nothing fails (`MarkerRemoved`)? | An old service that lacks the newest migration and a new one; two migrations; steps 0, 1, 2; three runs each; two faults anywhere; an empty collection. Two runs of one service between two calls of the other, one fault for each service, and a third run to meet what they left are possible. |
| `migration_single` (4.5k) | Do documents and database agree whenever a run may start (`LedgerMatchesSchema`)? Does a run move by its steps as far as it has nodes (`RunMovesByNodes`)? Do migrations take effect in order (`HistorySpec`)? | One service, three migrations, an empty collection, steps -2, -1, 1, 2, five runs, one fault: forward to the top, back to the bottom and forward again, with steps that reach beyond either end. |
| `inmemory_cache` (492) | Is lazy expiry invisible (`ImplementsCache`)? | Two keys, two values, a TTL of one tick, three ticks: an item that expires, is replaced when expired, and expires again. |
| `redis_cache` (355k) | Does a cache that is kept apart find exactly what its own operations left (`Isolated`)? Is each of several caches, colliding ones too, still a cache of its own operations (`ImplementsCache`)? | Three caches: the prefix of the second continues that of the first, a key makes them use one full key, and the pattern of each reaches into the other; the third is apart from both. Types that do not decode to each other, every interleaving of KEYS and DEL. |
| `lock` (87k) | `ExcludesIfGranted`, `HeldIfGranted`; has a locked key somebody who will release it (`NoLeak`), and does it become free before any TTL passes (`EventuallyReleased`)? | Three processes (a holder, one that releases late and one that comes in between), two keys, one crash, silent failures and expiry at any time. |
| `redis_transport` (442k) | Does `Close` release everything, in its order (`ReleasedTogether`), and end (`CloseCompletes`)? Do handlers see messages in order (`InOrder`)? Is it an event bus (`ImplementsEventBus`)? | Two callers, two subscriptions on one topic, one with a filter for the empty tenant, callbacks that publish and subscribe, two messages (malformed, without a tenant, or one sent twice). Every pair of calls races. |
| `inmemory_transport` (432k) | Does every `Publish` call exactly whom it found (`FanOutComplete`) and return (`PublishReturns`)? Does a chain of handlers stay with the tenant it began with (`ChainsKeepTenant`)? Is it an event bus? | Two goroutines, three subscriptions on two topics, three messages, so that a handler publishes from a handler that publishes. |
| `maestro` (1.3M) | Does the check refuse no token that maestro would take, and let none pass that it denies, but for null in a list (`CheckIsExact`)? Is what was announced with the broker, or refused without the flag (`AnnouncedOrMuted`)? Is it there twice only for want of a reply (`TwiceOnlyIfUnheard`)? Is an event settled only if a handler consumed it (`SettledMeansConsumed`) and dropped only for a cause the code has (`DroppedForCause`)? Is what was announced consumed, or dropped for such a cause, in the end (`Delivered`)? | A producer with the check; for the check and for the client, independently, a token with the audience, one with null beside it in a list and one without an `aud`, for the client also none at all, which change once or twice; replies with the flag, without it and that are not JSON; two replicas with one request each at a time, so that one event is at both, which mount before or after they register; handlers that fail in both ways; an event the service handles and one that does not decode; two events accepted, two faults (failing handler, lost answer, crash). A fault during the answer to the first and another during the redelivery fit. |
| `queue` (113k) | Is what was accepted kept until it is handed out (`AcceptedIsKept`)? Is it handed out once (`GivenOnce`)? Is it a queue (`ImplementsQueue`)? | Two callers on two queues; three values, of which one does not encode and one decodes to the type of one caller only; two faults, so that a push that is sent again meets a pop whose answer is lost. |
| `indexes` (4.7k) | Does a call that returned nil leave no wanted index out (`WantedAreIndexed`)? Do services never make each other fail (`OnlyForeignConflict`)? | Two services that want the same two specifications under different names, twice each; a foreign index under one of the names; two faults. Either service's whole call fits between the list and the first creation of the other. |
| `mocks` (4.6M) | Does a passing test mean its expectations were met (`PassMeansMet`)? Does a mocked method return and run what it was told (`DoesAsTold`)? Is a call answered by the first expectation meant for it (`ServedAsMeant`)? | Every shape of method; two expectations, since one can shadow one other; three things configured, so that one has all three of `Once`, `Run` and `Return`; two calls that find an expectation, and any others; two goroutines. One option, as nothing looks inside the slice. |

One run ends in a violation, a disagreement of the code with its own words, on the smallest
instance that shows it:

| Run | Words | What happens |
|---|---|---|
| `migration_stale_view` (`AppliedOnce`) | `manager.go:46`, "avoid running multiple migrations at the same time across multiple services" | The documents are loaded before the marker is inserted. A service that loaded before another one's whole run inserts its own marker afterwards and applies the same migrations again; the collection then holds them twice and is refused for good. |

Other words that the code does not keep are stated in the modules too, beside the weaker property
that holds and is checked. No run is kept for them: TLC refutes each of them as soon as it is added
to the `.cfg` named here.

| Words | Property, `.cfg` | What happens |
|---|---|---|
| `manager.go:143`, "by n steps"; `:148`, "we don't want to go below the initial state" | `RunMovesBySteps`, `migration_single.cfg` | The base node made up for an empty collection (`node.go:64`) is never stored. A backward run stops at the oldest document, and the first migration ever applied cannot be undone; the run ends without an error. `RunMovesByNodes` is what holds. |
| `cache.go:20`, "share the same Redis instance without key collisions"; `cache.go:12`, "namespace isolation" | `Isolated` without `Apart(p)`, `redis_cache.cfg` | A prefix that continues another and a key with a colon make one full key (`cache.go:71`): a cache overwrites what another stored. `DeleteKeysMatching` hands its pattern to KEYS without the prefix (`cache_redis.go:83`), and the DEL takes another cache's keys. |
| `locker.go:17`, "safe to call concurrently" | `MutualExclusion`, `lock.cfg` | `AcquireLock` is a Get, then a Set: two processes are both told that they have the lock. |
| `lock.go:84`, "executes the provided function fn while holding the lock" | `HeldUntilExpiry`, `lock.cfg` | A process whose TTL passed releases the lock of the next holder, whose own TTL did not. |
| `transport_redis.go:96`, Close "waits for the goroutines to exit, and then closes the underlying client" | `CloseCompletes`, `redis_transport.cfg` with `CallbackOps <- MCClosing` | A callback that closes the bus waits for its own goroutine, for ever. |
| `audience_test.go:233`, a mixed list "is REFUSED even when it contains our audience" | `CheckRefusesMalformed`, `maestro.cfg` | `[null, "leartech-maestro-service"]` decodes into `[]string`, and the check accepts it. |
| `producer.go:180`, "HTTP 200 AND response.Success == true" | `AnnouncedMeansAccepted`, `maestro.cfg` | A refusal in a 200 without the optional flag is taken for a success (`producer.go:209`). |
| `handler.go:46-47`, "Returning a non-nil error signals failure (HTTP 500 to Maestro; the broker retries later)" | `HandlerErrorsAreRetried`, `maestro.cfg` | A handler whose own error wraps `ErrUnknownEvent`, say one that dispatches to another registry, is answered with 404 (`handler.go:173`) and the event is dropped. |
| `handler.go:111-114`, 404 is for "events we'll never consume" | `OnlyForeignDropped`, `maestro.cfg` | A replica that mounts before it registers, as after a restart, has the broker drop an event that the service handles. |

Seen while modelling, and not stated as a property:

* `producer.go:36` calls the Redis bus "at-most-once". A PUBLISH whose answer is lost is sent
  again, and a handler is then called twice for one `Publish`, as `bus.go:67-70` allows: the
  message is twice in `sent`. `EventBus` promises once for each time the transport took it.

* A run that fails after it inserted the marker never removes it (`manager.go:76`), where
  `manager.go:13` calls it temporary. `MarkerRemoved` is therefore about runs that do not fail.
* `node.go:87` says that the next migration must be newer; the check lets an
  equal version through, and `sort.Slice` orders equal versions arbitrarily.
* After a *backward* run that failed between `Down` and the deletion of the
  document, the collection would still be accepted. Only the marker left behind
  keeps services from trusting it: whoever clears it by hand has to look. That
  is why `AcceptedIsConsistent` is checked with forward steps; `LedgerMatchesSchema`,
  which requires that there be no marker, holds in both directions.
* In a rolling deployment that adds an event, a replica of the old version drops
  it for good (404), as one that is not registered yet does. In the model all replicas
  register the same names in the end.
* A second `Close` of the Redis transport returns at once while the first is
  still waiting for the workers.
* `NewRedisQueue`'s comment names a prefix parameter that does not exist. go-redis repeats a
  command whose answer did not come: an element is then pushed twice or lost by a
  `Pop`. `Pop` also loses, for all consumers, what does not decode for one of them.
* A wanted index whose name an index on other keys has is never created, and nobody is told
  (`index.go:39`); the name itself is never sent to MongoDB, so an index under a custom name
  is found missing by every start, created again and left as it is. The cursor's `Err`
  is not asked for.
* `NewProducer` checks the audience once, of a token that its client need not attach. One
  whose tokens change later, or whose client attaches another or none, is denied by Maestro
  at `Announce`.
* The options of an expectation that are given one by one never match a call, which
  hands them over as one slice: `EXPECT().Find(ctx, filter, opts)` is unexpected when called.
  In the model, `Meant` leaves such an expectation out.
* A first expectation without `Once` answers all calls that match and shadows a later one with
  the same arguments; the cleanup takes the second for met. A call before `.Return`
  is configured panics.

### Bounds

`MaxRuns`, `MaxFaults` (Migration), `MaxTime` (InMemoryCache), `MaxCrashes` (Lock), `MaxSent`
(both transports), `MaxEvents`, `MaxFaults` (Maestro), `MaxFaults` (RedisQueue, where each
value is pushed once), `MaxCalls`, `MaxFaults` (Indexes), `MaxExpected`, `MaxConfigured` and
`MaxCalls` (Mocks) occur in the guards of the actions that count. Four groups of runs say
`CHECK_DEADLOCK FALSE`: when every service has used up its migration runs or its calls
of `CreateIndexesIfNotExist` nothing is left to do; a test ends; and with everything
announced and settled (`maestro`), the faults used up, Maestro is at rest. No run uses symmetry.

### Fairness

Weak fairness, and only of steps that are under way; nobody has to call, to
fail or to publish.

* `Migration!FairSpec`: a goroutine in `RunMigrations` is scheduled, its calls to
  MongoDB return. `Abort` and `Call` are not fair.
* `Lock!FairSpec`: `fn` returns, or panics, and cache calls return. No TTL has to pass:
  `EventuallyReleased` holds for a Redis cache made with 0 too, which keeps its keys for
  good (`cache_redis.go:33`). What a crash leaves behind such a cache keeps for good as well.
* `RedisTransport!FairSpec`: a call under way goes on, a callback returns, and a
  `select` one of whose cases stays ready takes it. Nothing says that a worker
  must take messages rather than see the context done: Go's `select` chooses at
  random, and `Exit` stays enabled, so weak fairness of `Exit` is what the
  scheduler gives when callbacks end.
* `InMemoryTransport!FairSpec`: a goroutine in `Publish` runs, handlers return.
  `PublishReturns` also needs follow-ups to end: handlers that answer each other
  for ever never return, in the model they end at `MaxSent`.
* `Maestro!FairSpec`: a replica comes up, a request is worked off, and strongly fair
  delivery of each event: the broker goes round its events, and whenever a
  goroutine is free again and again each of them gets its turn. Handlers fail only
  finitely often (`MaxFaults`), without which nothing can be promised. Nobody has to
  announce.

## 4. Proofs

For each component a module of theorems (one for the caches and the lock over them), with the lemmas about its operators, one lemma
for each action under the invariant, and the theorems at the end. A refinement is proved step
by step: each action, under the invariant, is an action of the abstract module or leaves
its variables alone.

| Theorem | Says | How |
|---|---|---|
| `MigrationProofs!TypeCorrectness` | `Spec => []TypeOK`; no loop indexes a node its path does not have | inductive by itself: the path has at least one node once loaded and at least two in a loop, which `PathOf` (its bounds are a lemma) and `LoopHead` maintain |
| `MigrationProofs!RunsExclude` | `Spec => []MutualExclusion`, for any services, migrations, steps, runs and faults | strengthened by "who is between insertion and removal holds the marker". Mutual exclusion alone is not inductive: a second service could insert a marker that is not there |
| `MigrationProofs!AcceptedHistoryIsTrue` | `Spec => []AcceptedIsConsistent` if `Forward`, `DistinctVersions` and `Nested` | `LedgerInv`. `Collection`: what is older than a stored document is completed, as far as anybody knows it, so that a document a failed run left behind is the newest and is refused. `Walk`: the path of a service, loaded from a view that may be old, has only nodes that are not stored and whose predecessors are completed or come before them. `Accounted`: a migration took effect as often as it has documents |
| `MigrationProofs!SoleLedgerMatches` | `Spec => []LedgerMatchesSchema` if `Sole` and `DistinctVersions`, forward and backward and wherever runs fail | `BookInv`. Between runs documents and effects are `Balanced`; in a run they differ by the one migration `Tally` names for each `pc`, and the path leads from the newest document up over all migrations that have none (`Climb`) or down over all that have one (`Descent`) |
| `MigrationProofs!HistoryRefined` | `Spec => HistorySpec` if `Sole`, `DistinctVersions` and `Complete`: `Up` is an `Upgrade`, `Down` a `Rollback`, every other step a stutter | under `BookInv`: `Climb` gives that the next migration is the oldest without effect and newer than all with one, `Descent` the converse |
| `MigrationProofs!SchemaHasVersion` | under the same hypotheses the migrations in effect are always all those up to some version, wherever a run fails (`Unbroken`) | what `HistoryRefined` amounts to, by the same lemmas about `Up` and `Down` |
| `MigrationProofs!MovesAsAsked` | `Spec => RunMovesByNodes` (an action property) if `Sole` and `DistinctVersions`, with a stored base document or without | `PaceInv`: the documents there are plus the moves `Left` on the path are the `Target` that steps and registry set, from the load to the end. The length of a path is a cardinality, by a bijection |
| `CacheLockProofs!LockExcludes`, `LockStaysHeld` | as long as no acquisitions overlapped, no TTL passed under an `fn` and no command failed, the lock excludes (`ExcludesIfGranted`) and stays held (`HeldIfGranted`) | `Agree`: a process between `Get` and `Set` is the only one acquiring and its key is still absent |
| `CacheLockProofs!LockInMemory` | the same without "no command failed" over a cache that does not fail, as the in-memory one | `NothingFails`: a `Get` that answers what is there and a `Set` and `Delete` that happen never raise `failed` |
| `CacheLockProofs!LockReleases` | `Spec => []NoLeak` | inductive with the types: whoever sets a key is the one that deletes it |
| `CacheLockProofs!RedisTypes` | a `Get` answers no value of another cache's type | inductive by itself |
| `CacheLockProofs!RedisIsIsolated` | `Spec => []Isolated`: every cache that is `Apart` finds what its own operations left, whatever the others do, among themselves too | inductive with `ListedOwn`: what a cache is about to delete, however old the list, is what its own patterns match, and so nothing of a cache that is `Apart` (`ApartKeys`). `KeysApart`: a prefix keeps the keys of one cache apart |
| `CacheLockProofs!RedisImplementsCache` | each cache implements `Cache` over its own operations alone, also where keys collide and patterns reach into other caches, if such caches are `Distinguishable` | `OwnFound`: a value of `p`'s type under a key of `p` is what `p` left there. What another cache writes there does not decode, and what it deletes a `Get` may find missing, as `Cache` allows of one that may fail |
| `CacheLockProofs!InMemoryImplementsCache` | the in-memory cache implements `Cache`, for all keys, values and TTLs | the initial state and each step map to one of `Cache`, under the type invariant: as the clock advances an item only goes from live to expired (`TickForgets`) |
| `RedisTransportProofs!TypeCorrectness`, `NothingLeftOpen` | `Spec => []TypeOK`, `Spec => []ReleasedTogether` | `Counted`: the WaitGroup counts the subscriptions whose worker runs or is about to be spawned by a goroutine in `Subscribe`; it is a cardinality, so a counter of zero means that there are none. `Closed`: one goroutine at a time closes, and it takes along every PubSub that is open, since no `Subscribe` gets past the mutex after it |
| `RedisTransportProofs!HandledInOrder` | `Spec => []InOrder`, with commands sent again | `Ordered`: what a handler was called with and what is in its channel are increasing, and the second continues the first |
| `RedisTransportProofs!BusRefined`, `InMemoryTransportProofs!BusRefined` | the bus over either transport implements `EventBus` | under the invariants: a worker only takes, and a `Publish` only calls, what the filter of the code lets through, and that is what the promise says concerns the subscription |
| `InMemoryTransportProofs!TypeCorrectness`, `FannedOut` | `Spec => []TypeOK`, `Spec => []FanOutComplete` | `Called`: a handler was called with a message exactly if the message's `Publish` copied it, its tenant is right, and it is not in the rest of a frame. `Framed`: a message has one frame on one stack, so that it is called once however deep `Publish`es nest |
| `InMemoryTransportProofs!ChainStaysInTenant` | `Spec => []ChainsKeepTenant` | inductive with the above: a follow-up takes tenant and chain from the message of its frame, which the filter let through |
| `RedisQueueProofs!TypeCorrectness`, `AcceptedStays` | `Spec => []TypeOK`, `Spec => []AcceptedIsKept` | `Kept` holds from the execution of an `LPUSH`, before the answer that makes the value accepted |
| `RedisQueueProofs!GivenOnlyOnce` | `Spec => []GivenOnce` | `Single`: a value that was not sent again is in one place only, with an `LPUSH` not executed yet, at one position of one list, in one hand, or given out |
| `RedisQueueProofs!QueueRefined` | `Spec => ImplementsQueue` | lemmas on what `LPUSH` at the left and `RPOP` at the right do to the reversed list |
| `MaestroProofs!TypeCorrectness`, `OnlyConsumedIsSettled` | `Spec => []TypeOK`, `Spec => []SettledMeansConsumed` | `JobsAreRight`: what became of a request on its way back is true (a nil outcome is one some handler returned, "unregistered" means that this event was missed, "unknown" that a handler disowned it). About the event itself nothing is inductive, as its fate is decided by an answer given earlier |
| `MaestroProofs!DropsHaveACause` | `Spec => []DroppedForCause`, for all ways in which handlers end, replicas that mount when they like and a broker that goes by status or flag | the same invariant, and the `Decisions` about each of the four answers |
| `MaestroProofs!AnnouncedIsAccepted` | `Spec => []AnnouncedOrMuted`, for any replies | the same induction; `SucceededIsTrueOrMute`: what `Announce` takes for a success has the flag set or has none. That a broker does not refuse an event with `success: true` is an assumption (`MaestroAssumption`) |
| `MaestroProofs!NoDuplicateUnlessUnheard` | `Spec => []TwiceOnlyIfUnheard` if no acceptance passes for a failure | the same induction; events are only ever appended |
| `MaestroProofs!AudienceCheckIsExact` | `Spec => []CheckIsExact`, for every shape of an `aud` | `CheckDecides`: what `NewProducer` decided is what `VerifyAudience` says of the token it had then. `VerifiedIsAddressed`: that is Maestro's own rule (`Addressed`) for all shapes but a list with null, on which the check is laxer |
| `IndexesProofs!TypeCorrectness` | `Spec => []TypeOK`: no loop leaves its list, and no two indexes share a name or keys | inductive by itself; `Conflicts` is what keeps names and keys apart |
| `IndexesProofs!NothingLeftOut` | `Spec => []WantedAreIndexed` | `Covered`, what a service has behind it in its loop is indexed, needs that a name once read stays on the server |
| `IndexesProofs!ServicesAgree` | `Spec => []OnlyForeignConflict` | every index of the server is foreign or has the name the driver gives to its keys; two of the latter never conflict, as the driver's names are one-to-one |
| `MocksProofs!TypeCorrectness`, `PassedIsMet` | `Spec => []TypeOK`, `Spec => []PassMeansMet` | `OnceUsed`: an expectation for one call has either its use left or a call that it answered, so that a cleanup that finds none left to use finds that call; `NoneUnexpected`: a call that found nothing has ended the chance to pass. That a closure of `Run` receives a list is the lemma `Sent` |
| `MocksProofs!AnswersAsTold` | `Spec => []DoesAsTold` | `Answered`: the results of a call stay those of its expectation, since only an expectation with nothing to return can be given something, and who has come back with nothing has a method without results (otherwise it panicked and the test is over). `TypedResults`: what is typed is handed out as it is. `Sent`: `VariadicArgs` undoes `Arguments` |
| `MocksProofs!CallsServed` | `Spec => ServedAsMeant` (an action property) | `MatchIsMeant`: testify's comparison of argument lists finds exactly the expectations that name the options of the call as one slice or by a matcher; `MinIsLeast`: the first of them is taken |

They rest on the named assumptions of the modules: finitely many migrations and
finitely many subscriptions of the Redis transport, versions that are integers, a base version
of 0, `None` not a value, handlers that end in one of three ways, refusals that do not say
`success: true`, names of the driver that differ for different keys. `RedisIsIsolated` and `RedisImplementsCache` also take keys and prefixes to be finite
sequences of segments (`Segmented`).
`CacheLockProofs` extends `Lock` and takes `RedisCache` and `InMemoryCache` by `INSTANCE`,
each with constants and variables of its own but for `Keys` and `None`, so that the assumptions
of the two are there hypotheses of their theorems.
The bounds (`MaxRuns` and so on) are any natural numbers there, and `runs`,
`faults` and `crashes` only count; `MaxSent` bounds the messages of the transports.

The theorems about the history of migrations have hypotheses about a deployment, each of
which the code does not enforce and the statement needs:

* `Forward`, no step is negative: a backward run that dies between `Down` and the deletion
  of the document leaves a collection that would be accepted and lies (section 3).
* `DistinctVersions`: the order that `sort.Slice` gives to equal versions is arbitrary, and
  `SchemaHistory` is strict.
* `Nested`, a service that knows a migration knows the older ones of every service:
  otherwise an older migration is applied after a newer one, or a document that was left
  "Running" is not the newest. It covers rolling deployments that append migrations.
* `Sole`, one service: with two, one whose view is old applies a migration again
  (`migration_stale_view`), and the collection no longer matches the database.
* `Complete`: a service that lacks a migration leaves it out of the history.

Only model-checked: liveness (`MarkerRemoved`, `EventuallyReleased`, `CloseCompletes`, `PublishReturns`,
`Delivered`), which needs `ENABLED` of fair actions.

## 5. Not modelled

* Logging and its configuration, construction of clients, one ping at start:
  no state and no decision that anything else depends on.
* The wrappers of the Mongo driver (`client.go`, `database.go`, and of `collection.go` all but
  `CreateIndexesIfNotExist`): each forwards its arguments and returns what comes back.
* `random`: a pure function whose property is statistical.
* Of `client_generated.go` the building of requests and the types; modelled is
  what becomes of a reply.
* Of an envelope the id, timestamp, type and JSON: data that no step depends on.
* The in-memory cache's prefix and regular expressions are one set of matching keys.
* What testify prints when a test fails; a mock's methods are modelled by their shape.

## 6. Status

Modelled and checked: Migration and SchemaHistory, the caches, the lock, the event bus with
both transports, Maestro with its producer and audience check, the queue, the indexes, the
mocks. Proved: every invariant, every action property and every refinement that a passing run
checks, but for what the theorems assume of a deployment (section 4). Refuted, and kept to
show how: the run that ends in a violation and the properties of the second table of section 3.

By lines, most of what `map` in `PROJECT.json` covers, about three quarters, is the mocks that
mockery generated, which `MockedMethods` and `Mocks` model as the one template they are. Nothing
about the handwritten packages follows from them; those are the other modules.

What a change of the code touches first is its module and `map` in `PROJECT.json`; then TLC on
the run of the module, and the lemma of the action in the module of its theorems.
