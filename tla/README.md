# Formal model of authzcache

TLA+ modules, TLC runs and TLAPS proofs for the authorization cache in
`src/`. The modules are translated from the Go code; names of definitions are
the names of the code where TLA+ allows it. `PROJECT.json` maps every
definition to the lines it models and lists the runs, findings, hazards and
theorems.

## The system

authzcache sits between the clients of an authorization backend and that
backend. For every project it keeps a cache object, answers checks and lookups
from it when it can, passes writes on and invalidates, and polls the backend
for the changes that other clients made.

| Component | State | Operations | Talks to |
|---|---|---|---|
| Direct relation cache (`projectauthzcache.go` 424-533) | LRU cache key -> grant; index resource -> target -> list of keys, and the mirror image; the components of each key | add (with eviction callback), sweep by resources and targets, purge | called under the project cache's mutex |
| Project cache (`projectauthzcache.go` 112-420, 535-598) | loaded schema and its compiled conditions, direct and indirect cache, `lastPollTime`, cooldown timer | `CheckRelations`, `UpdateCacheWithChecks`, `UpdateCacheWithAdded/DeletedRelations`, `UpdateCacheWithSchema`, `EnsureSchemaLoaded`, poll, cooldown | the backend's `GetModified`; one `sync.RWMutex` |
| Lookup cache (`projectauthzcache.go` 600-724) | LRU cache query -> pool of candidates with an expiry | get, set, add a created relation, purge | same mutex |
| Service (`authz.go`) | requests in flight | `Check`, `WhoCanAccess`, `WhatCanTargetAccess`, `CreateFGASchema`, `CreateFGARelations`, `DeleteFGARelations` | project cache, backend, metrics |
| Project registry (`authz.go` 286-303) | `sync.Map` project -> cache and SDK | `getOrCreateProjectCache` | starts the poller |
| Metrics (`metrics/collector.go`, `metrics/reporter.go`) | `sync.Map` project -> API -> aggregate; the snapshot being posted | `Record`, `SnapshotAndReset`, `report`, `buildPayload` | HTTP post |
| Condition evaluation (`cel/cel.go`) | none | compile, evaluate | a CEL library |
| Controller, error types, main, configuration, remote client, middleware, client wrapper, generated code | none that changes | conversion and wiring | |

What is hard in it, and what makes each component correct:

* **Requests and the mutex.** A request talks to the backend *outside* the
  mutex and updates the cache in a later critical section. Between the two,
  polls, local writes, purges and other requests run. Correct means: a change
  that the cache has applied leaves nothing behind that it outdates; a
  certificate is only re-evaluated with the schema it was made for.
* **Polling.** A poll takes its time before the remote call and holds the
  mutex across it. No change may fall between two polls, whatever the replies
  are; polls may fail for ever, and the cooldown must still end in a purge.
* **The cooldown timer.** Firing, stopping and the callback waiting for the
  mutex are three different moments.
* **The indexes.** They are lists that are appended to, cleaned one side at a
  time, and cleaned by an eviction callback that `Remove` does not call. A
  cached key that is not listed would survive an invalidation.
* **Lookups.** A pool of candidates may be stale in both directions;
  re-verification removes what is gone, the TTL and local additions bring in
  what is new.
* **A Check of a batch.** Some relations are answered from the cache, the others
  by the backend, and the answers are merged, and paired with the candidates of
  a lookup, by position alone. A cached conditional grant is re-evaluated in the
  context of another request: what the edge then answers must be what the
  backend would.
* **First requests.** The registry loads and stores without a lock around both:
  racing first requests create a cache and a poller each.
* **Metrics.** Calls are recorded while a snapshot ranges over the projects:
  each call belongs to exactly one window.

The list of hazards in `PROJECT.json` names each of these, and some more, with
the line where it bites and the properties that would notice.

## Modules

```
FGARelation            tuples and their keys
  SweptStore           abstract: a bounded store that is swept by resource and target
  DirectRelationCache  the direct LRU cache and its two indexes, implements SweptStore
  CoherentCache        abstract: grants of the past, forgotten with what outdates them
  ProjectAuthzCache    the critical sections of the cache object
    AuthzCacheService  requests, poller, timer and backend; implements CoherentCache,
                       and SweptStore with its direct cache
  BatchCheck           what a Check answers, and what a lookup keeps of its candidates
LookupCache            the lookup cache and the requests that fill and extend it
ProjectRegistry        the map from projects to caches, first requests and pollers
MetricsReporter        collector and reporter
FiniteSums             facts about sums over finite sets, for the metrics' proofs
*_proofs               theorems and proofs     MC*   instances for TLC
```

Seven modules have proofs: those of DirectRelationCache, AuthzCacheService,
BatchCheck, LookupCache, ProjectRegistry and MetricsReporter, and FiniteSums.

### FGARelation

A string is a sequence of tokens without a colon; the key of a tuple is the
concatenation of resource, target and relation (`key`, line 520). A resource
`org:d1` is two tokens, so two tuples can have the same key, as in the code.
No module and no theorem about the relation caches assumes that this does not
happen. `KeysIdentifyPlaces` says that tuples of one key have one resource and
one target; it is only the hypothesis of a sharper statement about sweeps.

### DirectRelationCache and SweptStore

State: the set of cached keys (`directRelationCache`), both indexes and the key
components. A list in an index is a multiplicity per key, because the code only
appends, deletes the first occurrence and deletes whole lists: the order of a
list never matters. The LRU order is not modelled; the evicted key is any
cached key. What a grant says is irrelevant here and left out.

| Action | Code |
|---|---|
| `addDirectRelation` | `Add` with room, or of a cached key, then the index entries: re-adding a key lists it again |
| `addDirectRelationEvicting` | `Add` to a full cache: the eviction callback unlists the victim, then the new key is indexed |
| `removeDirectRelations` | the sweeps by resource and by target of an invalidation; `Remove` does not run the callback, so the other index and the components keep what they have |
| `purgeDirectRelations` | the maps are replaced first, so the purge's callbacks find nothing |

`SweptStore` is what the rest of the system expects: a bounded set of entries,
one for each key, each with the resource and the target it is swept by. `Put`
stores a batch of tuples and evicts only what there is no room for; `Sweep`
removes every entry of the given resources and targets (`Swept`), and no other
one unless a tuple of its key is concerned (`Reached`): the index may still list
the key for that tuple, so the code drops a grant that it could have kept, which
is safe. `Clear` removes everything. `StoreSpec` states that the direct cache
implements this, where an entry's resource and target are the components of the
key; `SweepsAreExact` says the same of one sweep and its own arguments.

`MaxCopies` bounds how often a key is listed; it is a guard of the model only.

### ProjectAuthzCache

One operator per critical section of the mutex. A poll is two operators,
`pollTick` and one of the `pollReturns...`, with the mutex held in between
(`pollTime`); every other section requires the mutex to be free.

* *Time* is a position in the backend's history of changes, which is what
  polling compares. `lastPollTime` and `pollTime` are such positions.
* The caches are functions of *keys*, as in the code. A grant that is cached for
  one tuple is served to every tuple of its key.
* A *grant* has the conditions of its certificate (the allowed bit plays no
  part) and four ghost fields: the tuple it was decided for (`of`), the schema
  version and the time the backend evaluated it at, and whether it was outdated
  already when it was inserted (`raced`).
* A *sweep* of the direct cache is that of `SweptStore`; the indexes are in
  DirectRelationCache. That both direct caches implement that store is proved:
  `StoreSpec` there, `DirectStoreSpec` here.
* The *schema* is a version; version 0 is the DSL text without a version that a
  local `CreateFGASchema` stores. Conditions that do not compile are skipped.
* A *timer* is a name that is armed (may still fire), fired (its callback waits
  for the mutex) or neither. `TimerIds` bounds how many are in use at once.
* Evaluating a certificate against a request's context may come out either way.

### AuthzCacheService

The requests (`pc`: one step per backend call and one per critical section),
the poller, the timers, and the external backend: a log of changes, each of
which touches resources, targets or the schema. `applied` is a ghost: the
changes the cache has taken into account. A write whose SDK call returns an
error although it took effect is the same as a change by another client. A
Check that hits with all its relations changes nothing and has no step. A
write of no relations returns early in the code and is no batch here; a change
that is neither of the schema nor of any relation does not exist.
`ClockLags` says by how much the cache host's clock may lag behind the
backend's; one that runs ahead would skip changes and is excluded.

### CoherentCache

What the service promises, without requests, polls or timers: a history of
changes, those the cache has acknowledged, and a set of grants with the time the
backend decided each. A grant may be learnt if it is of the past (`Learns`) and
forgotten at any time; a step that acknowledges changes learns nothing and
forgets every grant they outdate (`Acknowledges`). It does not promise that what
is learnt is newer than what has been acknowledged: that is the late insertion
of `finding_stale_grant`, which is thereby the only way in for a stale grant.
`CoherentSpec` says that AuthzCacheService implements it.

### BatchCheck

One Check after another, each with a batch, a context and the loops of the code
as steps: `Hits` and `Misses` for the loop of `CheckRelations` with
`indexToCheck`, `BackendChecks`, `UpdateCacheWithChecks` (one operator folds the
results into both caches in their order, so that the last of two certificates of
one key stays), `MergesCached` and `MergesFetched` for the loop of `Check`, and
`Filters` for the loops of the two lookups. Here the *data* of a grant matters:
its allowed bit, and the conditions of its certificate by their recorded
outcome.

* A condition is a program over its parameters (`Program`, external), which may
  be missing from the context or have a value that is not coerced; its
  evaluation at the edge may time out (`Eval`). Conditions with no checked
  expression, or a malformed one, are not compiled.
* The backend knows the deciding paths of a relation (`Paths`): conditions with
  the outcome that each must have, and the states of the facts it is for. It
  returns any path that decides, and it is assumed that two paths which decide
  the same case agree (`PathsAgree`), which is what a certificate means.
* Facts change (`FactChanges`) while the caches stay, as no invalidation tells
  of them; grants leave at any time between the critical sections.

### LookupCache

An entry is a pool (set of candidate strings) with the two times of the code and
one ghost time, when the backend listed the results. A candidate of
`WhatCanTargetAccess` is the joined string `resource|relation|namespace` and is
read back with `SplitN`, so a name with `|` comes back as another candidate; a
key is joined with `:`. Requests: a lookup that misses asks the backend, and
stores the answer later; a creation writes to the backend, and extends the
entries later. A request that is served a pool re-verifies it by a Check, which
changes no lookup state. An empty pool is no hit. At the instant of its expiry
an entry is still served but no longer extended, as in the code. Schema
changes, failing polls and `InvalidateLookupCache` are one `Purge`, possible at
any time.

### ProjectRegistry

`getOrCreateProjectCache` in its steps: load, create the remote client and the
cache (or fail), start the poller, store. Caches are numbered in the order of
their creation. A request keeps the cache it got, and writes and checks through
it. Two first requests that load before either stores leave a cache behind that
is polled but no longer in the map. A write through that one does not update the
cache in the map; the latter hears of it by its own poll.

Of what the caches of a project hold, one grant is followed: the time of the
backend's answer it was made from, against the time of the last change that
concerns it (`changed`). Other changes only move the time on (`now`). A Check
takes its answer (`BackendAnswers`, `authz.go` 120) and caches it
(`CachesAnswer`, 128) in two steps, with anything in between. Each cache has its
own `lastPollTime`, set when it is created, moved by its own polls only, and
`Polls` drops the grant if it has changed after that time, or purges. So a grant
that is cached late stays, here as in `finding_stale_grant`.
`OnlyLateAnswersGoUnnoticed` says that this is the only way: a step after which
an outdated grant is no longer going to be reported is one that caches an answer
older than the cache's last poll. Neither the writes through the several caches
of a project nor their polls add another. A poll is one step, as it holds the
cache's mutex; its two ends, and clocks that differ, are in AuthzCacheService.

### MetricsReporter

`Record` is up to three steps (Load, LoadOrStore, the section under the
project's lock); the reporter visits one project at a time under its lock, in
any order, then posts. An aggregate carries the set of its calls as a ghost, so
that a payload can be compared with what its calls really were. A window is
gone whether or not its post arrives, so the outcome of a post is left out.
Quotients of floats are kept as two terms, those of integers are cut.

## Runs

| Run | Instance | Shows |
|---|---|---|
| `index` (20 376 states) | 4 tuples that share resources, targets or both, two of them with one key (`org:d1` with `u1`, `org` with `d1:u1`), cache of 2, lists of up to 2 copies | `TypeOK`, `CachedKeysAreIndexed`, `StoreSpec`, `SweepsAreExact` |
| `service_relations` (1.35 million) | 2 concurrent requests, 3 tuples of 2 keys (the first shares its key with the second and its target with the third), direct cache 1, indirect 2, 2 backend changes | `TypeOK`, `TrackedGrantsAreFresh`, `PendingChangesAreReported`, `CoherentSpec`, `DirectStoreSpec` |
| `service_conditions` (1.16 million) | 2 requests, 1 tuple, 2 conditions of which one does not compile, all shapes of conditional results, schema changes | `CertificatesMatchLoadedSchema`, `SchemaChangeUnloadsSchema`, `CoherentSpec` |
| `service_cooldown` (134 740) | 1 request with plain and conditional results, 2 timers, clock lag 0 or 1, polls that may fail for ever | `TrackedGrantsAreFresh`, `PendingChangesAreReported`, `CooldownHasTimer`, `EveryChangeIsApplied`, `RequestsFinish` |
| `batch` (169 860) | 8 batches of up to 3 over 6 tuples: two of one key but different types, repeated ones, conditional ones with several paths, one that depends on a fact; 8 contexts with missing, mistyped and failing parameters | `TypeOK`, `EveryRelationGetsItsResult`, `AnswersAreTheBackends`, `CandidatesAreVerified` |
| `registry` (240 128) | 2 requests (symmetric), one project and the empty project ID, 3 changes | `TypeOK`, `RegisteredCacheIsPolled`, `PollersAreBounded`, `OnlyLateAnswersGoUnnoticed` |
| `lookups` (2.44 million) | 1 lookup and 1 creation in flight, 2 relations with `:` and `\|` in their names, 3 keys for 2 entries, results of at most 1, TTL 2, clock up to 3 | `TypeOK`, `OmissionsEndWithTTL`, `CreatedAreCandidates` |
| `metrics` (341 679) | 3 calls, 2 projects, 2 APIs, hits and misses | `TypeOK`, `EveryCallIsInOneWindow`, `PayloadsDescribeTheirCalls`, `EveryCallIsPosted` |

Why these bounds are enough to be interesting: two tuples with a common target
make a sweep hit more than it was about and leave an index half cleaned; a cache
smaller than the number of tuples makes evictions happen; two requests are what
a race of two Checks, or of a Check and a write, needs, the poller being a third
process; two changes allow one that a poll has covered and one it has not; two
timers allow a cancelled cooldown and the next one; a batch of three has an
answer from the cache before, between and after those of the backend, and a
relation twice; two first requests leave a cache behind, which one goes on
using while the other uses the cache in the map, and three changes allow one of
the grant, one of something else and one between an answer and its caching; a
clock of 3 with
a TTL of 2 passes an expiry and refetches; three calls allow two first calls of
a project and one that comes between; three tuples of two keys make a grant
that stands for another tuple, and a direct cache of one makes it leave for the
next key. All safety properties of the passing runs are proved for all values
of the constants as well.

Runs that end in a violation, each checking one statement the repository makes
about itself:

| Run | Statement | What happens |
|---|---|---|
| `finding_index_leak` | eviction removes the key from the indexes | a key that was added twice is listed twice and unlisted once; the list entry of the evicted key stays |
| `finding_stale_grant` | the check cache tracks the current state of relations | a Check is answered, the relation changes, a poll covers the change, and only then the answer is cached: no later poll reports the change |
| `finding_cancelled_cooldown` | a cancelled cooldown does not purge | its callback was waiting for the mutex and meets the timer of the next cooldown, which is not nil |
| `finding_hit_candidates` | `avg_hit_candidates` is an average over hits | Check records the relations of its misses as candidates |

Three more disagreements show in the models without a run of their own.
The repository's README says at line 51, "New entries, however, do not appear
until the TTL expires. A relation granted after a lookup result was cached is
not part of that cached result, so a `WhoCanAccess` / `WhatCanTargetAccess` call
keeps omitting the newly authorized entry until the result's TTL [...] expires".
That is so of relations granted by others. A relation created through this cache
is appended to the results that are cached (`addToLookupCache`,
`projectauthzcache.go:705-724`) and appears at once, which is what
`authz_test.go:501` and `projectauthzcache_test.go:199` test and
`CreatedAreCandidates` states: the README's sentence lacks this exception.
`addToLookupCache` (`projectauthzcache.go:705-724`) appends to a cached result
without looking at `LOOKUP_CACHE_MAX_RESULT_SIZE`, of which the repository's
README says at line 40 that larger results are not cached: a result within the
limit grows beyond it as relations are created through the cache. And
`ensureSchemaLoaded` (`authz.go:145-155`) installs what `LoadSchema` returned
although a poll may have covered a schema change in between; the comment at
`projectauthzcache.go:365` wants no schema change to be missed. This is the race
of `finding_stale_grant` with a schema in the place of a grant. It does no harm
to a certificate, as `CertificatesMatchLoadedSchema` compares versions.

`TrackedGrantsAreFresh` and `FreshAsOfLastPoll` belong together: the code keeps
the former, that an applied change evicts everything it outdates, and the only
way to break the latter is the late insertion that the run shows.

Every property of a passing run has a variant of a mapped definition with a
plausible defect (marked "Variant with a defect", next to the original) under which TLC finds the property violated.

## Fairness

`FairSpec` of AuthzCacheService: weak fairness of the ticker's step and of a
poll's completion (a remote call ends with a result or an error), weak fairness
of an armed timer, and strong fairness of a timer's callback and of the steps of
a request that has begun. Strong, because the mutex they wait for is taken again
and again by the poller; Go's `sync.Mutex`, on which the write side of `RWMutex`
is built, hands a waiter the lock after a millisecond, and a remote call of a
request ends like that of a poll. No request has to begin. The ticker's fairness
takes `cctx.Go`, which is not in the repository, to detach the poller from the
context of the request that started it.
`EveryChangeIsApplied` does not depend on any poll succeeding.

`FairSpec` of MetricsReporter: weak fairness of the reporter's goroutine.
Nothing is assumed of the requests, nor of the order in which `Range` visits.

## Proofs

All theorems hold for every value of the constants that satisfies the named
assumptions of the modules.

**DirectRelationCache_proofs.** The inductive invariant has four parts:
`TypeOK`; `CachedKeysAreIndexed`, a cached key has components and is listed in
both indexes where they say; `IndexesPlaceKeysRightly`, a key is only listed
under resources and targets of tuples with this key; `CacheWithinSize`. The
second part is needed because an eviction follows the components, which stale
entries outlive; the third because a sweep removes whatever a list mentions.

* `TypeCorrect`, `IndexesCoverCache`: no assumption on keys, colliding ones
  included.
* `ImplementsSweptStore`, `ExactSweeps`: likewise for any tuples. Initial
  states map to initial states, and each action to `Put`, `Sweep`, `Clear` or a
  stutter; a sweep removes what it has to because a cached key is listed at its
  components (second part), and nothing unconcerned because a key is listed only
  where one of its tuples belongs (third part).
* `DistinctKeysSweepExactly`: under `KeysIdentifyPlaces` a sweep removes exactly
  the entries of its resources and targets; `ColonFreeKeysIdentifyPlaces` shows
  that resources and targets without colons meet that hypothesis.

**AuthzCacheService_proofs.** The inductive invariant is `TypeOK` with
`InFlight`: a request that has written knows the position of its change, and a
poll started no later than it is answered. `UnconditionalChecks`, a result with
conditions in flight is a conditional one, is added for certificates.

* `TypeCorrect`.
* `NoChangeIsSkipped`: `lastPollTime` only passes applied changes. It rests on
  `currPollTime` being read before the remote call.
* `AppliedChangesAreEffective`: three lemmas for what may happen to the caches
  (purge, sweep, insert), then one step per action.
* `CertificatesAreValid`: an insertion compares versions and compiled
  conditions, and a step that changes the loaded schema purges, or loads one
  where there was none.
* `CooldownEnds`: a pending cooldown's timer is armed or fired.
* `NoOldSchemaStays`: an action property, from the same invariant.
* `ImplementsCoherentCache`: each step is a step of CoherentCache or leaves its
  variables alone. Needs, besides the basic invariant, that an answer in flight
  is not from the future; a purge, a sweep and an insertion have a lemma each,
  and a poll that mentions nothing has reported nothing.
* `DirectCacheIsSweptStore`: an insertion of any mix of results is a `Put`, a
  sweep a `Sweep` and a purge `Clear`. It needs the part of `TypeOK` by which a
  grant is cached under the key of its own tuple (`HoldsGrants`).

None of these assumes that tuples have different keys. What `HoldsGrants` says
of `of` is what makes the freshness theorems go through: a sweep must reach a
grant by the resource and target it was decided for.

**BatchCheck_proofs.** The inductive invariant follows the loops: `SplitIsExact`
and `IndexIsGood` place every answer of the cache and every unchecked relation
at its position in the batch (`Placed`), `FetchedMatches` pairs the backend's
results with the unchecked relations, `ResultIsGood` and `KeptAreAllowed` say
what the merge and the filter have done so far. `CachesAreSound` carries the
meaning of a certificate: a cached grant of a key says what the backend would
say, for some relation of this key, in every context and state of the facts in
which its certificate holds. `ChecksAreGood` is that for the answers of a request.

* `TypeCorrect`: no loop reads beyond its sequence.
* `MergeIsPositional`: from the placement alone.
* `CachedAnswersAreRight`: `CachesAreSound` is kept because a result that used a
  fact or lacked a parameter is not cached, and because two deciding paths agree.
* `LookupsAreVerified`: from the two above.

**ProjectRegistry_proofs.** `EveryCacheIsCharged`: there is an injection from
the caches of a project to requests, none of which is still going to create one
for it; as long as the map is empty it is the request that has not stored yet.
From it `FewPollers`; `RegisteredCachesArePolled` from the order of
`StartRemoteChangesPolling` and `Store`; and `TypeCorrect`. `NoTimeAhead`, that
no change and no poll is later than the present, is what `OnlyLateAnswers` needs
besides: a new change is then after the last poll of every cache, so only the
caching of an answer, or a poll, could let an outdated grant go unnoticed, and a
poll drops it.

**LookupCache_proofs.** First the encoding: `SplitN` undoes the join if the
parts are free of the separator. `EntryTimes` orders the times of an entry;
`AnswersCover` and `PoolsCover` say that an answer in flight, and a pool, has
whatever had access from before the backend listed it until now;
`CreatedIsInPool` that an entry held at a creation lists the created relation.
From these `TypeCorrect`, `LocalCreationsAreListed`, `NothingIsOmittedForLong`.
`ColonFreeNamesIdentifyQueries` is about the module's assumption on keys
(`KeysAssumption`, no two queries share one): it holds whenever no relation and
no type is named with a colon, whatever the resources and targets are called,
because what follows the last separator of a key is then determined, twice.

**MetricsReporter_proofs.** `CallsAreInPlace`: a call that has been counted is in
exactly one of the collector, the snapshot and the posted windows, of its own
project and API. It needs that the object a call holds is the one in the map
(`HeldIsMapped`, which is what `LoadOrStore` is for), that an object which never
got into the map is empty (`OthersAreEmpty`), and that the snapshot has not
visited a project twice (`SnapshotIsFresh`). From these `TypeCorrect` and
`CallsAreCountedOnce`.

* `PayloadsAreTrue`: what is posted of a window is what its calls were. A
  running aggregate is compared with sums, a minimum and a maximum over the set
  of its calls (`AggregatesDescribeTheirCalls`, the invariant of the second
  level, on top of the one above). Each call enters an aggregate that does not
  have it yet, so the sum over one element more is the old one plus its value.
  It uses `FilteredAssumption`: a call that misses records no filtered
  candidates (`authz.go` 141, 205, 258).

**FiniteSums.** The sum over a finite set is a recursive function on its
subsets. The library's induction theorems take an operator and cannot be used;
what is used is that the subsets of a finite set are well-founded under strict
inclusion, so that a set of subsets that contains each subset whose own subsets
it contains, contains all. From this it follows that the recursive function
exists, and what a sum over one element more or fewer is.

Model-checked only: the liveness properties (`EveryChangeIsApplied`,
`RequestsFinish`, `EveryCallIsPosted`), which need fairness,
and the violations.

## Not modelled

* The CEL library under `cel/cel.go`: the program of a condition is a constant
  of BatchCheck, and only its early returns and its timeout are modelled.
* Controller and error types, main, configuration, remote client, middleware,
  client wrapper, generated code: they convert messages and errors, read
  settings and wire the parts, keep no state that changes and decide nothing
  the other components do. The settings are the constants of the modules. That
  a client is refused without a project ID is part of ProjectRegistry.
* The recency order of the LRU caches: any entry may be the victim, which
  allows more behaviours than the code has.
* How long anything takes, and log lines. A remote call that never ends would
  hold the mutex for ever (`projectauthzcache.go:363`); the timeouts of the SDK
  are not in the repository.
* How long a poller of the registry lives: `projectauthzcache.go:347-360` stops
  when its context is done, and whether `cctx.Go` detaches that context from the
  first request cannot be read in the repository. ProjectRegistry lets a poller
  poll at any time and has no fairness; AuthzCacheService takes it to keep
  polling (see Fairness).
* Queries with one key: LookupCache assumes that there are none
  (`KeysAssumption`). Tuples with one key, because they differ in their types
  only or by a colon, are modelled in all the modules about relation caches.

## Plan

Done, in this order: FGARelation, SweptStore, DirectRelationCache with proofs,
ProjectAuthzCache, AuthzCacheService with proofs, LookupCache, MetricsReporter,
BatchCheck with proofs, ProjectRegistry with proofs, the proofs about
LookupCache and MetricsReporter, CoherentCache and the proof that the service
implements it, the proofs about payloads, colliding keys in the project cache
and the proof that its direct cache is a SweptStore. Left:

1. **The registry over AuthzCacheService**: ProjectRegistry's caches are single
   grants; composed with CoherentCache they would be full ones.
2. **Colliding queries in LookupCache**: what is served under a key that two
   queries share, in the place of `KeysAssumption`.

## Running

```
tlc -config index.cfg MCDirectRelationCache.tla
tlc -config service_relations.cfg MCAuthzCacheService.tla
tlc -config service_conditions.cfg MCAuthzCacheService.tla
tlc -config service_cooldown.cfg MCAuthzCacheService.tla
tlc -config batch.cfg MCBatchCheck.tla
tlc -config registry.cfg MCProjectRegistry.tla
tlc -config lookups.cfg MCLookupCache.tla
tlc -config metrics.cfg MCMetricsReporter.tla
for m in *_proofs.tla; do tlapm $m; done
```

The longest run takes less than two minutes and the proofs of a module about one.
