-------------------------- MODULE ProjectAuthzCache --------------------------
(***************************************************************************)
(* The cache object of one project                                         *)
(* (internal/services/caches/projectauthzcache.go): the loaded schema, the *)
(* direct and the indirect relation cache, the poll for remote changes and *)
(* the cooldown timer that purges everything when polling keeps failing.   *)
(*                                                                         *)
(* Each operator with primes is one critical section of the object's       *)
(* mutex.  updateCacheWithRemotePolling holds the mutex across a remote    *)
(* call and is two: pollTick takes the mutex, pollReturns releases it, and *)
(* every other section needs it free.  AuthzCacheService says who runs     *)
(* these sections, and when.                                               *)
(*                                                                         *)
(* The direct cache is used through the abstraction SweptStore, which      *)
(* DirectRelationCache implements: a sweep removes the grants of the given *)
(* resources and targets, and it may remove a grant that shares its key    *)
(* with a tuple of them.                                                   *)
(*                                                                         *)
(* Points in time are positions in the history of backend changes: time n  *)
(* is any moment after the n-th change and before the next one.            *)
(***************************************************************************)
EXTENDS FGARelation, Naturals, FiniteSets

CONSTANTS
    DirectCacheSize,    \* DIRECT_RELATION_CACHE_SIZE_PER_PROJECT
    IndirectCacheSize,  \* INDIRECT_RELATION_CACHE_SIZE_PER_PROJECT
    PurgeCooldown,      \* is PURGE_COOLDOWN_WINDOW_IN_MINUTES positive?
    Conditions,         \* the condition IDs of the project's schemas
    Uncompilable,       \* the conditions that edgecel.Compile rejects
    TimerIds,           \* bound of the model: timers in use at one time
    NoSchema,           \* schemaCache is nil
    NoGrant,            \* the LRU cache does not hold the key
    NoTimer,            \* purgeCooldownTimer is nil
    Unlocked            \* no poll holds the mutex

ASSUME SizesAssumption ==
    DirectCacheSize \in Nat \ {0} /\ IndirectCacheSize \in Nat \ {0}
ASSUME PurgeCooldownAssumption == PurgeCooldown \in BOOLEAN
ASSUME ConditionsAssumption == Uncompilable \subseteq Conditions
ASSUME AbsentAssumption ==
    /\ NoSchema \notin Nat
    /\ NoTimer \notin TimerIds
    /\ Unlocked \notin Nat

VARIABLES
    schemaCache,            \* the version of the cached schema, or NoSchema
    directRelationCache,    \* key -> grant or NoGrant
    indirectRelationCache,  \* key -> grant or NoGrant
    lastPollTime,
    pollTime,               \* Unlocked, or currPollTime of the poll that holds the mutex
    purgeCooldownTimer,     \* the timer of the current cooldown, or NoTimer
    armedTimers,            \* the timers that have not fired and were not stopped
    firedTimers             \* the timers whose callback waits for the mutex

cacheVars == <<schemaCache, directRelationCache, indirectRelationCache,
               lastPollTime, pollTime, purgeCooldownTimer, armedTimers,
               firedTimers>>

relationCaches == <<directRelationCache, indirectRelationCache>>
timers == <<purgeCooldownTimer, armedTimers, firedTimers>>

(***************************************************************************)
(* A schema that LoadSchema returns has a version, 1, 2, ...; the schema   *)
(* that a local CreateFGASchema puts into the cache is just the DSL text,  *)
(* its version is "" and it has no conditions.                             *)
(***************************************************************************)
Versionless == 0

loadedSchemaVersion ==
    IF schemaCache = NoSchema THEN Versionless ELSE schemaCache

\* setSchema skips, with a log line, a condition that does not compile.
CompiledFor(version) ==
    IF version = Versionless THEN {} ELSE Conditions \ Uncompilable

compiledConditions == CompiledFor(loadedSchemaVersion)

(***************************************************************************)
(* A grant's allowed bit does not matter here.  conds joins trueConds and  *)
(* falseConds of its certificate and is empty when it is unconditional.    *)
(* The other fields are not in the code's cachedGrant: the tuple that the  *)
(* backend evaluated, the version of its schema and the time at which it   *)
(* did, and whether a change that the cache had applied by the time the    *)
(* grant was inserted had already outdated it.                             *)
(***************************************************************************)
Grant == [of : Relations, conds : SUBSET Conditions, version : Nat, asOf : Nat,
          raced : BOOLEAN]

EmptyCache == [k \in Keys |-> NoGrant]
Cached(cache) == { k \in Keys : cache[k] # NoGrant }

\* A key holds the result for a tuple with this key.
HoldsGrants(cache) ==
    /\ cache \in [Keys -> Grant \cup {NoGrant}]
    /\ \A k \in Cached(cache) : key(cache[k].of) = k

CacheTypeOK ==
    /\ schemaCache \in Nat \cup {NoSchema}
    /\ HoldsGrants(directRelationCache)
    /\ HoldsGrants(indirectRelationCache)
    /\ lastPollTime \in Nat
    /\ pollTime \in Nat \cup {Unlocked}
    /\ purgeCooldownTimer \in TimerIds \cup {NoTimer}
    /\ armedTimers \in SUBSET TimerIds
    /\ firedTimers \in SUBSET TimerIds

\* NewProjectAuthzCache
CacheInit ==
    /\ schemaCache = NoSchema
    /\ directRelationCache = EmptyCache
    /\ indirectRelationCache = EmptyCache
    /\ lastPollTime = 0
    /\ pollTime = Unlocked
    /\ purgeCooldownTimer = NoTimer
    /\ armedTimers = {}
    /\ firedTimers = {}

MutexFree == pollTime = Unlocked

-----------------------------------------------------------------------------
(* Reads: CheckRelations and GetSchema.                                    *)

\* getCachedGrant: the direct cache is asked first.
CachedGrant(r) ==
    IF directRelationCache[key(r)] # NoGrant
    THEN directRelationCache[key(r)] ELSE indirectRelationCache[key(r)]

ServedInAnyContext(r) ==
    CachedGrant(r) # NoGrant /\ CachedGrant(r).conds = {}

\* A conditional grant is served in the contexts in which its certificate re-evaluates.
ServedInSomeContext(r) ==
    /\ CachedGrant(r) # NoGrant
    /\ CachedGrant(r).conds \subseteq compiledConditions

(***************************************************************************)
(* The sets of relations that CheckRelations may return as unchecked when  *)
(* it is asked for rels: which conditional grants match is decided by the  *)
(* context of the request.                                                 *)
(***************************************************************************)
Unchecked(rels) ==
    { u \in SUBSET rels :
        /\ \A r \in rels : ServedInAnyContext(r) => r \notin u
        /\ \A r \in rels : ~ ServedInSomeContext(r) => r \in u }

SchemaIsLoaded == schemaCache # NoSchema /\ schemaCache # Versionless

-----------------------------------------------------------------------------
(* Inserting the results of a backend check.                               *)

(***************************************************************************)
(* A result of the backend for one relation.  The grant made of it is put  *)
(* into the cache unless the result used facts or, being conditional,      *)
(* cannot be re-evaluated with the conditions loaded here.                 *)
(***************************************************************************)
CheckResult == [direct : BOOLEAN, conditional : BOOLEAN, factUsed : BOOLEAN,
                missing : BOOLEAN, grant : Grant]

IsCacheable(c) ==
    /\ ~ c.factUsed
    /\ c.conditional =>
           /\ c.grant.version = loadedSchemaVersion
           /\ c.grant.conds # {}
           /\ c.grant.conds \subseteq compiledConditions
           /\ ~ c.missing

(***************************************************************************)
(* An LRU cache of the given size after the entries of new were added one  *)
(* by one.  It keeps as much as it can, and an added entry only leaves for *)
(* a later one.  Which of the old entries are the least recently used ones *)
(* is not known.                                                           *)
(***************************************************************************)
LRUAdd(cache, size, new) ==
    LET all == Cached(cache) \cup Cached(new)
        Keep(k) == /\ \/ Cardinality(k) = size
                      \/ k = all /\ Cardinality(all) <= size
                   /\ Cached(new) \subseteq k \/ k \subseteq Cached(new)
        Entry(k) == IF new[k] # NoGrant THEN new[k] ELSE cache[k]
    IN  { [k \in Keys |-> IF k \in kept THEN Entry(k) ELSE NoGrant] :
            kept \in { k \in SUBSET all : Keep(k) } }

\* The grants that the checks offer to the direct or the indirect cache for a key.
GrantsFor(k, checks, direct) ==
    { checks[r].grant : r \in { s \in Relations :
          /\ key(s) = k
          /\ checks[s] # NoGrant
          /\ checks[s].direct = direct
          /\ IsCacheable(checks[s]) } }

(***************************************************************************)
(* What the checks add to one cache.  Of the tuples with one key the last  *)
(* one in the backend's answer stays, and that can be any of them.         *)
(***************************************************************************)
GrantsOf(checks, direct) ==
    { new \in [Keys -> UNION { GrantsFor(k, checks, direct) : k \in Keys } \cup {NoGrant}] :
        \A k \in Keys :
            IF GrantsFor(k, checks, direct) = {} THEN new[k] = NoGrant
            ELSE new[k] \in GrantsFor(k, checks, direct) }

\* Variant with a defect: each cache is made with the size of the other.
UpdateSwappedCaches(checks) ==
    /\ MutexFree
    /\ \E new \in GrantsOf(checks, TRUE) :
           directRelationCache' \in LRUAdd(directRelationCache, IndirectCacheSize, new)
    /\ \E new \in GrantsOf(checks, FALSE) :
           indirectRelationCache' \in LRUAdd(indirectRelationCache, DirectCacheSize, new)
    /\ UNCHANGED <<schemaCache, lastPollTime, pollTime, timers>>

UpdateCacheWithChecks(checks) ==
    /\ MutexFree
    /\ \E new \in GrantsOf(checks, TRUE) :
           directRelationCache' \in LRUAdd(directRelationCache, DirectCacheSize, new)
    /\ \E new \in GrantsOf(checks, FALSE) :
           indirectRelationCache' \in LRUAdd(indirectRelationCache, IndirectCacheSize, new)
    /\ UNCHANGED <<schemaCache, lastPollTime, pollTime, timers>>

-----------------------------------------------------------------------------
(* Schema and relation updates, local and remote.                          *)

\* Variant with a defect: the indirect cache is forgotten.
purgeDirectOnly ==
    /\ directRelationCache' = EmptyCache
    /\ UNCHANGED indirectRelationCache

purgeRelationCaches ==
    /\ directRelationCache' = EmptyCache
    /\ indirectRelationCache' = EmptyCache

\* Variant with a defect: lastPollTime is set to the time of the next poll.
purgeAllCachesAhead(now) ==
    /\ schemaCache' = NoSchema
    /\ purgeRelationCaches
    /\ lastPollTime' = now + 1

purgeAllCaches(now) ==
    /\ schemaCache' = NoSchema
    /\ purgeRelationCaches
    /\ lastPollTime' = now

\* Is the tuple one of the resources or targets?
Concerns(resources, targets, r) == r.resource \in resources \/ r.target \in targets

(***************************************************************************)
(* The direct cache after a sweep.  Gone is every grant of the resources   *)
(* and targets, and maybe a grant whose key the indexes still list for     *)
(* another tuple of them.                                                  *)
(***************************************************************************)
SweptCaches(resources, targets) ==
    LET grants == Cached(directRelationCache)
        mustGo == { k \in grants : Concerns(resources, targets, directRelationCache[k].of) }
        mayGo == { k \in grants : \E r \in Relations :
                       key(r) = k /\ Concerns(resources, targets, r) }
    IN  { [k \in Keys |-> IF k \in gone THEN NoGrant ELSE directRelationCache[k]] :
            gone \in { g \in SUBSET mayGo : mustGo \subseteq g } }

\* Variant with a defect: indirect results are taken to survive relation changes.
sweepDirectOnly(resources, targets) ==
    /\ directRelationCache' \in SweptCaches(resources, targets)
    /\ UNCHANGED indirectRelationCache

\* Variant with a defect: a tuple is only looked up by its resource.
sweepByResource(resources, targets) ==
    /\ indirectRelationCache' = EmptyCache
    /\ directRelationCache' \in SweptCaches(resources, {})

\* Variant with a defect: a key is only listed for one of the tuples that share it.
sweepByOneTuple(resources, targets) ==
    /\ indirectRelationCache' = EmptyCache
    /\ directRelationCache' =
           [k \in Keys |->
               IF Concerns(resources, targets, CHOOSE r \in Relations : key(r) = k)
               THEN NoGrant ELSE directRelationCache[k]]

\* The indirect cache is purged, the direct cache is swept.
sweepRelations(resources, targets) ==
    /\ indirectRelationCache' = EmptyCache
    /\ directRelationCache' \in SweptCaches(resources, targets)

UpdateCacheWithSchema(version) ==
    /\ MutexFree
    /\ schemaCache' = version
    /\ purgeRelationCaches
    /\ UNCHANGED <<lastPollTime, pollTime, timers>>

\* Variant with a defect: the schema is not looked at again under the mutex.
EnsureSchemaReplaced(version) ==
    /\ MutexFree
    /\ schemaCache' = version
    /\ UNCHANGED <<relationCaches, lastPollTime, pollTime, timers>>

EnsureSchemaLoaded(version) ==
    /\ MutexFree
    /\ schemaCache' = IF SchemaIsLoaded THEN schemaCache ELSE version
    /\ UNCHANGED <<relationCaches, lastPollTime, pollTime, timers>>

\* UpdateCacheWithAddedRelations and UpdateCacheWithDeletedRelations
UpdateCacheWithRelations(rels) ==
    /\ MutexFree
    /\ sweepRelations({ r.resource : r \in rels }, { r.target : r \in rels })
    /\ UNCHANGED <<schemaCache, lastPollTime, pollTime, timers>>

-----------------------------------------------------------------------------
(* The cooldown timer.                                                     *)

FreeTimers == TimerIds \ (armedTimers \cup firedTimers)

\* Variant with a defect: the timer is stopped and stays the pending one.
cancelStopsOnly ==
    /\ armedTimers' = armedTimers \ {purgeCooldownTimer}
    /\ UNCHANGED <<purgeCooldownTimer, firedTimers>>

cancelPurgeCooldown ==
    /\ purgeCooldownTimer' = NoTimer
    /\ armedTimers' = armedTimers \ {purgeCooldownTimer}
    /\ UNCHANGED firedTimers

\* Variant with a defect: every error starts the cooldown anew.
purgeAfterLastError(now) ==
    /\ \E id \in FreeTimers :
           /\ purgeCooldownTimer' = id
           /\ armedTimers' = (armedTimers \ {purgeCooldownTimer}) \cup {id}
    /\ UNCHANGED <<schemaCache, relationCaches, lastPollTime, firedTimers>>

purgeAfterCooldown(now) ==
    \/ /\ ~ PurgeCooldown
       /\ purgeAllCaches(now)
       /\ UNCHANGED timers
    \/ /\ PurgeCooldown
       /\ purgeCooldownTimer = NoTimer
       /\ \E id \in FreeTimers :
              /\ purgeCooldownTimer' = id
              /\ armedTimers' = armedTimers \cup {id}
       /\ UNCHANGED <<schemaCache, relationCaches, lastPollTime, firedTimers>>
    \/ /\ PurgeCooldown
       /\ purgeCooldownTimer # NoTimer
       /\ UNCHANGED <<schemaCache, relationCaches, lastPollTime, timers>>

\* The runtime starts the timer's callback, which waits for the mutex.
timerFires(id) ==
    /\ id \in armedTimers
    /\ armedTimers' = armedTimers \ {id}
    /\ firedTimers' = firedTimers \cup {id}
    /\ UNCHANGED <<schemaCache, relationCaches, lastPollTime, pollTime,
                   purgeCooldownTimer>>

\* The callback asks whether there is a cooldown, not whether it is its own.
CooldownElapsed(id) == purgeCooldownTimer # NoTimer

cooldownCallback(id, now) ==
    /\ id \in firedTimers
    /\ MutexFree
    /\ firedTimers' = firedTimers \ {id}
    /\ \/ /\ CooldownElapsed(id)
          /\ purgeAllCaches(now)
          /\ purgeCooldownTimer' = NoTimer
       \/ /\ ~ CooldownElapsed(id)
          /\ UNCHANGED <<schemaCache, relationCaches, lastPollTime,
                         purgeCooldownTimer>>
    /\ UNCHANGED <<pollTime, armedTimers>>

-----------------------------------------------------------------------------
(* updateCacheWithRemotePolling                                            *)

noRelations ==
    Cached(directRelationCache) = {} /\ Cached(indirectRelationCache) = {}

\* Variant with a defect: the schema stays loaded.
pollSkippedKeepingSchema(now) ==
    /\ MutexFree
    /\ noRelations
    /\ lastPollTime' = now
    /\ UNCHANGED <<schemaCache, relationCaches, pollTime, timers>>

\* Nothing is cached: no remote call, but the schema is dropped.
pollSkipped(now) ==
    /\ MutexFree
    /\ noRelations
    /\ lastPollTime' = now
    /\ schemaCache' = NoSchema
    /\ UNCHANGED <<relationCaches, pollTime, timers>>

\* The mutex is taken and currPollTime is read; GetModified is on its way.
pollTick(now) ==
    /\ MutexFree
    /\ ~ noRelations
    /\ pollTime' = now
    /\ UNCHANGED <<schemaCache, relationCaches, lastPollTime, timers>>

\* Variant with a defect: the time is taken after the remote call.
pollReturnsChangesLate(changes, now) ==
    /\ ~ MutexFree
    /\ pollTime' = Unlocked
    /\ cancelPurgeCooldown
    /\ \/ /\ \E c \in changes : c.schemaChanged
          /\ purgeAllCaches(now)
       \/ /\ \A c \in changes : ~ c.schemaChanged
          /\ lastPollTime' = now
          /\ sweepRelations(UNION { c.resources : c \in changes },
                            UNION { c.targets : c \in changes })
          /\ UNCHANGED schemaCache

\* GetModified answered that the changes, a set of change records, happened.
pollReturnsChanges(changes, now) ==
    /\ ~ MutexFree
    /\ pollTime' = Unlocked
    /\ cancelPurgeCooldown
    /\ \/ /\ \E c \in changes : c.schemaChanged
          /\ purgeAllCaches(now)
       \/ /\ \A c \in changes : ~ c.schemaChanged
          /\ lastPollTime' = pollTime
          /\ LET resources == UNION { c.resources : c \in changes }
                 targets == UNION { c.targets : c \in changes }
             IN  IF resources = {} /\ targets = {} THEN UNCHANGED relationCaches
                 ELSE sweepRelations(resources, targets)
          /\ UNCHANGED schemaCache

\* GetModified failed with error E173012.
pollReturnsTooManyModified(now) ==
    /\ ~ MutexFree
    /\ pollTime' = Unlocked
    /\ cancelPurgeCooldown
    /\ purgeAllCaches(now)

\* GetModified failed with any other error.
pollReturnsError(now) ==
    /\ ~ MutexFree
    /\ pollTime' = Unlocked
    /\ purgeAfterCooldown(now)

=============================================================================
