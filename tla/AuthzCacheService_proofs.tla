---------------------- MODULE AuthzCacheService_proofs ----------------------
(***************************************************************************)
(* Proofs about AuthzCacheService: type correctness, that no change falls  *)
(* between two polls, that an applied change leaves no tracked grant       *)
(* behind that it outdates, that certificates match the loaded schema,     *)
(* that a pending cooldown has a timer, that the service implements        *)
(* CoherentCache, and that its direct cache implements SweptStore.         *)
(***************************************************************************)
EXTENDS AuthzCacheService, FiniteSetTheorems, SequenceTheorems, TLAPS

Entries == Grant \cup {NoGrant}

\* A request that has written knows its change.
WriteInFlight(q) ==
    /\ pc[q] = "relationsWritten" =>
           /\ change[q] # 0
           /\ log[change[q]] = RelationChange(asked[q])
    /\ pc[q] = "schemaWritten" => change[q] # 0

\* A poll was started before it was answered.
PollInFlight == pollReply # NoReply => pollTime # Unlocked /\ pollTime <= pollReply

InFlight == PollInFlight /\ \A q \in Requests : WriteInFlight(q)

-----------------------------------------------------------------------------
(* The data the actions build.                                             *)

LEMMA EmptyCacheType == HoldsGrants(EmptyCache)
BY DEF EmptyCache, HoldsGrants, Cached

LEMMA CachesAreFunctions ==
    ASSUME NEW cache, HoldsGrants(cache)
    PROVE  cache \in [Keys -> Entries]
BY DEF HoldsGrants, Entries

\* After the additions, every entry is an old or an added one.
LEMMA LRUAddEntries ==
    ASSUME NEW cache \in [Keys -> Entries], NEW new \in [Keys -> Entries],
           NEW size, NEW after \in LRUAdd(cache, size, new)
    PROVE  /\ after \in [Keys -> Entries]
           /\ \A k \in Cached(after) :
                  \/ k \in Cached(cache) /\ after[k] = cache[k]
                  \/ k \in Cached(new) /\ after[k] = new[k]
<1>1. PICK kept \in SUBSET (Cached(cache) \cup Cached(new)) :
          after = [k \in Keys |->
                      IF k \in kept
                      THEN IF new[k] # NoGrant THEN new[k] ELSE cache[k]
                      ELSE NoGrant]
  BY DEF LRUAdd
<1>2. \A k \in Keys : after[k] =
          IF k \in kept THEN IF new[k] # NoGrant THEN new[k] ELSE cache[k] ELSE NoGrant
  BY <1>1
<1>3. \A k \in Keys : after[k] \in Entries
  BY <1>2 DEF Entries
<1>4. after \in [Keys -> Entries]
  BY <1>1, <1>2, <1>3
<1>. QED  BY <1>2, <1>4 DEF Cached

\* An added grant is the grant of a cacheable check of a tuple with its key.
LEMMA AddedGrants ==
    ASSUME NEW results \in [Relations -> CheckResult \cup {NoGrant}],
           NEW direct \in BOOLEAN, NEW new \in GrantsOf(results, direct)
    PROVE  /\ new \in [Keys -> Entries]
           /\ \A k \in Cached(new) : \E r \in Relations :
                  /\ key(r) = k
                  /\ results[r] \in CheckResult
                  /\ results[r] # NoGrant
                  /\ results[r].direct = direct
                  /\ IsCacheable(results[r])
                  /\ new[k] = results[r].grant
<1>1. ASSUME NEW k \in Keys, NEW g \in GrantsFor(k, results, direct)
      PROVE  /\ g \in Grant
             /\ \E r \in Relations :
                    /\ key(r) = k
                    /\ results[r] \in CheckResult
                    /\ results[r] # NoGrant
                    /\ results[r].direct = direct
                    /\ IsCacheable(results[r])
                    /\ g = results[r].grant
  <2>1. PICK r \in Relations : /\ key(r) = k
                               /\ results[r] # NoGrant
                               /\ results[r].direct = direct
                               /\ IsCacheable(results[r])
                               /\ g = results[r].grant
    BY DEF GrantsFor
  <2>2. results[r] \in CheckResult
    BY <2>1
  <2>. QED  BY <2>1, <2>2 DEF CheckResult
<1>2. /\ new \in [Keys -> UNION { GrantsFor(k, results, direct) : k \in Keys } \cup {NoGrant}]
      /\ \A k \in Keys : new[k] = NoGrant \/ new[k] \in GrantsFor(k, results, direct)
  BY DEF GrantsOf
<1>3. \A k \in Keys : new[k] \in Entries
  BY <1>1, <1>2 DEF Entries
<1>4. new \in [Keys -> Entries]
  BY <1>2, <1>3
<1>. QED  BY <1>1, <1>2, <1>4 DEF Cached

\* A sweep leaves grants that it does not concern, and adds none.
LEMMA SweepLeaves ==
    ASSUME NEW R, NEW T, NEW after \in SweptCaches(R, T)
    PROVE  \A k \in Cached(after) :
               /\ k \in Cached(directRelationCache)
               /\ after[k] = directRelationCache[k]
               /\ ~ Concerns(R, T, after[k].of)
BY DEF SweptCaches, Cached

LEMMA SweptType ==
    ASSUME NEW R, NEW T, HoldsGrants(directRelationCache), NEW after \in SweptCaches(R, T)
    PROVE  HoldsGrants(after)
<1>1. after \in [Keys -> Grant \cup {NoGrant}]
  BY DEF SweptCaches, HoldsGrants
<1>. QED  BY <1>1, SweepLeaves DEF HoldsGrants

\* The marking of the grants that were overtaken by a change.
LEMMA StampedResults ==
    ASSUME NEW results \in [Relations -> CheckResult \cup {NoGrant}]
    PROVE  /\ Stamped(results) \in [Relations -> CheckResult \cup {NoGrant}]
           /\ \A r \in Relations : Stamped(results)[r] # NoGrant =>
                  /\ results[r] # NoGrant
                  /\ Stamped(results)[r].grant.of = results[r].grant.of
           /\ \A r \in Relations : results[r] # NoGrant =>
                  Stamped(results)[r] =
                      [results[r] EXCEPT !.grant.raced =
                          \E i \in applied :
                              Outdates(i, results[r].direct, results[r].grant)]
<1>1. \A r \in Relations : results[r] # NoGrant =>
          \A b \in BOOLEAN :
              /\ [results[r] EXCEPT !.grant.raced = b] \in CheckResult
              /\ [results[r] EXCEPT !.grant.raced = b].grant.of = results[r].grant.of
  BY DEF CheckResult, Grant
<1>. QED  BY <1>1 DEF Stamped

LEMMA VersionType == \A n \in Nat : VersionAt(n) \in Nat
<1>. SUFFICES ASSUME NEW n \in Nat PROVE VersionAt(n) \in Nat
  OBVIOUS
<1>1. IsFiniteSet(1..n)
  BY FS_Interval
<1>2. IsFiniteSet({ i \in 1..n : log[i].schemaChanged })
  BY <1>1, FS_Subset
<1>. QED  BY <1>2, FS_CardinalityType DEF VersionAt

LEMMA ChangeTypes ==
    /\ \A rels \in (SUBSET Relations) \ {{}} : RelationChange(rels) \in Change
    /\ SchemaChange \in Change
    /\ OthersChanges \subseteq Change
<1>1. ASSUME NEW rels \in (SUBSET Relations) \ {{}} PROVE RelationChange(rels) \in Change
  <2>1. PICK r \in rels : TRUE
    OBVIOUS
  <2>2. r.resource \in RelationChange(rels).resources
    BY <2>1 DEF RelationChange
  <2>3. /\ RelationChange(rels).resources \subseteq Resources
        /\ RelationChange(rels).targets \subseteq Targets
    BY DEF RelationChange, Resources, Targets
  <2>. QED  BY <2>2, <2>3 DEF RelationChange, Change
<1>2. SchemaChange \in Change
  BY DEF SchemaChange, Change
<1>. QED  BY <1>1, <1>2, OthersChangesAssumption

\* Unless the schema changed, the reply of a poll mentions whatever was changed.
LEMMA ReportedChanges ==
    ASSUME log \in Seq(Change), pollReply \in 0..Now, lastPollTime \in 0..Now,
           UNION { c.resources : c \in Reported } = {},
           UNION { c.targets : c \in Reported } = {},
           \A c \in Reported : ~ c.schemaChanged
    PROVE  Reported = {}
<1>1. \A i \in lastPollTime + 1 .. pollReply : log[i] \in Change
  BY DEF Now
<1>2. Reported \subseteq Change
  BY <1>1 DEF Reported
<1>3. \A c \in Reported : c.resources = {} /\ c.targets = {}
  OBVIOUS
<1>. QED  BY <1>2, <1>3 DEF Change

-----------------------------------------------------------------------------
(* Type correctness of the cache object, one lemma for each group of its   *)
(* critical sections.                                                      *)

LEMMA InsertType ==
    ASSUME CacheTypeOK, NEW results \in [Relations -> CheckResult \cup {NoGrant}],
           \A r \in Relations : results[r] # NoGrant => results[r].grant.of = r,
           UpdateCacheWithChecks(results)
    PROVE  CacheTypeOK'
<1>1. ASSUME NEW cache, HoldsGrants(cache), NEW direct \in BOOLEAN, NEW size,
             NEW new \in GrantsOf(results, direct), NEW after \in LRUAdd(cache, size, new)
      PROVE  HoldsGrants(after)
  <2>1. cache \in [Keys -> Entries] /\ new \in [Keys -> Entries]
    BY <1>1, CachesAreFunctions, AddedGrants
  <2>2. \A k \in Cached(new) : key(new[k].of) = k
    BY AddedGrants
  <2>3. after \in [Keys -> Entries]
    BY <2>1, LRUAddEntries
  <2>4. \A k \in Cached(after) : key(after[k].of) = k
    BY <1>1, <2>1, <2>2, LRUAddEntries DEF HoldsGrants
  <2>. QED  BY <2>3, <2>4 DEF HoldsGrants, Entries
<1>2. HoldsGrants(directRelationCache') /\ HoldsGrants(indirectRelationCache')
  BY <1>1 DEF CacheTypeOK, UpdateCacheWithChecks
<1>. QED  BY <1>2 DEF CacheTypeOK, UpdateCacheWithChecks, timers, HoldsGrants, Cached

LEMMA SchemaUpdateType ==
    ASSUME CacheTypeOK, NEW v \in Nat, UpdateCacheWithSchema(v) \/ EnsureSchemaLoaded(v)
    PROVE  CacheTypeOK'
BY EmptyCacheType
   DEF CacheTypeOK, UpdateCacheWithSchema, EnsureSchemaLoaded, purgeRelationCaches,
       relationCaches, timers, Entries

LEMMA SweepType ==
    ASSUME CacheTypeOK, NEW R, NEW T, sweepRelations(R, T)
    PROVE  HoldsGrants(directRelationCache)' /\ HoldsGrants(indirectRelationCache)'
<1>1. HoldsGrants(directRelationCache') /\ HoldsGrants(indirectRelationCache')
  BY EmptyCacheType, SweptType DEF CacheTypeOK, sweepRelations
<1>. QED  BY <1>1 DEF HoldsGrants, Cached

LEMMA RelationUpdateType ==
    ASSUME CacheTypeOK, NEW rels, UpdateCacheWithRelations(rels)
    PROVE  CacheTypeOK'
BY SweepType DEF CacheTypeOK, UpdateCacheWithRelations, timers

LEMMA TimerType ==
    ASSUME CacheTypeOK, NEW now \in Nat, NEW id \in TimerIds,
           timerFires(id) \/ cooldownCallback(id, now)
    PROVE  CacheTypeOK'
BY EmptyCacheType
   DEF CacheTypeOK, timerFires, cooldownCallback, purgeAllCaches, purgeRelationCaches,
       relationCaches, Entries

LEMMA PollStartType ==
    ASSUME CacheTypeOK, NEW now \in Nat, pollSkipped(now) \/ pollTick(now)
    PROVE  CacheTypeOK'
BY DEF CacheTypeOK, pollSkipped, pollTick, relationCaches, timers

LEMMA PollReturnType ==
    ASSUME CacheTypeOK, NEW now \in Nat, NEW changes, pollReturnsChanges(changes, now)
    PROVE  CacheTypeOK'
<1>1. CASE \E c \in changes : c.schemaChanged
  BY <1>1, EmptyCacheType
     DEF CacheTypeOK, pollReturnsChanges, cancelPurgeCooldown, purgeAllCaches,
         purgeRelationCaches, Entries
<1>2. CASE ~ \E c \in changes : c.schemaChanged
  <2>1. \/ UNCHANGED relationCaches
        \/ \E R, T : sweepRelations(R, T)
    BY <1>2 DEF pollReturnsChanges
  <2>2. HoldsGrants(directRelationCache)' /\ HoldsGrants(indirectRelationCache)'
    BY <2>1, SweepType DEF relationCaches, CacheTypeOK
  <2>. QED
    BY <1>2, <2>2 DEF CacheTypeOK, pollReturnsChanges, cancelPurgeCooldown, MutexFree
<1>. QED  BY <1>1, <1>2

LEMMA PollFailureType ==
    ASSUME CacheTypeOK, NEW now \in Nat,
           pollReturnsTooManyModified(now) \/ pollReturnsError(now)
    PROVE  CacheTypeOK'
<1>1. CASE pollReturnsTooManyModified(now)
  BY <1>1, EmptyCacheType
     DEF CacheTypeOK, pollReturnsTooManyModified, cancelPurgeCooldown, purgeAllCaches,
         purgeRelationCaches, Entries
<1>2. CASE pollReturnsError(now)
  BY <1>2, EmptyCacheType
     DEF CacheTypeOK, pollReturnsError, purgeAfterCooldown, purgeAllCaches,
         purgeRelationCaches, FreeTimers, relationCaches, timers, Entries
<1>. QED  BY <1>1, <1>2

LEMMA CacheUnchangedType == CacheTypeOK /\ UNCHANGED cacheVars => CacheTypeOK'
BY DEF CacheTypeOK, cacheVars

-----------------------------------------------------------------------------
(* Type correctness of the service.                                        *)

LEMMA TypeOKInit == Init => TypeOK
<1>. SUFFICES ASSUME Init PROVE TypeOK
  OBVIOUS
<1>1. CacheTypeOK
  BY EmptyCacheType DEF Init, CacheInit, CacheTypeOK, Entries
<1>2. log \in Seq(Change) /\ Now = 0
  BY DEF Init, Now
<1>. QED  BY <1>1, <1>2 DEF Init, CacheInit, TypeOK, PCs, NoChecks

\* A change makes the log longer by itself.
LEMMA AppendType ==
    ASSUME TypeOK, NEW c \in Change, log' = Append(log, c)
    PROVE  /\ log' \in Seq(Change)
           /\ Now \in Nat
           /\ Now' = Now + 1
           /\ \A i \in 1..Now : log'[i] = log[i]
           /\ log'[Now + 1] = c
<1>1. log \in Seq(Change)
  BY DEF TypeOK
<1>. QED  BY <1>1 DEF Now

LEMMA NowType == TypeOK => Now \in Nat /\ LocalNow \subseteq 0..Now
BY DEF TypeOK, Now, LocalNow

\* Steps of a request that leave the cache object and the log alone.
LEMMA TypeOKQuietStep ==
    ASSUME TypeOK, NEW q \in Requests,
           \/ \E rels \in Batches : CheckMisses(q, rels)
           \/ BackendChecks(q)
           \/ BackendFailsToCheck(q)
           \/ LooksForSchema(q)
           \/ BackendLoadsSchema(q)
           \/ BackendFailsToLoadSchema(q)
    PROVE  TypeOK'
<1>1. UNCHANGED <<cacheVars, log, applied, pollReply, change>> => CacheTypeOK' /\ Now' = Now
  BY CacheUnchangedType DEF TypeOK, Now
<1>2. UNCHANGED <<cacheVars, log>> => UNCHANGED <<lastPollTime, pollTime>>
  BY DEF cacheVars
<1>3. ASSUME NEW rels \in Batches, CheckMisses(q, rels) PROVE TypeOK'
  <2>1. Unchecked(rels) \subseteq SUBSET Relations
    BY BatchesAssumption DEF Unchecked
  <2>. QED  BY <1>1, <1>2, <1>3, <2>1 DEF CheckMisses, Goto, TypeOK, PCs
<1>4. ASSUME BackendChecks(q) PROVE TypeOK'
  <2>1. PICK shapes \in [asked[q] -> Results] :
            LET results == [r \in Relations |->
                               IF r \in asked[q] THEN ResultNow(r, shapes[r]) ELSE NoGrant]
            IN  /\ Goto(q, "asked", IF hasCacheableConditional(results)
                                    THEN "answered" ELSE "checked")
                /\ checks' = [checks EXCEPT ![q] = results]
                /\ UNCHANGED <<cacheVars, log, applied, pollReply, asked, change,
                               version>>
    BY <1>4 DEF BackendChecks
  <2>2. \A r \in Relations, s \in Results :
            ResultNow(r, s) \in CheckResult /\ ResultNow(r, s).grant.of = r
    BY NowType, VersionType, ResultsAssumption DEF ResultNow, CheckResult, Grant
  <2>3. [r \in Relations |->
            IF r \in asked[q] THEN ResultNow(r, shapes[r]) ELSE NoGrant]
                \in [Relations -> CheckResult \cup {NoGrant}]
    BY <2>2
  <2>4. pc' \in [Requests -> PCs]
    BY <2>1 DEF Goto, TypeOK, PCs
  <2>5. /\ checks' \in [Requests -> [Relations -> CheckResult \cup {NoGrant}]]
        /\ \A p \in Requests, r \in Relations :
               checks'[p][r] # NoGrant => checks'[p][r].grant.of = r
    BY <2>1, <2>2, <2>3 DEF TypeOK
  <2>. QED  BY <1>1, <1>2, <2>1, <2>4, <2>5 DEF TypeOK
<1>5. ASSUME BackendFailsToCheck(q) PROVE TypeOK'
  BY <1>1, <1>2, <1>5 DEF BackendFailsToCheck, Goto, TypeOK, PCs
<1>6. ASSUME LooksForSchema(q) PROVE TypeOK'
  BY <1>1, <1>2, <1>6 DEF LooksForSchema, Goto, TypeOK, PCs
<1>7. ASSUME BackendLoadsSchema(q) PROVE TypeOK'
  BY <1>1, <1>2, <1>7, NowType, VersionType DEF BackendLoadsSchema, Goto, TypeOK, PCs
<1>8. ASSUME BackendFailsToLoadSchema(q) PROVE TypeOK'
  BY <1>1, <1>2, <1>8 DEF BackendFailsToLoadSchema, Goto, TypeOK, PCs
<1>. QED  BY <1>3, <1>4, <1>5, <1>6, <1>7, <1>8

\* Steps of a request that update the cache object.
LEMMA TypeOKUpdateStep ==
    ASSUME TypeOK, InFlight, NEW q \in Requests,
           InstallsSchema(q) \/ InsertsChecks(q) \/ UpdatesRelations(q) \/ UpdatesSchema(q)
    PROVE  TypeOK'
<1>1. CASE InstallsSchema(q)
  <2>1. version[q] \in Nat
    BY DEF TypeOK
  <2>2. CacheTypeOK' /\ UNCHANGED <<lastPollTime, pollTime>>
    BY <1>1, <2>1, SchemaUpdateType DEF InstallsSchema, EnsureSchemaLoaded, TypeOK
  <2>. QED  BY <1>1, <2>2 DEF InstallsSchema, Goto, TypeOK, PCs, Now
<1>2. CASE InsertsChecks(q)
  <2>1. /\ Stamped(checks[q]) \in [Relations -> CheckResult \cup {NoGrant}]
        /\ \A r \in Relations :
               Stamped(checks[q])[r] # NoGrant => Stamped(checks[q])[r].grant.of = r
    <3>1. /\ checks[q] \in [Relations -> CheckResult \cup {NoGrant}]
          /\ \A r \in Relations : checks[q][r] # NoGrant => checks[q][r].grant.of = r
      BY DEF TypeOK
    <3>. HIDE DEF TypeOK
    <3>. QED  BY <3>1, StampedResults
  <2>2. CacheTypeOK' /\ UNCHANGED <<lastPollTime, pollTime>>
    BY <1>2, <2>1, InsertType DEF InsertsChecks, UpdateCacheWithChecks, TypeOK
  <2>3. /\ checks' \in [Requests -> [Relations -> CheckResult \cup {NoGrant}]]
        /\ \A p \in Requests, r \in Relations :
               checks'[p][r] # NoGrant => checks'[p][r].grant.of = r
    BY <1>2 DEF InsertsChecks, NoChecks, TypeOK
  <2>. QED  BY <1>2, <2>2, <2>3 DEF InsertsChecks, Goto, TypeOK, PCs, Now
<1>3. CASE UpdatesRelations(q)
  <2>1. CacheTypeOK' /\ UNCHANGED <<lastPollTime, pollTime>>
    BY <1>3, RelationUpdateType DEF UpdatesRelations, UpdateCacheWithRelations, TypeOK
  <2>2. change[q] \in 1..Now
    BY <1>3, NowType DEF UpdatesRelations, Goto, TypeOK, InFlight, WriteInFlight
  <2>3. applied' \in SUBSET (1..Now)
    BY <1>3, <2>2 DEF UpdatesRelations, TypeOK
  <2>. QED  BY <1>3, <2>1, <2>3, NowType DEF UpdatesRelations, Goto, TypeOK, PCs, Now
<1>4. CASE UpdatesSchema(q)
  <2>1. CacheTypeOK' /\ UNCHANGED <<lastPollTime, pollTime>>
    BY <1>4, SchemaUpdateType
       DEF UpdatesSchema, UpdateCacheWithSchema, Versionless, TypeOK
  <2>2. change[q] \in 1..Now
    BY <1>4, NowType DEF UpdatesSchema, Goto, TypeOK, InFlight, WriteInFlight
  <2>3. applied' \in SUBSET (1..Now)
    BY <1>4, <2>2 DEF UpdatesSchema, TypeOK
  <2>. QED  BY <1>4, <2>1, <2>3, NowType DEF UpdatesSchema, Goto, TypeOK, PCs, Now
<1>. QED  BY <1>1, <1>2, <1>3, <1>4

\* Steps that add a change to the log.
LEMMA TypeOKChangeStep ==
    ASSUME TypeOK,
           \/ \E q \in Requests, rels \in Batches : BackendWritesRelations(q, rels)
           \/ \E q \in Requests : BackendWritesSchema(q)
           \/ ChangeByOthers
    PROVE  TypeOK'
<1>1. CacheTypeOK' /\ UNCHANGED <<lastPollTime, pollTime>>
  BY CacheUnchangedType
     DEF TypeOK, cacheVars, BackendWritesRelations, BackendWritesSchema, ChangeByOthers
<1>2. PICK c \in Change : log' = Append(log, c)
  BY ChangeTypes, BatchesAssumption
     DEF BackendWritesRelations, BackendWritesSchema, ChangeByOthers
<1>3. log' \in Seq(Change) /\ Now \in Nat /\ Now' = Now + 1
  BY <1>2, AppendType
<1>4. UNCHANGED <<applied, pollReply, checks, version>>
  BY DEF requestVars, BackendWritesRelations, BackendWritesSchema, ChangeByOthers
<1>5. 0..Now \subseteq 0..Now' /\ 1..Now \subseteq 1..Now'
  BY <1>3
<1>6. pc' \in [Requests -> PCs]
  BY DEF TypeOK, PCs, Goto, requestVars,
         BackendWritesRelations, BackendWritesSchema, ChangeByOthers
<1>8. asked' \in [Requests -> SUBSET Relations]
  <2>1. Batches \subseteq SUBSET Relations
    BY BatchesAssumption
  <2>2. asked \in [Requests -> SUBSET Relations]
    BY DEF TypeOK
  <2>3. \/ UNCHANGED asked
        \/ \E q \in Requests, rels \in Batches : asked' = [asked EXCEPT ![q] = rels]
    BY DEF requestVars, BackendWritesRelations, BackendWritesSchema, ChangeByOthers
  <2>. QED  BY <2>1, <2>2, <2>3
<1>7. change' \in [Requests -> 0..Now']
  <2>1. change \in [Requests -> 0..Now]
    BY DEF TypeOK
  <2>2. UNCHANGED change \/ \E q \in Requests : change' = [change EXCEPT ![q] = Now + 1]
    BY DEF requestVars, BackendWritesRelations, BackendWritesSchema, ChangeByOthers
  <2>3. Now + 1 \in 0..Now'
    BY <1>3
  <2>. HIDE DEF Now
  <2>. QED  BY <1>5, <2>1, <2>2, <2>3
<1>9. applied' \in SUBSET (1..Now') /\ pollReply' \in 0..Now' \cup {NoReply}
  BY <1>4, <1>5 DEF TypeOK
<1>10. lastPollTime' \in 0..Now' /\ pollTime' \in 0..Now' \cup {Unlocked}
  BY <1>1, <1>5 DEF TypeOK
<1>11. /\ checks' \in [Requests -> [Relations -> CheckResult \cup {NoGrant}]]
       /\ \A q \in Requests, r \in Relations :
              checks'[q][r] # NoGrant => checks'[q][r].grant.of = r
       /\ version' \in [Requests -> Nat]
  BY <1>4 DEF TypeOK
<1>. QED  BY <1>1, <1>3, <1>6, <1>7, <1>8, <1>9, <1>10, <1>11 DEF TypeOK

\* Steps of the poller and of the timer.
LEMMA TypeOKPollerStep ==
    ASSUME TypeOK,
           \/ PollSkips
           \/ PollStarts
           \/ PollCompletes
           \/ \E id \in TimerIds : TimerFires(id) \/ CooldownCallback(id)
    PROVE  TypeOK'
<1>. USE NowType
<1>1. CASE PollSkips
  <2>1. PICK now \in LocalNow : pollSkipped(now)
    BY <1>1 DEF PollSkips
  <2>2. CacheTypeOK' /\ lastPollTime' = now /\ pollTime' = pollTime
    BY <2>1, PollStartType DEF pollSkipped, TypeOK
  <2>. QED  BY <1>1, <2>2 DEF PollSkips, requestVars, TypeOK, Now
<1>2. CASE PollStarts
  <2>1. PICK now \in LocalNow : pollTick(now)
    BY <1>2 DEF PollStarts
  <2>2. CacheTypeOK' /\ lastPollTime' = lastPollTime /\ pollTime' = now
    BY <2>1, PollStartType DEF pollTick, TypeOK
  <2>. QED  BY <1>2, <2>2 DEF PollStarts, requestVars, TypeOK, Now
<1>3. CASE BackendAnswersPoll
  <2>1. CacheTypeOK' /\ UNCHANGED <<lastPollTime, pollTime>>
    BY <1>3, CacheUnchangedType DEF BackendAnswersPoll, cacheVars, TypeOK
  <2>. QED  BY <1>3, <2>1 DEF BackendAnswersPoll, requestVars, TypeOK, Now
<1>4. CASE PollReturnsChanges
  <2>1. PICK now \in LocalNow : pollReturnsChanges(Reported, now)
    BY <1>4 DEF PollReturnsChanges
  <2>2. CacheTypeOK'
    BY <2>1, PollReturnType DEF TypeOK
  <2>3. pollTime' = Unlocked /\ lastPollTime' \in 0..Now
    BY <2>1 DEF pollReturnsChanges, purgeAllCaches, MutexFree, TypeOK
  <2>4. applied' \in SUBSET (1..Now)
    BY <1>4 DEF PollReturnsChanges, TypeOK
  <2>. QED  BY <1>4, <2>2, <2>3, <2>4 DEF PollReturnsChanges, requestVars, TypeOK, Now
<1>5. CASE PollReturnsTooManyModified
  <2>1. PICK now \in LocalNow : pollReturnsTooManyModified(now)
    BY <1>5 DEF PollReturnsTooManyModified
  <2>2. CacheTypeOK'
    BY <2>1, PollFailureType DEF TypeOK
  <2>3. pollTime' = Unlocked /\ lastPollTime' = now
    BY <2>1 DEF pollReturnsTooManyModified, purgeAllCaches
  <2>. QED  BY <1>5, <2>2, <2>3 DEF PollReturnsTooManyModified, requestVars, TypeOK, Now
<1>6. CASE PollReturnsError
  <2>1. PICK now \in LocalNow : pollReturnsError(now)
    BY <1>6 DEF PollReturnsError
  <2>2. CacheTypeOK' /\ pollTime' = Unlocked
    BY <2>1, PollFailureType DEF pollReturnsError, TypeOK
  <2>3. lastPollTime' \in {lastPollTime, now}
    BY <2>1 DEF pollReturnsError, purgeAfterCooldown, purgeAllCaches
  <2>. QED  BY <1>6, <2>2, <2>3 DEF PollReturnsError, requestVars, TypeOK, Now
<1>7. ASSUME NEW id \in TimerIds, TimerFires(id) PROVE TypeOK'
  <2>1. CacheTypeOK' /\ UNCHANGED <<lastPollTime, pollTime>>
    BY <1>7, TimerType DEF TimerFires, timerFires, TypeOK
  <2>. QED  BY <1>7, <2>1 DEF TimerFires, requestVars, TypeOK, Now
<1>8. ASSUME NEW id \in TimerIds, CooldownCallback(id) PROVE TypeOK'
  <2>1. PICK now \in LocalNow : cooldownCallback(id, now)
    BY <1>8 DEF CooldownCallback
  <2>2. CacheTypeOK' /\ pollTime' = pollTime
    BY <2>1, TimerType DEF cooldownCallback, TypeOK
  <2>3. lastPollTime' \in {lastPollTime, now}
    BY <2>1 DEF cooldownCallback, purgeAllCaches
  <2>. QED  BY <1>8, <2>2, <2>3 DEF CooldownCallback, requestVars, TypeOK, Now
<1>. QED  BY <1>1, <1>2, <1>3, <1>4, <1>5, <1>6, <1>7, <1>8 DEF PollCompletes

LEMMA TypeOKStep == TypeOK /\ InFlight /\ [Next]_vars => TypeOK'
<1>. SUFFICES ASSUME TypeOK, InFlight, [Next]_vars PROVE TypeOK'
  OBVIOUS
<1>1. CASE UNCHANGED vars
  BY <1>1, CacheUnchangedType DEF vars, requestVars, cacheVars, TypeOK, Now
<1>2. ASSUME NEW q \in Requests, RequestStep(q) PROVE TypeOK'
  BY <1>2, TypeOKQuietStep, TypeOKUpdateStep, TypeOKChangeStep DEF RequestStep
<1>. QED  BY <1>1, <1>2, TypeOKChangeStep, TypeOKPollerStep DEF Next

-----------------------------------------------------------------------------
(* What is in flight between two steps of a request or of a poll.          *)

\* The log only grows, and only at its end.
LEMMA LogStep ==
    ASSUME TypeOK, [Next]_vars
    PROVE  /\ Now \in Nat /\ Now' \in Nat /\ Now <= Now'
           /\ \A i \in 1..Now : log'[i] = log[i]
<1>1. CASE UNCHANGED log
  BY <1>1, NowType DEF Now
<1>2. CASE \E c \in Change : log' = Append(log, c)
  <2>1. PICK c \in Change : log' = Append(log, c)
    BY <1>2
  <2>2. Now \in Nat /\ Now' = Now + 1 /\ \A i \in 1..Now : log'[i] = log[i]
    BY <2>1, AppendType
  <2>. QED  BY <2>2
<1>3. UNCHANGED log \/ \E c \in Change : log' = Append(log, c)
  BY ChangeTypes, BatchesAssumption
     DEF Next, vars, RequestStep, CheckMisses, BackendChecks, BackendFailsToCheck,
         LooksForSchema, BackendLoadsSchema, BackendFailsToLoadSchema, InstallsSchema,
         InsertsChecks, BackendWritesRelations, UpdatesRelations, BackendWritesSchema,
         UpdatesSchema, ChangeByOthers, PollSkips, PollStarts, PollCompletes,
         BackendAnswersPoll, PollReturnsChanges, PollReturnsTooManyModified,
         PollReturnsError, TimerFires, CooldownCallback
<1>. QED  BY <1>1, <1>2, <1>3

LEMMA WriteInFlightStep ==
    ASSUME TypeOK, InFlight, [Next]_vars, NEW p \in Requests
    PROVE  WriteInFlight(p)'
<1>1. CASE UNCHANGED <<pc[p], change[p], asked[p]>>
  <2>1. change[p] \in 0..Now /\ WriteInFlight(p)
    BY DEF TypeOK, InFlight
  <2>. QED  BY <1>1, <2>1, LogStep DEF WriteInFlight
<1>2. CASE pc'[p] \notin {"relationsWritten", "schemaWritten"}
  BY <1>2 DEF WriteInFlight
<1>3. ASSUME NEW rels \in Batches, BackendWritesRelations(p, rels)
      PROVE  WriteInFlight(p)'
  <2>1. log' = Append(log, RelationChange(rels)) /\ RelationChange(rels) \in Change
    BY <1>3, ChangeTypes, BatchesAssumption DEF BackendWritesRelations
  <2>2. log'[Now + 1] = RelationChange(rels) /\ Now \in Nat
    BY <2>1, AppendType
  <2>3. pc'[p] = "relationsWritten" /\ change'[p] = Now + 1 /\ asked'[p] = rels
    BY <1>3 DEF BackendWritesRelations, Goto, TypeOK
  <2>. QED  BY <2>2, <2>3 DEF WriteInFlight, RelationChange
<1>4. CASE BackendWritesSchema(p)
  <2>1. pc'[p] = "schemaWritten" /\ change'[p] = Now + 1 /\ Now \in Nat
    BY <1>4, NowType DEF BackendWritesSchema, Goto, TypeOK
  <2>. QED  BY <2>1 DEF WriteInFlight
<1>5. ASSUME NEW q \in Requests, q # p, RequestStep(q)
      PROVE  UNCHANGED <<pc[p], change[p], asked[p]>>
  BY <1>5
     DEF TypeOK, Goto, RequestStep, CheckMisses, BackendChecks, BackendFailsToCheck,
         LooksForSchema, BackendLoadsSchema, BackendFailsToLoadSchema, InstallsSchema,
         InsertsChecks, BackendWritesRelations, UpdatesRelations, BackendWritesSchema,
         UpdatesSchema
<1>6. ASSUME RequestStep(p)
      PROVE  \/ pc'[p] \notin {"relationsWritten", "schemaWritten"}
             \/ \E rels \in Batches : BackendWritesRelations(p, rels)
             \/ BackendWritesSchema(p)
  BY <1>6
     DEF TypeOK, Goto, RequestStep, CheckMisses, BackendChecks, BackendFailsToCheck,
         LooksForSchema, BackendLoadsSchema, BackendFailsToLoadSchema, InstallsSchema,
         InsertsChecks, UpdatesRelations, UpdatesSchema
<1>7. (\E q \in Requests : RequestStep(q)) \/ UNCHANGED requestVars
  BY DEF Next, vars, ChangeByOthers, PollSkips, PollStarts, PollCompletes,
         BackendAnswersPoll, PollReturnsChanges, PollReturnsTooManyModified,
         PollReturnsError, TimerFires, CooldownCallback
<1>. QED  BY <1>1, <1>2, <1>3, <1>4, <1>5, <1>6, <1>7 DEF requestVars

LEMMA PollInFlightStep == TypeOK /\ PollInFlight /\ [Next]_vars => PollInFlight'
<1>. SUFFICES ASSUME TypeOK, PollInFlight, [Next]_vars PROVE PollInFlight'
  OBVIOUS
<1>1. CASE UNCHANGED <<pollTime, pollReply>>
  BY <1>1 DEF PollInFlight
<1>2. CASE PollStarts
  <2>1. pollReply = NoReply /\ pollReply' = pollReply
    BY <1>2 DEF PollStarts, pollTick, MutexFree, PollInFlight
  <2>. QED  BY <2>1 DEF PollInFlight
<1>3. CASE BackendAnswersPoll
  BY <1>3, NowType DEF BackendAnswersPoll, MutexFree, TypeOK, PollInFlight, cacheVars
<1>4. CASE PollReturnsChanges
  BY <1>4 DEF PollReturnsChanges, PollInFlight
<1>5. CASE PollReturnsTooManyModified \/ PollReturnsError
  BY <1>5 DEF PollReturnsTooManyModified, PollReturnsError, PollInFlight
<1>6. \/ UNCHANGED <<pollTime, pollReply>>
      \/ PollStarts
      \/ PollCompletes
  BY DEF Next, vars, cacheVars, requestVars, RequestStep, CheckMisses, BackendChecks,
         BackendFailsToCheck, LooksForSchema, BackendLoadsSchema,
         BackendFailsToLoadSchema, InstallsSchema, InsertsChecks,
         BackendWritesRelations, UpdatesRelations, BackendWritesSchema,
         UpdatesSchema, ChangeByOthers, PollSkips, TimerFires, CooldownCallback,
         EnsureSchemaLoaded, UpdateCacheWithChecks, UpdateCacheWithRelations,
         UpdateCacheWithSchema, pollSkipped, timerFires, cooldownCallback
<1>. QED  BY <1>1, <1>2, <1>3, <1>4, <1>5, <1>6 DEF PollCompletes

LEMMA InFlightInit == Init => InFlight
BY DEF Init, InFlight, PollInFlight, WriteInFlight

LEMMA InFlightStep == TypeOK /\ InFlight /\ [Next]_vars => InFlight'
BY WriteInFlightStep, PollInFlightStep DEF InFlight

LEMMA BasicInvariant == Spec => [](TypeOK /\ InFlight)
<1>1. Init => TypeOK /\ InFlight
  BY TypeOKInit, InFlightInit
<1>2. TypeOK /\ InFlight /\ [Next]_vars => (TypeOK /\ InFlight)'
  BY TypeOKStep, InFlightStep
<1>. QED  BY <1>1, <1>2, PTL DEF Spec

(***************************************************************************)
(* Every variable of the service and of the cache object stays within its  *)
(* type; in particular neither the changes taken into account nor the time *)
(* of the last poll are ahead of the backend.                              *)
(***************************************************************************)
THEOREM TypeCorrect == Spec => []TypeOK
BY BasicInvariant, PTL

-----------------------------------------------------------------------------
(* Which steps touch the cache object.                                     *)

LEMMA CacheSteps ==
    ASSUME [Next]_vars
    PROVE  \/ UNCHANGED <<cacheVars, applied>>
           \/ \E q \in Requests : \/ InstallsSchema(q)
                                  \/ InsertsChecks(q)
                                  \/ UpdatesRelations(q)
                                  \/ UpdatesSchema(q)
           \/ PollSkips
           \/ PollStarts
           \/ PollReturnsChanges
           \/ PollReturnsTooManyModified
           \/ PollReturnsError
           \/ \E id \in TimerIds : TimerFires(id) \/ CooldownCallback(id)
BY DEF Next, vars, RequestStep, CheckMisses, BackendChecks, BackendFailsToCheck,
       LooksForSchema, BackendLoadsSchema, BackendFailsToLoadSchema,
       BackendWritesRelations, BackendWritesSchema, ChangeByOthers, PollCompletes,
       BackendAnswersPoll

-----------------------------------------------------------------------------
(* No change falls through the polls.                                      *)

LEMMA PendingStep ==
    TypeOK /\ InFlight /\ PendingChangesAreReported /\ [Next]_vars
        => PendingChangesAreReported'
<1>. SUFFICES ASSUME TypeOK, InFlight, PendingChangesAreReported, [Next]_vars
              PROVE  PendingChangesAreReported'
  OBVIOUS
<1>. USE NowType
<1>1. CASE lastPollTime' = lastPollTime /\ applied \subseteq applied'
  BY <1>1 DEF PendingChangesAreReported
<1>2. CASE lastPollTime' \in 0..Now /\ applied' = 1..Now
  BY <1>2 DEF PendingChangesAreReported
<1>3. CASE PollSkips
  BY <1>2, <1>3 DEF PollSkips, pollSkipped
<1>4. CASE PollReturnsChanges
  <2>1. PICK now \in LocalNow : pollReturnsChanges(Reported, now)
    BY <1>4 DEF PollReturnsChanges
  <2>2. CASE \E c \in Reported : c.schemaChanged
    BY <1>2, <1>4, <2>1, <2>2 DEF PollReturnsChanges, pollReturnsChanges, purgeAllCaches
  <2>3. CASE ~ \E c \in Reported : c.schemaChanged
    <3>1. lastPollTime' = pollTime /\ applied' = applied \cup (lastPollTime + 1 .. pollReply)
      BY <1>4, <2>1, <2>3 DEF PollReturnsChanges, pollReturnsChanges
    <3>2. pollTime \in Nat /\ pollReply \in Nat /\ lastPollTime \in Nat
          /\ pollTime <= pollReply
      BY <1>4 DEF PollReturnsChanges, TypeOK, InFlight, PollInFlight
    <3>. QED  BY <3>1, <3>2 DEF PendingChangesAreReported
  <2>. QED  BY <2>2, <2>3
<1>5. CASE PollReturnsTooManyModified
  BY <1>2, <1>5
     DEF PollReturnsTooManyModified, pollReturnsTooManyModified, purgeAllCaches
<1>6. CASE PollReturnsError
  BY <1>1, <1>2, <1>6
     DEF PollReturnsError, pollReturnsError, purgeAfterCooldown, purgeAllCaches
<1>7. ASSUME NEW id \in TimerIds, CooldownCallback(id) PROVE PendingChangesAreReported'
  BY <1>1, <1>2, <1>7
     DEF CooldownCallback, cooldownCallback, CooldownElapsed, purgeAllCaches
<1>8. \/ lastPollTime' = lastPollTime /\ applied \subseteq applied'
      \/ PollSkips
      \/ PollReturnsChanges
      \/ PollReturnsTooManyModified
      \/ PollReturnsError
      \/ \E id \in TimerIds : CooldownCallback(id)
  BY CacheSteps
     DEF cacheVars, InstallsSchema, InsertsChecks, UpdatesRelations, UpdatesSchema,
         EnsureSchemaLoaded, UpdateCacheWithChecks, UpdateCacheWithRelations,
         UpdateCacheWithSchema, PollStarts, pollTick, TimerFires, timerFires
<1>. QED  BY <1>1, <1>3, <1>4, <1>5, <1>6, <1>7, <1>8

(***************************************************************************)
(* Polling misses no change: lastPollTime only passes a change of the      *)
(* backend when the cache has taken it into account, whatever happens      *)
(* between the reading of the clock and the answer, and although the       *)
(* clock of the cache may lag.                                             *)
(***************************************************************************)
THEOREM NoChangeIsSkipped == Spec => []PendingChangesAreReported
<1>1. Init => PendingChangesAreReported
  BY DEF Init, CacheInit, PendingChangesAreReported
<1>. QED  BY <1>1, PendingStep, BasicInvariant, PTL DEF Spec

-----------------------------------------------------------------------------
(* A pending cooldown has a timer.                                         *)

LEMMA CooldownStep == CooldownHasTimer /\ [Next]_vars => CooldownHasTimer'
<1>. SUFFICES ASSUME CooldownHasTimer, [Next]_vars PROVE CooldownHasTimer'
  OBVIOUS
<1>1. CASE UNCHANGED timers
  BY <1>1 DEF timers, CooldownHasTimer
<1>2. CASE purgeCooldownTimer' = NoTimer
  BY <1>2 DEF CooldownHasTimer
<1>3. CASE PollReturnsError
  BY <1>1, <1>3
     DEF PollReturnsError, pollReturnsError, purgeAfterCooldown, CooldownHasTimer
<1>4. ASSUME NEW id \in TimerIds, TimerFires(id) PROVE CooldownHasTimer'
  BY <1>4 DEF TimerFires, timerFires, CooldownHasTimer
<1>5. ASSUME NEW id \in TimerIds, CooldownCallback(id) PROVE CooldownHasTimer'
  BY <1>2, <1>5 DEF CooldownCallback, cooldownCallback, CooldownElapsed
<1>6. \/ UNCHANGED timers
      \/ purgeCooldownTimer' = NoTimer
      \/ PollReturnsError
      \/ \E id \in TimerIds : TimerFires(id) \/ CooldownCallback(id)
  BY CacheSteps
     DEF cacheVars, timers, InstallsSchema, InsertsChecks, UpdatesRelations,
         UpdatesSchema, EnsureSchemaLoaded, UpdateCacheWithChecks,
         UpdateCacheWithRelations, UpdateCacheWithSchema, PollSkips, pollSkipped,
         PollStarts, pollTick, PollReturnsChanges, pollReturnsChanges,
         PollReturnsTooManyModified, pollReturnsTooManyModified, cancelPurgeCooldown
<1>. QED  BY <1>1, <1>2, <1>3, <1>4, <1>5, <1>6

(***************************************************************************)
(* A cooldown that has begun is never without a timer that will end it:    *)
(* the cancelling poll, the firing timer and its callback may come in any  *)
(* order.                                                                  *)
(***************************************************************************)
THEOREM CooldownEnds == Spec => []CooldownHasTimer
<1>1. Init => CooldownHasTimer
  BY DEF Init, CacheInit, CooldownHasTimer
<1>. QED  BY <1>1, CooldownStep, PTL DEF Spec

-----------------------------------------------------------------------------
(* An applied change leaves no tracked grant behind that it outdates.      *)

\* Both relation caches are emptied.
Purged == directRelationCache' = EmptyCache /\ indirectRelationCache' = EmptyCache

LEMMA FreshAfterPurge == Purged => TrackedGrantsAreFresh'
BY DEF Purged, TrackedGrantsAreFresh, NoOutdatedGrant, Cached, EmptyCache

\* Grants that stay outdate no more than before when no change is applied.
LEMMA FreshWhenUnchanged ==
    ASSUME TypeOK, [Next]_vars, TrackedGrantsAreFresh,
           UNCHANGED <<relationCaches, applied>>
    PROVE  TrackedGrantsAreFresh'
<1>1. \A i \in applied : log'[i] = log[i]
  BY LogStep DEF TypeOK
<1>. QED
  BY <1>1 DEF TrackedGrantsAreFresh, NoOutdatedGrant, Outdates, relationCaches, Cached

\* A sweep of all that the newly applied relation changes mention.
LEMMA FreshAfterSweep ==
    ASSUME TypeOK, TrackedGrantsAreFresh, UNCHANGED log,
           NEW R, NEW T, sweepRelations(R, T),
           \A i \in applied' \ applied :
               /\ ~ log[i].schemaChanged
               /\ log[i].resources \subseteq R
               /\ log[i].targets \subseteq T
    PROVE  TrackedGrantsAreFresh'
<1>1. NoOutdatedGrant(indirectRelationCache, FALSE)'
  BY DEF sweepRelations, NoOutdatedGrant, Cached, EmptyCache
<1>2. ASSUME NEW k \in Cached(directRelationCache'), NEW i \in applied',
             Outdates(i, TRUE, directRelationCache'[k])
      PROVE  directRelationCache'[k].raced
  <2>1. /\ k \in Cached(directRelationCache)
        /\ directRelationCache'[k] = directRelationCache[k]
        /\ ~ Concerns(R, T, directRelationCache'[k].of)
    BY SweepLeaves DEF sweepRelations
  <2>2. CASE i \in applied
    BY <1>2, <2>1, <2>2 DEF TrackedGrantsAreFresh, NoOutdatedGrant
  <2>3. CASE i \notin applied
    BY <1>2, <2>1, <2>3 DEF Outdates, Concerns
  <2>. QED  BY <2>2, <2>3
<1>3. NoOutdatedGrant(directRelationCache, TRUE)'
  BY <1>2 DEF NoOutdatedGrant, Outdates, Cached
<1>. QED  BY <1>1, <1>3 DEF TrackedGrantsAreFresh

(***************************************************************************)
(* A grant that a Check adds to a cache is one of its results, with the    *)
(* mark of a result that an applied change outdates.                       *)
(***************************************************************************)
LEMMA InsertedGrants ==
    ASSUME TypeOK, NEW q \in Requests, NEW direct \in BOOLEAN,
           NEW new \in GrantsOf(Stamped(checks[q]), direct), NEW k \in Cached(new)
    PROVE  \E r \in Relations :
               /\ key(r) = k
               /\ checks[q][r] # NoGrant
               /\ checks[q][r] \in CheckResult
               /\ checks[q][r].grant.of = r
               /\ checks[q][r].direct = direct
               /\ IsCacheable(checks[q][r])
               /\ new[k] =
                      [checks[q][r].grant EXCEPT !.raced =
                          \E i \in applied : Outdates(i, direct, checks[q][r].grant)]
<1>1. checks[q] \in [Relations -> CheckResult \cup {NoGrant}]
  BY DEF TypeOK
<1>2. Stamped(checks[q]) \in [Relations -> CheckResult \cup {NoGrant}]
  BY <1>1, StampedResults
<1>3. PICK r \in Relations : /\ key(r) = k
                             /\ Stamped(checks[q])[r] # NoGrant
                             /\ Stamped(checks[q])[r].direct = direct
                             /\ IsCacheable(Stamped(checks[q])[r])
                             /\ new[k] = Stamped(checks[q])[r].grant
  BY <1>2, AddedGrants
<1>4. checks[q][r] # NoGrant
  BY <1>3 DEF Stamped
<1>5. checks[q][r] \in CheckResult /\ checks[q][r].grant.of = r
  BY <1>1, <1>4 DEF TypeOK
<1>. DEFINE outdated == \E i \in applied : Outdates(i, checks[q][r].direct, checks[q][r].grant)
<1>6. Stamped(checks[q])[r] = [checks[q][r] EXCEPT !.grant.raced = outdated]
  BY <1>1, <1>4, StampedResults
<1>. HIDE DEF outdated
<1>7. /\ Stamped(checks[q])[r].direct = checks[q][r].direct
      /\ Stamped(checks[q])[r].grant = [checks[q][r].grant EXCEPT !.raced = outdated]
      /\ IsCacheable(Stamped(checks[q])[r]) <=> IsCacheable(checks[q][r])
  BY <1>5, <1>6 DEF CheckResult, Grant, IsCacheable
<1>. QED  BY <1>3, <1>4, <1>5, <1>7 DEF outdated

\* What a Check that is inserted does to the two caches.
LEMMA InsertedCaches ==
    ASSUME TypeOK, NEW q \in Requests, InsertsChecks(q)
    PROVE  /\ UNCHANGED <<log, applied, schemaCache>>
           /\ \A k \in Cached(directRelationCache') :
                  \/ /\ k \in Cached(directRelationCache)
                     /\ directRelationCache'[k] = directRelationCache[k]
                  \/ \E new \in GrantsOf(Stamped(checks[q]), TRUE) :
                         k \in Cached(new) /\ directRelationCache'[k] = new[k]
           /\ \A k \in Cached(indirectRelationCache') :
                  \/ /\ k \in Cached(indirectRelationCache)
                     /\ indirectRelationCache'[k] = indirectRelationCache[k]
                  \/ \E new \in GrantsOf(Stamped(checks[q]), FALSE) :
                         k \in Cached(new) /\ indirectRelationCache'[k] = new[k]
<1>1. Stamped(checks[q]) \in [Relations -> CheckResult \cup {NoGrant}]
  BY StampedResults DEF TypeOK
<1>2. UNCHANGED <<log, applied, schemaCache>> /\ UpdateCacheWithChecks(Stamped(checks[q]))
  BY DEF InsertsChecks, UpdateCacheWithChecks
<1>3. directRelationCache \in [Keys -> Entries] /\ indirectRelationCache \in [Keys -> Entries]
  BY CachesAreFunctions DEF TypeOK, CacheTypeOK
<1>4. \A k \in Cached(directRelationCache') :
          \/ /\ k \in Cached(directRelationCache)
             /\ directRelationCache'[k] = directRelationCache[k]
          \/ \E new \in GrantsOf(Stamped(checks[q]), TRUE) :
                 k \in Cached(new) /\ directRelationCache'[k] = new[k]
  <2>1. PICK new \in GrantsOf(Stamped(checks[q]), TRUE) :
            directRelationCache' \in LRUAdd(directRelationCache, DirectCacheSize, new)
    BY <1>2 DEF UpdateCacheWithChecks
  <2>2. new \in [Keys -> Entries]
    BY <1>1, AddedGrants
  <2>3. \A k \in Cached(directRelationCache') :
            \/ k \in Cached(directRelationCache) /\ directRelationCache'[k] = directRelationCache[k]
            \/ k \in Cached(new) /\ directRelationCache'[k] = new[k]
    BY <1>3, <2>1, <2>2, LRUAddEntries
  <2>. QED  BY <2>3
<1>5. \A k \in Cached(indirectRelationCache') :
          \/ /\ k \in Cached(indirectRelationCache)
             /\ indirectRelationCache'[k] = indirectRelationCache[k]
          \/ \E new \in GrantsOf(Stamped(checks[q]), FALSE) :
                 k \in Cached(new) /\ indirectRelationCache'[k] = new[k]
  <2>1. PICK new \in GrantsOf(Stamped(checks[q]), FALSE) :
            indirectRelationCache' \in LRUAdd(indirectRelationCache, IndirectCacheSize, new)
    BY <1>2 DEF UpdateCacheWithChecks
  <2>2. new \in [Keys -> Entries]
    BY <1>1, AddedGrants
  <2>3. \A k \in Cached(indirectRelationCache') :
            \/ k \in Cached(indirectRelationCache) /\ indirectRelationCache'[k] = indirectRelationCache[k]
            \/ k \in Cached(new) /\ indirectRelationCache'[k] = new[k]
    BY <1>3, <2>1, <2>2, LRUAddEntries
  <2>. QED  BY <2>3
<1>. QED  BY <1>2, <1>4, <1>5

\* The grants of an answered Check are marked when an applied change outdates them.
LEMMA FreshAfterInsert ==
    ASSUME TypeOK, TrackedGrantsAreFresh, NEW q \in Requests, InsertsChecks(q)
    PROVE  TrackedGrantsAreFresh'
<1>1. ASSUME NEW direct \in BOOLEAN, NEW new \in GrantsOf(Stamped(checks[q]), direct),
             NEW k \in Cached(new), NEW i \in applied, Outdates(i, direct, new[k])
      PROVE  new[k].raced
  <2>1. PICK r \in Relations :
            /\ checks[q][r] \in CheckResult
            /\ new[k] =
                   [checks[q][r].grant EXCEPT !.raced =
                       \E j \in applied : Outdates(j, direct, checks[q][r].grant)]
    BY InsertedGrants
  <2>. DEFINE outdated == \E j \in applied : Outdates(j, direct, checks[q][r].grant)
  <2>. HIDE DEF outdated
  <2>2. new[k] = [checks[q][r].grant EXCEPT !.raced = outdated]
    BY <2>1 DEF outdated
  <2>3. /\ new[k].raced = outdated
        /\ new[k].asOf = checks[q][r].grant.asOf
        /\ new[k].of = checks[q][r].grant.of
    BY <2>1, <2>2 DEF CheckResult, Grant
  <2>4. outdated
    BY <1>1, <2>3 DEF outdated, Outdates
  <2>. QED  BY <2>3, <2>4
<1>2. NoOutdatedGrant(directRelationCache', TRUE)
  BY <1>1, InsertedCaches DEF TrackedGrantsAreFresh, NoOutdatedGrant
<1>3. NoOutdatedGrant(indirectRelationCache', FALSE)
  BY <1>1, InsertedCaches DEF TrackedGrantsAreFresh, NoOutdatedGrant
<1>4. UNCHANGED <<log, applied>>
  BY InsertedCaches
<1>. QED
  BY <1>2, <1>3, <1>4 DEF TrackedGrantsAreFresh, NoOutdatedGrant, Outdates, Cached

LEMMA FreshStep ==
    ASSUME TypeOK, InFlight, TrackedGrantsAreFresh, [Next]_vars
    PROVE  TrackedGrantsAreFresh'
<1>1. ASSUME NEW q \in Requests, UpdatesRelations(q) PROVE TrackedGrantsAreFresh'
  <2>1. sweepRelations({ r.resource : r \in asked[q] }, { r.target : r \in asked[q] })
    BY <1>1 DEF UpdatesRelations, UpdateCacheWithRelations
  <2>2. applied' = applied \cup {change[q]} /\ UNCHANGED log
    BY <1>1 DEF UpdatesRelations
  <2>3. log[change[q]] = RelationChange(asked[q])
    BY <1>1 DEF UpdatesRelations, Goto, InFlight, WriteInFlight
  <2>4. \A i \in applied' \ applied :
            /\ ~ log[i].schemaChanged
            /\ log[i].resources \subseteq { r.resource : r \in asked[q] }
            /\ log[i].targets \subseteq { r.target : r \in asked[q] }
    BY <2>2, <2>3 DEF RelationChange
  <2>. QED  BY <2>1, <2>2, <2>4, FreshAfterSweep
<1>2. CASE PollReturnsChanges
  <2>. DEFINE R == UNION { c.resources : c \in Reported }
              T == UNION { c.targets : c \in Reported }
  <2>1. PICK now \in LocalNow : pollReturnsChanges(Reported, now)
    BY <1>2 DEF PollReturnsChanges
  <2>2. CASE \E c \in Reported : c.schemaChanged
    BY <2>1, <2>2, FreshAfterPurge
       DEF pollReturnsChanges, purgeAllCaches, purgeRelationCaches, Purged
  <2>3. CASE ~ \E c \in Reported : c.schemaChanged
    <3>1. /\ applied' = applied \cup (lastPollTime + 1 .. pollReply)
          /\ UNCHANGED log
      BY <1>2, <2>3 DEF PollReturnsChanges
    <3>2. \A i \in applied' \ applied : log[i] \in Reported
      BY <3>1 DEF Reported
    <3>3. CASE R = {} /\ T = {}
      <4>1. Reported = {}
        BY <1>2, <2>3, <3>3, ReportedChanges DEF PollReturnsChanges, TypeOK
      <4>2. UNCHANGED <<relationCaches, applied>>
        BY <2>1, <2>3, <3>1, <3>2, <3>3, <4>1 DEF pollReturnsChanges
      <4>. QED  BY <4>2, FreshWhenUnchanged
    <3>4. CASE ~ (R = {} /\ T = {})
      <4>1. sweepRelations(R, T)
        BY <2>1, <2>3, <3>4 DEF pollReturnsChanges
      <4>2. \A i \in applied' \ applied :
                /\ ~ log[i].schemaChanged
                /\ log[i].resources \subseteq R
                /\ log[i].targets \subseteq T
        BY <2>3, <3>2
      <4>. QED  BY <3>1, <4>1, <4>2, FreshAfterSweep
    <3>. QED  BY <3>3, <3>4
  <2>. QED  BY <2>2, <2>3
<1>3. ASSUME NEW q \in Requests, UpdatesSchema(q) PROVE TrackedGrantsAreFresh'
  BY <1>3, FreshAfterPurge
     DEF UpdatesSchema, UpdateCacheWithSchema, purgeRelationCaches, Purged
<1>4. CASE PollSkips
  <2>1. noRelations /\ UNCHANGED relationCaches
    BY <1>4 DEF PollSkips, pollSkipped
  <2>2. Cached(directRelationCache') = {} /\ Cached(indirectRelationCache') = {}
    BY <2>1 DEF noRelations, relationCaches
  <2>. QED  BY <2>2 DEF TrackedGrantsAreFresh, NoOutdatedGrant, Cached
<1>5. CASE PollReturnsTooManyModified
  BY <1>5, FreshAfterPurge
     DEF PollReturnsTooManyModified, pollReturnsTooManyModified, purgeAllCaches,
         purgeRelationCaches, Purged
<1>6. CASE PollReturnsError
  BY <1>6, FreshAfterPurge, FreshWhenUnchanged, PurgeCooldownAssumption
     DEF PollReturnsError, pollReturnsError, purgeAfterCooldown, purgeAllCaches,
         purgeRelationCaches, Purged
<1>7. ASSUME NEW id \in TimerIds, CooldownCallback(id) PROVE TrackedGrantsAreFresh'
  BY <1>7, FreshAfterPurge, FreshWhenUnchanged
     DEF CooldownCallback, cooldownCallback, purgeAllCaches, purgeRelationCaches, Purged
<1>8. \/ UNCHANGED <<relationCaches, applied>>
      \/ \E q \in Requests : InsertsChecks(q) \/ UpdatesRelations(q) \/ UpdatesSchema(q)
      \/ PollSkips
      \/ PollReturnsChanges
      \/ PollReturnsTooManyModified
      \/ PollReturnsError
      \/ \E id \in TimerIds : CooldownCallback(id)
  BY CacheSteps
     DEF cacheVars, relationCaches, InstallsSchema, EnsureSchemaLoaded, PollStarts,
         pollTick, TimerFires, timerFires
<1>. QED
  BY <1>1, <1>2, <1>3, <1>4, <1>5, <1>6, <1>7, <1>8, FreshWhenUnchanged, FreshAfterInsert

(***************************************************************************)
(* A change that was applied, by a local write, a poll or a purge, has     *)
(* taken with it every cached grant that it outdates; what can be outdated *)
(* is only a grant that a Check in flight inserted after that.             *)
(***************************************************************************)
THEOREM AppliedChangesAreEffective == Spec => []TrackedGrantsAreFresh
<1>1. Init => TrackedGrantsAreFresh
  BY DEF Init, TrackedGrantsAreFresh, NoOutdatedGrant
<1>2. TypeOK /\ InFlight /\ TrackedGrantsAreFresh /\ [Next]_vars => TrackedGrantsAreFresh'
  BY FreshStep
<1>. QED  BY <1>1, <1>2, BasicInvariant, PTL DEF Spec

-----------------------------------------------------------------------------
(* Certificates match the loaded schema.                                   *)

\* Only the result of a conditional check names conditions.
UnconditionalChecks ==
    \A q \in Requests, r \in Relations :
        checks[q][r] # NoGrant /\ ~ checks[q][r].conditional =>
            checks[q][r].grant.conds = {}

LEMMA UnconditionalChecksStep ==
    ASSUME TypeOK, UnconditionalChecks, [Next]_vars
    PROVE  UnconditionalChecks'
<1>1. CASE UNCHANGED checks
  BY <1>1 DEF UnconditionalChecks
<1>2. ASSUME NEW q \in Requests, BackendChecks(q) PROVE UnconditionalChecks'
  <2>1. PICK shapes \in [asked[q] -> Results] :
            checks' = [checks EXCEPT ![q] =
                          [r \in Relations |->
                              IF r \in asked[q] THEN ResultNow(r, shapes[r]) ELSE NoGrant]]
    BY <1>2 DEF BackendChecks
  <2>2. \A r \in Relations, s \in Results :
            ~ ResultNow(r, s).conditional => ResultNow(r, s).grant.conds = {}
    BY UnconditionalAssumption DEF ResultNow
  <2>3. \A r \in Relations : checks'[q][r] # NoGrant =>
            \E s \in Results : checks'[q][r] = ResultNow(r, s)
    BY <2>1 DEF TypeOK
  <2>4. \A p \in Requests : p # q => checks'[p] = checks[p]
    BY <2>1 DEF TypeOK
  <2>. QED  BY <2>2, <2>3, <2>4 DEF UnconditionalChecks
<1>3. ASSUME NEW q \in Requests, InsertsChecks(q) PROVE UnconditionalChecks'
  BY <1>3 DEF InsertsChecks, NoChecks, UnconditionalChecks, TypeOK
<1>4. \/ UNCHANGED checks
      \/ \E q \in Requests : BackendChecks(q) \/ InsertsChecks(q)
  BY DEF Next, vars, requestVars, RequestStep, CheckMisses, BackendFailsToCheck,
         LooksForSchema, BackendLoadsSchema, BackendFailsToLoadSchema, InstallsSchema,
         BackendWritesRelations, UpdatesRelations, BackendWritesSchema,
         UpdatesSchema, ChangeByOthers, PollSkips, PollStarts, PollCompletes,
         BackendAnswersPoll, PollReturnsChanges, PollReturnsTooManyModified,
         PollReturnsError, TimerFires, CooldownCallback
<1>. QED  BY <1>1, <1>2, <1>3, <1>4

\* The certificate of every grant in a cache can be re-evaluated with the loaded schema.
Certified(cache) ==
    \A k \in Cached(cache) :
        cache[k].conds # {} =>
            /\ cache[k].version = loadedSchemaVersion
            /\ cache[k].conds \subseteq compiledConditions

LEMMA BothCertified ==
    CertificatesMatchLoadedSchema
        <=> Certified(directRelationCache) /\ Certified(indirectRelationCache)
BY DEF CertificatesMatchLoadedSchema, Certified

\* Nothing is certified by the empty schema: a schema may come, but not go, alone.
LEMMA CertifiedWhenLoaded ==
    ASSUME NEW cache, Certified(cache), ~ SchemaIsLoaded
    PROVE  \A k \in Cached(cache) : cache[k].conds = {}
BY DEF Certified, SchemaIsLoaded, compiledConditions, CompiledFor, loadedSchemaVersion

LEMMA CertifiedAfterInsert ==
    ASSUME TypeOK, UnconditionalChecks, NEW q \in Requests, InsertsChecks(q),
           CertificatesMatchLoadedSchema
    PROVE  CertificatesMatchLoadedSchema'
<1>1. ASSUME NEW direct \in BOOLEAN, NEW new \in GrantsOf(Stamped(checks[q]), direct),
             NEW k \in Cached(new), new[k].conds # {}
      PROVE  /\ new[k].version = loadedSchemaVersion
             /\ new[k].conds \subseteq compiledConditions
  <2>1. PICK r \in Relations :
            /\ checks[q][r] # NoGrant
            /\ checks[q][r] \in CheckResult
            /\ IsCacheable(checks[q][r])
            /\ new[k] =
                   [checks[q][r].grant EXCEPT !.raced =
                       \E j \in applied : Outdates(j, direct, checks[q][r].grant)]
    BY InsertedGrants
  <2>2. /\ new[k].conds = checks[q][r].grant.conds
        /\ new[k].version = checks[q][r].grant.version
    BY <2>1 DEF CheckResult, Grant
  <2>3. checks[q][r].conditional
    BY <1>1, <2>1, <2>2 DEF UnconditionalChecks, CheckResult
  <2>. QED  BY <2>1, <2>2, <2>3 DEF IsCacheable
<1>2. UNCHANGED schemaCache
  BY InsertedCaches
<1>3. Certified(directRelationCache) /\ Certified(indirectRelationCache)
  BY BothCertified
<1>4. Certified(directRelationCache')
  <2>1. ASSUME NEW k \in Cached(directRelationCache'), directRelationCache'[k].conds # {}
        PROVE  /\ directRelationCache'[k].version = loadedSchemaVersion
               /\ directRelationCache'[k].conds \subseteq compiledConditions
    <3>1. CASE /\ k \in Cached(directRelationCache)
               /\ directRelationCache'[k] = directRelationCache[k]
      BY <1>3, <2>1, <3>1 DEF Certified
    <3>2. CASE \E new \in GrantsOf(Stamped(checks[q]), TRUE) :
                   k \in Cached(new) /\ directRelationCache'[k] = new[k]
      BY <1>1, <2>1, <3>2
    <3>. QED  BY <3>1, <3>2, InsertedCaches
  <2>. QED  BY <2>1 DEF Certified
<1>5. Certified(indirectRelationCache')
  <2>1. ASSUME NEW k \in Cached(indirectRelationCache'), indirectRelationCache'[k].conds # {}
        PROVE  /\ indirectRelationCache'[k].version = loadedSchemaVersion
               /\ indirectRelationCache'[k].conds \subseteq compiledConditions
    <3>1. CASE /\ k \in Cached(indirectRelationCache)
               /\ indirectRelationCache'[k] = indirectRelationCache[k]
      BY <1>3, <2>1, <3>1 DEF Certified
    <3>2. CASE \E new \in GrantsOf(Stamped(checks[q]), FALSE) :
                   k \in Cached(new) /\ indirectRelationCache'[k] = new[k]
      BY <1>1, <2>1, <3>2
    <3>. QED  BY <3>1, <3>2, InsertedCaches
  <2>. QED  BY <2>1 DEF Certified
<1>. QED
  BY <1>2, <1>4, <1>5
     DEF CertificatesMatchLoadedSchema, Certified, Cached, loadedSchemaVersion,
         compiledConditions, CompiledFor

LEMMA CertifiedStep ==
    ASSUME TypeOK, UnconditionalChecks, CertificatesMatchLoadedSchema, [Next]_vars
    PROVE  CertificatesMatchLoadedSchema'
<1>1. CASE UNCHANGED <<relationCaches, schemaCache>>
  BY <1>1
     DEF CertificatesMatchLoadedSchema, Cached, relationCaches, loadedSchemaVersion,
         compiledConditions, CompiledFor
<1>2. CASE Purged
  BY <1>2 DEF Purged, CertificatesMatchLoadedSchema, Cached, EmptyCache
<1>3. ASSUME NEW q \in Requests, InstallsSchema(q) PROVE CertificatesMatchLoadedSchema'
  <2>1. UNCHANGED relationCaches /\ (SchemaIsLoaded => UNCHANGED schemaCache)
    BY <1>3 DEF InstallsSchema, EnsureSchemaLoaded
  <2>2. CASE SchemaIsLoaded
    BY <1>1, <2>1, <2>2
  <2>3. CASE ~ SchemaIsLoaded
    BY <2>1, <2>3, BothCertified, CertifiedWhenLoaded
       DEF relationCaches, CertificatesMatchLoadedSchema, Cached
  <2>. QED  BY <2>2, <2>3
<1>4. ASSUME NEW R, NEW T, sweepRelations(R, T), UNCHANGED schemaCache
      PROVE  CertificatesMatchLoadedSchema'
  <2>1. Certified(directRelationCache') /\ Certified(indirectRelationCache')
    BY <1>4, BothCertified, SweepLeaves DEF sweepRelations, Certified, Cached, EmptyCache
  <2>. QED
    BY <1>4, <2>1
       DEF CertificatesMatchLoadedSchema, Certified, Cached, loadedSchemaVersion,
           compiledConditions, CompiledFor
<1>5. CASE PollSkips
  <2>1. noRelations /\ UNCHANGED relationCaches
    BY <1>5 DEF PollSkips, pollSkipped
  <2>2. Cached(directRelationCache') = {} /\ Cached(indirectRelationCache') = {}
    BY <2>1 DEF noRelations, relationCaches
  <2>. QED  BY <2>2 DEF CertificatesMatchLoadedSchema, Cached
<1>6. CASE PollReturnsChanges
  <2>1. PICK now \in LocalNow : pollReturnsChanges(Reported, now)
    BY <1>6 DEF PollReturnsChanges
  <2>2. \/ Purged
        \/ UNCHANGED <<relationCaches, schemaCache>>
        \/ \E R, T : sweepRelations(R, T) /\ UNCHANGED schemaCache
    BY <2>1 DEF pollReturnsChanges, purgeAllCaches, purgeRelationCaches, Purged
  <2>. QED  BY <1>1, <1>2, <1>4, <2>2
<1>7. \/ UNCHANGED <<relationCaches, schemaCache>>
      \/ Purged
      \/ \E q \in Requests : InstallsSchema(q) \/ InsertsChecks(q)
      \/ \E R, T : sweepRelations(R, T) /\ UNCHANGED schemaCache
      \/ PollSkips
      \/ PollReturnsChanges
  BY CacheSteps
     DEF cacheVars, relationCaches, Purged, purgeRelationCaches, purgeAllCaches,
         UpdatesRelations, UpdateCacheWithRelations,
         UpdatesSchema, UpdateCacheWithSchema, PollStarts, pollTick,
         PollReturnsTooManyModified, pollReturnsTooManyModified, PollReturnsError,
         pollReturnsError, purgeAfterCooldown, TimerFires, timerFires,
         CooldownCallback, cooldownCallback
<1>. QED  BY <1>1, <1>2, <1>3, <1>4, <1>5, <1>6, <1>7, CertifiedAfterInsert

(***************************************************************************)
(* A cached conditional grant is only re-evaluated with the conditions of  *)
(* the schema version that decided it, and all of them are compiled.       *)
(***************************************************************************)
THEOREM CertificatesAreValid == Spec => []CertificatesMatchLoadedSchema
<1>1. Init => UnconditionalChecks /\ CertificatesMatchLoadedSchema
  BY DEF Init, CacheInit, NoChecks, EmptyCache, Cached, UnconditionalChecks,
         CertificatesMatchLoadedSchema
<1>2. TypeOK /\ UnconditionalChecks /\ [Next]_vars => UnconditionalChecks'
  BY UnconditionalChecksStep
<1>3. TypeOK /\ UnconditionalChecks /\ CertificatesMatchLoadedSchema /\ [Next]_vars
          => CertificatesMatchLoadedSchema'
  BY CertifiedStep
<1>. QED  BY <1>1, <1>2, <1>3, BasicInvariant, PTL DEF Spec

-----------------------------------------------------------------------------
(* A schema change unloads the schema.                                     *)

LEMMA SchemaChangeStep ==
    ASSUME TypeOK, InFlight, [Next]_vars,
           NEW i \in applied' \ applied, log[i].schemaChanged
    PROVE  schemaCache' \in {NoSchema, Versionless}
<1>1. ASSUME NEW q \in Requests, UpdatesRelations(q) PROVE FALSE
  <2>1. i = change[q] /\ pc[q] = "relationsWritten"
    BY <1>1 DEF UpdatesRelations, Goto
  <2>2. log[i] = RelationChange(asked[q])
    BY <2>1 DEF InFlight, WriteInFlight
  <2>. QED  BY <2>2 DEF RelationChange
<1>2. CASE PollReturnsChanges
  <2>1. PICK now \in LocalNow : pollReturnsChanges(Reported, now)
    BY <1>2 DEF PollReturnsChanges
  <2>2. CASE \E c \in Reported : c.schemaChanged
    BY <2>1, <2>2 DEF pollReturnsChanges, purgeAllCaches
  <2>3. CASE ~ \E c \in Reported : c.schemaChanged
    <3>1. i \in lastPollTime + 1 .. pollReply
      BY <1>2, <2>3 DEF PollReturnsChanges
    <3>. QED  BY <2>3, <3>1 DEF Reported
  <2>. QED  BY <2>2, <2>3
<1>3. ASSUME NEW q \in Requests, UpdatesSchema(q) PROVE schemaCache' = Versionless
  BY <1>3 DEF UpdatesSchema, UpdateCacheWithSchema
<1>4. \/ \E q \in Requests : UpdatesRelations(q) \/ UpdatesSchema(q)
      \/ PollReturnsChanges
      \/ schemaCache' = NoSchema
  BY CacheSteps, PurgeCooldownAssumption
     DEF InstallsSchema, InsertsChecks, PollSkips, pollSkipped, PollStarts,
         PollReturnsTooManyModified, pollReturnsTooManyModified, PollReturnsError,
         pollReturnsError, purgeAfterCooldown, purgeAllCaches, TimerFires,
         CooldownCallback, cooldownCallback, CooldownElapsed
<1>. QED  BY <1>1, <1>2, <1>3, <1>4

(***************************************************************************)
(* Whichever way a schema change reaches the cache (a local write, a poll, *)
(* a skipped poll, a purge), the schema that was loaded before it is gone. *)
(***************************************************************************)
THEOREM NoOldSchemaStays == Spec => SchemaChangeUnloadsSchema
<1>1. TypeOK /\ InFlight /\ [Next]_vars =>
          [\A i \in applied' \ applied :
               log[i].schemaChanged => schemaCache' \in {NoSchema, Versionless}]_vars
  BY SchemaChangeStep
<1>. QED  BY <1>1, BasicInvariant, PTL DEF Spec, SchemaChangeUnloadsSchema

-----------------------------------------------------------------------------
(* The service implements CoherentCache.                                   *)

\* No answer of the backend is from the future.
AnswersArePast ==
    \A q \in Requests, r \in Relations :
        checks[q][r] # NoGrant => checks[q][r].grant.asOf <= Now

LEMMA AnswersArePastStep ==
    ASSUME TypeOK, AnswersArePast, [Next]_vars
    PROVE  AnswersArePast'
<1>. USE LogStep
<1>1. ASSUME NEW q \in Requests, NEW r \in Relations, checks[q][r] # NoGrant
      PROVE  checks[q][r].grant.asOf <= Now'
  <2>1. checks[q][r].grant.asOf \in Nat
    BY <1>1 DEF TypeOK, CheckResult, Grant
  <2>. QED  BY <1>1, <2>1 DEF AnswersArePast
<1>2. CASE UNCHANGED checks
  BY <1>1, <1>2 DEF AnswersArePast
<1>3. ASSUME NEW q \in Requests, BackendChecks(q) PROVE AnswersArePast'
  <2>1. PICK shapes \in [asked[q] -> Results] :
            checks' = [checks EXCEPT ![q] =
                          [r \in Relations |->
                              IF r \in asked[q] THEN ResultNow(r, shapes[r]) ELSE NoGrant]]
    BY <1>3 DEF BackendChecks
  <2>2. \A r \in Relations, s \in Results : ResultNow(r, s).grant.asOf = Now
    BY DEF ResultNow
  <2>3. \A r \in Relations : checks'[q][r] # NoGrant =>
            \E s \in Results : checks'[q][r] = ResultNow(r, s)
    BY <2>1 DEF TypeOK
  <2>4. \A p \in Requests : p # q => checks'[p] = checks[p]
    BY <2>1 DEF TypeOK
  <2>. QED  BY <1>1, <2>2, <2>3, <2>4 DEF AnswersArePast
<1>4. ASSUME NEW q \in Requests, InsertsChecks(q) PROVE AnswersArePast'
  <2>1. checks' = [checks EXCEPT ![q] = NoChecks]
    BY <1>4 DEF InsertsChecks
  <2>2. \A p \in Requests, r \in Relations :
            checks'[p][r] # NoGrant => checks'[p][r] = checks[p][r]
    BY <2>1 DEF NoChecks, TypeOK
  <2>. QED  BY <1>1, <2>2 DEF AnswersArePast
<1>5. \/ UNCHANGED checks
      \/ \E q \in Requests : BackendChecks(q) \/ InsertsChecks(q)
  BY DEF Next, vars, requestVars, RequestStep, CheckMisses, BackendFailsToCheck,
         LooksForSchema, BackendLoadsSchema, BackendFailsToLoadSchema, InstallsSchema,
         BackendWritesRelations, UpdatesRelations, BackendWritesSchema,
         UpdatesSchema, ChangeByOthers, PollSkips, PollStarts, PollCompletes,
         BackendAnswersPoll, PollReturnsChanges, PollReturnsTooManyModified,
         PollReturnsError, TimerFires, CooldownCallback
<1>. QED  BY <1>2, <1>3, <1>4, <1>5

\* The grants that the caches hold, after a purge and without a change.
LEMMA PurgedHoldsNothing == Purged => CachedGrants' = {}
BY DEF Purged, CachedGrants, GrantsHeld, Cached, EmptyCache

LEMMA UnchangedHoldsTheSame == UNCHANGED relationCaches => UNCHANGED CachedGrants
BY DEF relationCaches, CachedGrants, GrantsHeld, Cached

\* An empty cache acknowledges whatever has happened.
LEMMA EmptyCacheAcknowledges ==
    ASSUME CachedGrants' = {}, applied \subseteq applied', applied' \subseteq 1..Now,
           UNCHANGED log
    PROVE  Coherent!Acknowledges
BY DEF Coherent!Acknowledges, Now

\* A sweep forgets what the newly applied relation changes outdate.
LEMMA SweepAcknowledges ==
    ASSUME UNCHANGED log, applied \subseteq applied', applied' \subseteq 1..Now,
           NEW R, NEW T, sweepRelations(R, T),
           \A i \in applied' \ applied :
               /\ ~ log[i].schemaChanged
               /\ log[i].resources \subseteq R
               /\ log[i].targets \subseteq T
    PROVE  Coherent!Acknowledges
<1>1. GrantsHeld(indirectRelationCache, FALSE)' = {}
  BY DEF sweepRelations, GrantsHeld, Cached, EmptyCache
<1>2. \A k \in Cached(directRelationCache') :
          /\ k \in Cached(directRelationCache)
          /\ directRelationCache'[k] = directRelationCache[k]
          /\ ~ Concerns(R, T, directRelationCache'[k].of)
  BY SweepLeaves DEF sweepRelations
<1>3. \A g \in CachedGrants' :
          /\ g \in CachedGrants
          /\ g.direct
          /\ g.relation.resource \notin R /\ g.relation.target \notin T
  <2>1. CachedGrants' = GrantsHeld(directRelationCache', TRUE)
    BY <1>1 DEF CachedGrants, GrantsHeld, Cached
  <2>2. GrantsHeld(directRelationCache', TRUE) \subseteq GrantsHeld(directRelationCache, TRUE)
    BY <1>2 DEF GrantsHeld
  <2>3. \A g \in GrantsHeld(directRelationCache', TRUE) :
            g.direct /\ g.relation.resource \notin R /\ g.relation.target \notin T
    BY <1>2 DEF GrantsHeld, Concerns
  <2>. QED  BY <2>1, <2>2, <2>3 DEF CachedGrants
<1>4. \A i \in applied' \ applied, g \in CachedGrants' : ~ Coherent!Outdates(i, g)
  BY <1>3 DEF Coherent!Outdates
<1>. QED  BY <1>3, <1>4 DEF Coherent!Acknowledges, Now

\* The answers that a Check inserts are grants of the past.
LEMMA InsertLearns ==
    ASSUME TypeOK, AnswersArePast, NEW q \in Requests, InsertsChecks(q)
    PROVE  Coherent!Learns
<1>1. ASSUME NEW direct \in BOOLEAN, NEW new \in GrantsOf(Stamped(checks[q]), direct),
             NEW k \in Cached(new)
      PROVE  new[k].of \in Relations /\ new[k].asOf \in Nat /\ new[k].asOf <= Now
  <2>1. PICK r \in Relations :
            /\ checks[q][r] # NoGrant
            /\ checks[q][r] \in CheckResult
            /\ checks[q][r].grant.of = r
            /\ new[k] =
                   [checks[q][r].grant EXCEPT !.raced =
                       \E j \in applied : Outdates(j, direct, checks[q][r].grant)]
    BY InsertedGrants
  <2>2. /\ new[k].of = r
        /\ new[k].asOf = checks[q][r].grant.asOf
        /\ checks[q][r].grant.asOf \in Nat
    BY <2>1 DEF CheckResult, Grant
  <2>. QED  BY <2>1, <2>2 DEF AnswersArePast
<1>2. \A direct \in BOOLEAN : \A new \in GrantsOf(Stamped(checks[q]), direct) :
          \A k \in Cached(new) :
              LET g == [relation |-> new[k].of, direct |-> direct, asOf |-> new[k].asOf]
              IN  g \in Coherent!Grant /\ g.asOf <= Now
  BY <1>1 DEF Coherent!Grant
<1>3. ASSUME NEW g \in GrantsHeld(directRelationCache', TRUE)
                           \ GrantsHeld(directRelationCache, TRUE)
      PROVE  g \in Coherent!Grant /\ g.asOf <= Now
  <2>1. PICK k \in Cached(directRelationCache') :
            g = [relation |-> directRelationCache'[k].of, direct |-> TRUE,
                 asOf |-> directRelationCache'[k].asOf]
    BY DEF GrantsHeld
  <2>2. ~ (k \in Cached(directRelationCache) /\ directRelationCache'[k] = directRelationCache[k])
    BY <2>1 DEF GrantsHeld
  <2>3. PICK new \in GrantsOf(Stamped(checks[q]), TRUE) :
            k \in Cached(new) /\ directRelationCache'[k] = new[k]
    BY <2>2, InsertedCaches
  <2>. QED  BY <1>2, <2>1, <2>3
<1>4. ASSUME NEW g \in GrantsHeld(indirectRelationCache', FALSE)
                           \ GrantsHeld(indirectRelationCache, FALSE)
      PROVE  g \in Coherent!Grant /\ g.asOf <= Now
  <2>1. PICK k \in Cached(indirectRelationCache') :
            g = [relation |-> indirectRelationCache'[k].of, direct |-> FALSE,
                 asOf |-> indirectRelationCache'[k].asOf]
    BY DEF GrantsHeld
  <2>2. ~ (k \in Cached(indirectRelationCache) /\ indirectRelationCache'[k] = indirectRelationCache[k])
    BY <2>1 DEF GrantsHeld
  <2>3. PICK new \in GrantsOf(Stamped(checks[q]), FALSE) :
            k \in Cached(new) /\ indirectRelationCache'[k] = new[k]
    BY <2>2, InsertedCaches
  <2>. QED  BY <1>2, <2>1, <2>3
<1>5. CachedGrants' =
          GrantsHeld(directRelationCache', TRUE) \cup GrantsHeld(indirectRelationCache', FALSE)
  BY DEF CachedGrants, GrantsHeld, Cached
<1>6. UNCHANGED <<log, applied>>
  BY InsertedCaches
<1>. QED  BY <1>3, <1>4, <1>5, <1>6 DEF Coherent!Learns, CachedGrants, Now

LEMMA CoherentStep ==
    ASSUME TypeOK, TypeOK', InFlight, AnswersArePast, [Next]_vars
    PROVE  [Coherent!Next]_<<log, applied, CachedGrants>>
<1>. USE DEF Coherent!Next
<1>1. CASE log' # log
  <2>1. /\ \E c \in Change : log' = Append(log, c)
        /\ UNCHANGED <<cacheVars, applied>>
    BY <1>1, ChangeTypes, BatchesAssumption
       DEF Next, vars, RequestStep, CheckMisses, BackendChecks, BackendFailsToCheck,
           LooksForSchema, BackendLoadsSchema, BackendFailsToLoadSchema, InstallsSchema,
           InsertsChecks, BackendWritesRelations, UpdatesRelations, BackendWritesSchema,
           UpdatesSchema, ChangeByOthers, PollSkips, PollStarts, PollCompletes,
           BackendAnswersPoll, PollReturnsChanges, PollReturnsTooManyModified,
           PollReturnsError, TimerFires, CooldownCallback
  <2>2. UNCHANGED CachedGrants
    BY <2>1, UnchangedHoldsTheSame DEF cacheVars, relationCaches
  <2>3. Coherent!Happens
    BY <2>1, <2>2
       DEF Coherent!Happens, Coherent!Change, Change,
           Coherent!Resources, Coherent!Targets, Resources, Targets
  <2>. QED  BY <2>3
<1>. SUFFICES ASSUME UNCHANGED log PROVE [Coherent!Next]_<<log, applied, CachedGrants>>
  BY <1>1
<1>2. applied' \subseteq 1..Now /\ applied \subseteq 1..Now
  BY DEF TypeOK, Now
<1>3. ASSUME CachedGrants' = {}, applied \subseteq applied' PROVE Coherent!Acknowledges
  BY <1>2, <1>3, EmptyCacheAcknowledges
<1>4. ASSUME Purged, applied' \in {1..Now, applied} PROVE Coherent!Acknowledges
  BY <1>2, <1>3, <1>4, PurgedHoldsNothing
<1>5. CASE UNCHANGED <<relationCaches, applied>>
  BY <1>5, UnchangedHoldsTheSame
<1>6. ASSUME NEW q \in Requests, UpdatesRelations(q) PROVE Coherent!Acknowledges
  <2>1. sweepRelations({ r.resource : r \in asked[q] }, { r.target : r \in asked[q] })
    BY <1>6 DEF UpdatesRelations, UpdateCacheWithRelations
  <2>2. applied' = applied \cup {change[q]}
    BY <1>6 DEF UpdatesRelations
  <2>3. log[change[q]] = RelationChange(asked[q])
    BY <1>6 DEF UpdatesRelations, Goto, InFlight, WriteInFlight
  <2>4. \A i \in applied' \ applied :
            /\ ~ log[i].schemaChanged
            /\ log[i].resources \subseteq { r.resource : r \in asked[q] }
            /\ log[i].targets \subseteq { r.target : r \in asked[q] }
    BY <2>2, <2>3 DEF RelationChange
  <2>. QED  BY <1>2, <2>1, <2>2, <2>4, SweepAcknowledges
<1>7. ASSUME NEW q \in Requests, UpdatesSchema(q) PROVE Coherent!Acknowledges
  BY <1>3, <1>7, PurgedHoldsNothing
     DEF UpdatesSchema, UpdateCacheWithSchema, purgeRelationCaches, Purged
<1>8. ASSUME PollSkips PROVE Coherent!Acknowledges
  <2>1. noRelations /\ UNCHANGED relationCaches /\ applied' = 1..Now
    BY <1>8 DEF PollSkips, pollSkipped
  <2>2. CachedGrants' = {}
    BY <2>1 DEF noRelations, relationCaches, CachedGrants, GrantsHeld, Cached
  <2>. QED  BY <1>2, <1>3, <2>1, <2>2
<1>9. ASSUME PollReturnsChanges PROVE [Coherent!Next]_<<log, applied, CachedGrants>>
  <2>. DEFINE R == UNION { c.resources : c \in Reported }
              T == UNION { c.targets : c \in Reported }
  <2>1. PICK now \in LocalNow : pollReturnsChanges(Reported, now)
    BY <1>9 DEF PollReturnsChanges
  <2>2. CASE \E c \in Reported : c.schemaChanged
    BY <1>4, <1>9, <2>1, <2>2
       DEF PollReturnsChanges, pollReturnsChanges, purgeAllCaches, purgeRelationCaches, Purged
  <2>3. CASE ~ \E c \in Reported : c.schemaChanged
    <3>1. applied' = applied \cup (lastPollTime + 1 .. pollReply)
      BY <1>9, <2>3 DEF PollReturnsChanges
    <3>2. \A i \in applied' \ applied : log[i] \in Reported
      BY <3>1 DEF Reported
    <3>3. CASE R = {} /\ T = {}
      <4>1. Reported = {}
        BY <1>9, <2>3, <3>3, ReportedChanges DEF PollReturnsChanges, TypeOK
      <4>2. UNCHANGED <<relationCaches, applied>>
        BY <2>1, <2>3, <3>1, <3>2, <3>3, <4>1 DEF pollReturnsChanges
      <4>. QED  BY <1>5, <4>2
    <3>4. CASE ~ (R = {} /\ T = {})
      <4>1. sweepRelations(R, T)
        BY <2>1, <2>3, <3>4 DEF pollReturnsChanges
      <4>2. \A i \in applied' \ applied :
                /\ ~ log[i].schemaChanged
                /\ log[i].resources \subseteq R
                /\ log[i].targets \subseteq T
        BY <2>3, <3>2
      <4>. QED  BY <1>2, <3>1, <4>1, <4>2, SweepAcknowledges
    <3>. QED  BY <3>3, <3>4
  <2>. QED  BY <2>2, <2>3
<1>10. ASSUME PollReturnsTooManyModified PROVE Coherent!Acknowledges
  BY <1>4, <1>10
     DEF PollReturnsTooManyModified, pollReturnsTooManyModified, purgeAllCaches,
         purgeRelationCaches, Purged
<1>11. ASSUME PollReturnsError PROVE [Coherent!Next]_<<log, applied, CachedGrants>>
  BY <1>4, <1>5, <1>11, PurgeCooldownAssumption
     DEF PollReturnsError, pollReturnsError, purgeAfterCooldown, purgeAllCaches,
         purgeRelationCaches, Purged
<1>12. ASSUME NEW id \in TimerIds, CooldownCallback(id)
       PROVE  [Coherent!Next]_<<log, applied, CachedGrants>>
  BY <1>4, <1>5, <1>12
     DEF CooldownCallback, cooldownCallback, purgeAllCaches, purgeRelationCaches, Purged
<1>13. \/ UNCHANGED <<relationCaches, applied>>
       \/ \E q \in Requests : InsertsChecks(q) \/ UpdatesRelations(q) \/ UpdatesSchema(q)
       \/ PollSkips
       \/ PollReturnsChanges
       \/ PollReturnsTooManyModified
       \/ PollReturnsError
       \/ \E id \in TimerIds : CooldownCallback(id)
  BY CacheSteps
     DEF cacheVars, relationCaches, InstallsSchema, EnsureSchemaLoaded, PollStarts,
         pollTick, TimerFires, timerFires
<1>. QED
  BY <1>5, <1>6, <1>7, <1>8, <1>9, <1>10, <1>11, <1>12, <1>13, InsertLearns

(***************************************************************************)
(* The service implements CoherentCache: every step of it learns grants of *)
(* the past, or acknowledges changes and forgets what they outdate, or is  *)
(* a change of the backend, or leaves the grants alone.                    *)
(***************************************************************************)
THEOREM ImplementsCoherentCache == Spec => CoherentSpec
<1>1. Init => Coherent!Init /\ AnswersArePast
  <2>. SUFFICES ASSUME Init PROVE Coherent!Init /\ AnswersArePast
    OBVIOUS
  <2>1. Coherent!Init
    BY DEF Init, CacheInit, Coherent!Init, CachedGrants, GrantsHeld, Cached, EmptyCache
  <2>2. AnswersArePast
    BY DEF Init, NoChecks, AnswersArePast
  <2>. QED  BY <2>1, <2>2
<1>2. TypeOK /\ AnswersArePast /\ [Next]_vars => AnswersArePast'
  BY AnswersArePastStep
<1>3. TypeOK /\ TypeOK' /\ InFlight /\ AnswersArePast /\ [Next]_vars
          => [Coherent!Next]_<<log, applied, CachedGrants>>
  BY CoherentStep
<1>. QED  BY <1>1, <1>2, <1>3, BasicInvariant, PTL DEF Spec, CoherentSpec, Coherent!Spec

-----------------------------------------------------------------------------
(* The direct cache of the service is a SweptStore.                        *)

\* The entries of a cache, in any state.
EntryIn(cache, k) ==
    [key |-> k, resource |-> cache[k].of.resource, target |-> cache[k].of.target]

EntriesIn(cache) == { EntryIn(cache, k) : k \in Cached(cache) }

LEMMA EntriesBeforeAndAfter ==
    /\ DirectEntries = EntriesIn(directRelationCache)
    /\ DirectEntries' = EntriesIn(directRelationCache')
BY DEF DirectEntries, DirectEntry, EntriesIn, EntryIn, Cached

\* An entry has a key that the cache holds, and there is one for each.
LEMMA EntriesOfKeys ==
    ASSUME NEW cache
    PROVE  /\ \A k : EntryIn(cache, k).key = k
           /\ \A e \in EntriesIn(cache) : e.key \in Cached(cache) /\ e = EntryIn(cache, e.key)
           /\ \A k \in Cached(cache) : EntryIn(cache, k) \in EntriesIn(cache)
           /\ DirectStore!KeysOf(EntriesIn(cache)) = Cached(cache)
<1>1. \A k : EntryIn(cache, k).key = k
  BY DEF EntryIn
<1>2. \A e \in EntriesIn(cache) : e.key \in Cached(cache) /\ e = EntryIn(cache, e.key)
  BY <1>1 DEF EntriesIn
<1>3. \A k \in Cached(cache) : EntryIn(cache, k) \in EntriesIn(cache)
  BY DEF EntriesIn
<1>. QED  BY <1>1, <1>2, <1>3 DEF DirectStore!KeysOf

\* The store's keys and cardinalities are those of the service.
LEMMA StoreOperators ==
    /\ \A r : DirectStore!key(r) = key(r)
    /\ \A S : DirectStore!Cardinality(S) = Cardinality(S)
BY DEF DirectStore!key, key, DirectStore!Cardinality, Cardinality

\* Which keys an LRU cache holds after the additions, and what it holds for them.
LEMMA LRUAddKeeps ==
    ASSUME NEW cache \in [Keys -> Entries], NEW new \in [Keys -> Entries],
           NEW size, NEW after \in LRUAdd(cache, size, new)
    PROVE  /\ \/ /\ Cached(after) = Cached(cache) \cup Cached(new)
                 /\ Cardinality(Cached(after)) <= size
              \/ Cardinality(Cached(after)) = size
           /\ Cached(new) \subseteq Cached(after) \/ Cached(after) \subseteq Cached(new)
           /\ \A k \in Cached(after) :
                  \/ k \in Cached(new) /\ after[k] = new[k]
                  \/ k \in Cached(cache) \ Cached(new) /\ after[k] = cache[k]
<1>. DEFINE all == Cached(cache) \cup Cached(new)
<1>1. PICK kept \in SUBSET all :
          /\ \/ Cardinality(kept) = size
             \/ kept = all /\ Cardinality(all) <= size
          /\ Cached(new) \subseteq kept \/ kept \subseteq Cached(new)
          /\ after = [k \in Keys |->
                         IF k \in kept
                         THEN IF new[k] # NoGrant THEN new[k] ELSE cache[k]
                         ELSE NoGrant]
  BY DEF LRUAdd
<1>2. \A k \in Keys : after[k] =
          IF k \in kept THEN IF new[k] # NoGrant THEN new[k] ELSE cache[k] ELSE NoGrant
  BY <1>1
<1>3. kept \subseteq Keys
  BY DEF Cached
<1>4. Cached(after) = kept
  BY <1>2, <1>3 DEF Cached
<1>5. \A k \in kept : \/ k \in Cached(new) /\ after[k] = new[k]
                      \/ k \in Cached(cache) \ Cached(new) /\ after[k] = cache[k]
  BY <1>2, <1>3 DEF Cached
<1>. QED  BY <1>1, <1>4, <1>5

\* A sweep of the cache object is a sweep of the store.
LEMMA SweepIsSweep ==
    ASSUME CacheTypeOK, NEW R, NEW T, sweepRelations(R, T)
    PROVE  DirectStore!Next
<1>. DEFINE places == R \cap DirectStore!Resources
            others == T \cap DirectStore!Targets
            before == directRelationCache
            after == directRelationCache'
<1>1. \A k \in Cached(before) :
          before[k].of \in Relations /\ key(before[k].of) = k
  BY DEF CacheTypeOK, HoldsGrants, Cached, Grant
<1>2. \A r \in Relations :
          Concerns(R, T, r) <=> r.resource \in places \/ r.target \in others
  BY DEF Concerns, DirectStore!Resources, DirectStore!Targets
<1>3. PICK gone \in SUBSET Cached(before) :
          /\ \A k \in gone : \E r \in Relations : key(r) = k /\ Concerns(R, T, r)
          /\ \A k \in Cached(before) : Concerns(R, T, before[k].of) => k \in gone
          /\ after = [k \in Keys |-> IF k \in gone THEN NoGrant ELSE before[k]]
  BY DEF sweepRelations, SweptCaches
<1>4. Cached(after) = Cached(before) \ gone
  BY <1>3 DEF Cached
<1>5. \A k \in Cached(after) : after[k] = before[k]
  BY <1>3 DEF Cached
<1>. DEFINE swept == { EntryIn(before, k) : k \in gone }
<1>6. EntriesIn(after) = EntriesIn(before) \ swept
  <2>1. \A k \in Cached(after) : EntryIn(after, k) = EntryIn(before, k)
    BY <1>5 DEF EntryIn
  <2>2. \A k : EntryIn(before, k).key = k
    BY EntriesOfKeys
  <2>. HIDE DEF before, after
  <2>. QED  BY <1>4, <2>1, <2>2 DEF EntriesIn
<1>7. swept \in SUBSET DirectStore!Reached(places, others)
  <2>. SUFFICES ASSUME NEW k \in gone
                PROVE  EntryIn(before, k) \in DirectStore!Reached(places, others)
    OBVIOUS
  <2>1. EntryIn(before, k) \in DirectEntries /\ EntryIn(before, k).key = k
    BY EntriesOfKeys, EntriesBeforeAndAfter
  <2>2. \E r \in Relations : k = DirectStore!key(r)
                             /\ (r.resource \in places \/ r.target \in others)
    BY <1>2, <1>3, StoreOperators
  <2>. HIDE DEF places, others, before
  <2>. QED  BY <2>1, <2>2 DEF DirectStore!Reached, DirectStore!Concerns
<1>8. DirectStore!Swept(places, others) \subseteq swept
  <2>. SUFFICES ASSUME NEW e \in DirectEntries, e.resource \in places \/ e.target \in others
                PROVE  e \in swept
    BY DEF DirectStore!Swept, DirectStore!Concerns
  <2>1. e.key \in Cached(before) /\ e = EntryIn(before, e.key)
    BY EntriesOfKeys, EntriesBeforeAndAfter
  <2>2. e.resource = before[e.key].of.resource /\ e.target = before[e.key].of.target
    BY <2>1 DEF EntryIn
  <2>. QED  BY <1>1, <1>2, <1>3, <2>1, <2>2
<1>. HIDE DEF places, others, before, after, swept
<1>9. DirectStore!Sweep(places, others)
  BY <1>6, <1>7, <1>8, EntriesBeforeAndAfter DEF DirectStore!Sweep, before, after
<1>. QED  BY <1>9 DEF DirectStore!Next, places, others

LEMMA InsertedTuples ==
    ASSUME TypeOK, NEW q \in Requests, NEW direct \in BOOLEAN,
           NEW new \in GrantsOf(Stamped(checks[q]), direct)
    PROVE  \A k \in Cached(new) : new[k].of \in Relations /\ key(new[k].of) = k
<1>. SUFFICES ASSUME NEW k \in Cached(new)
              PROVE  new[k].of \in Relations /\ key(new[k].of) = k
  OBVIOUS
<1>1. PICK r \in Relations :
          /\ key(r) = k
          /\ checks[q][r] \in CheckResult
          /\ checks[q][r].grant.of = r
          /\ new[k] =
                 [checks[q][r].grant EXCEPT !.raced =
                     \E i \in applied : Outdates(i, direct, checks[q][r].grant)]
  BY InsertedGrants
<1>. QED  BY <1>1 DEF CheckResult, Grant

\* The insertion of the results of a Check stores the tuples of some of them.
LEMMA InsertIsPut ==
    ASSUME TypeOK, NEW q \in Requests, InsertsChecks(q)
    PROVE  DirectStore!Next
<1>. DEFINE before == directRelationCache
            after == directRelationCache'
<1>1. Stamped(checks[q]) \in [Relations -> CheckResult \cup {NoGrant}]
  <2>1. checks[q] \in [Relations -> CheckResult \cup {NoGrant}]
    BY DEF TypeOK
  <2>. QED  BY <2>1, StampedResults
<1>2. PICK new \in GrantsOf(Stamped(checks[q]), TRUE) :
          after \in LRUAdd(before, DirectCacheSize, new)
  BY DEF InsertsChecks, UpdateCacheWithChecks
<1>3. before \in [Keys -> Entries] /\ new \in [Keys -> Entries]
  BY <1>1, AddedGrants, CachesAreFunctions DEF TypeOK, CacheTypeOK
<1>4. \A k \in Cached(new) : new[k].of \in Relations /\ key(new[k].of) = k
  BY InsertedTuples
<1>. DEFINE rels == { new[k].of : k \in Cached(new) }
            added == { DirectStore!key(r) : r \in rels }
            all == DirectStore!KeysOf(DirectEntries) \cup added
            kept == DirectStore!KeysOf(DirectEntries')
<1>5. rels \in SUBSET Relations
  BY <1>4
<1>6. added = Cached(new)
  BY <1>4, StoreOperators
<1>7. all = Cached(before) \cup Cached(new) /\ kept = Cached(after)
  BY <1>6, EntriesBeforeAndAfter, EntriesOfKeys
<1>8. /\ \/ /\ Cached(after) = Cached(before) \cup Cached(new)
            /\ Cardinality(Cached(after)) <= DirectCacheSize
         \/ Cardinality(Cached(after)) = DirectCacheSize
      /\ Cached(new) \subseteq Cached(after) \/ Cached(after) \subseteq Cached(new)
      /\ \A k \in Cached(after) :
             \/ k \in Cached(new) /\ after[k] = new[k]
             \/ k \in Cached(before) \ Cached(new) /\ after[k] = before[k]
  BY <1>2, <1>3, LRUAddKeeps
<1>9. ASSUME NEW e \in DirectEntries'
      PROVE  \/ e \in DirectEntries /\ e.key \notin added
             \/ \E r \in rels : e = DirectStore!Entry(r)
  <2>1. e.key \in Cached(after) /\ e = EntryIn(after, e.key)
    BY EntriesBeforeAndAfter, EntriesOfKeys
  <2>2. CASE e.key \in Cached(new) /\ after[e.key] = new[e.key]
    <3>1. new[e.key].of \in rels /\ key(new[e.key].of) = e.key
      BY <1>4, <2>2
    <3>2. e = DirectStore!Entry(new[e.key].of)
      BY <2>1, <2>2, <3>1, StoreOperators DEF EntryIn, DirectStore!Entry
    <3>. QED  BY <3>1, <3>2
  <2>3. CASE e.key \in Cached(before) \ Cached(new) /\ after[e.key] = before[e.key]
    <3>1. e = EntryIn(before, e.key)
      BY <2>1, <2>3 DEF EntryIn
    <3>. QED  BY <1>6, <2>3, <3>1, EntriesBeforeAndAfter, EntriesOfKeys
  <2>. QED  BY <1>8, <2>1, <2>2, <2>3
<1>10. \A e, f \in DirectEntries' : e.key = f.key => e = f
  BY EntriesBeforeAndAfter, EntriesOfKeys
<1>11. /\ \/ kept = all /\ DirectStore!Cardinality(all) <= DirectCacheSize
          \/ DirectStore!Cardinality(kept) = DirectCacheSize
       /\ added \subseteq kept \/ kept \subseteq added
  BY <1>6, <1>7, <1>8, StoreOperators
<1>. HIDE DEF before, after, rels, added, all, kept
<1>12. DirectStore!Put(rels)
  BY <1>9, <1>10, <1>11 DEF DirectStore!Put, added, all, kept
<1>. QED  BY <1>5, <1>12 DEF DirectStore!Next

LEMMA DirectStoreStep ==
    ASSUME TypeOK, [Next]_vars
    PROVE  [DirectStore!Next]_DirectEntries
<1>1. ASSUME UNCHANGED directRelationCache PROVE UNCHANGED DirectEntries
  BY <1>1, EntriesBeforeAndAfter
<1>2. ASSUME directRelationCache' = EmptyCache PROVE DirectStore!Next
  <2>1. DirectEntries' = {}
    BY <1>2, EntriesBeforeAndAfter DEF EntriesIn, Cached, EmptyCache
  <2>. QED  BY <2>1 DEF DirectStore!Next, DirectStore!Clear
<1>3. ASSUME NEW q \in Requests, UpdatesRelations(q) PROVE DirectStore!Next
  <2>1. sweepRelations({ r.resource : r \in asked[q] }, { r.target : r \in asked[q] })
    BY <1>3 DEF UpdatesRelations, UpdateCacheWithRelations
  <2>. QED  BY <2>1, SweepIsSweep DEF TypeOK
<1>4. ASSUME PollReturnsChanges
      PROVE  DirectStore!Next \/ UNCHANGED directRelationCache
  <2>. DEFINE R == UNION { c.resources : c \in Reported }
              T == UNION { c.targets : c \in Reported }
  <2>1. \/ directRelationCache' = EmptyCache
        \/ UNCHANGED directRelationCache
        \/ sweepRelations(R, T)
    BY <1>4
       DEF PollReturnsChanges, pollReturnsChanges, purgeAllCaches, purgeRelationCaches,
           relationCaches
  <2>. QED  BY <1>2, <2>1, SweepIsSweep DEF TypeOK
<1>5. \/ UNCHANGED directRelationCache
      \/ directRelationCache' = EmptyCache
      \/ \E q \in Requests : InsertsChecks(q) \/ UpdatesRelations(q)
      \/ PollReturnsChanges
  <2>1. ASSUME NEW q \in Requests, UpdatesSchema(q) PROVE directRelationCache' = EmptyCache
    BY <2>1 DEF UpdatesSchema, UpdateCacheWithSchema, purgeRelationCaches
  <2>2. ASSUME NEW q \in Requests, InstallsSchema(q) PROVE UNCHANGED directRelationCache
    BY <2>2 DEF InstallsSchema, EnsureSchemaLoaded, relationCaches
  <2>3. ASSUME PollSkips \/ PollStarts PROVE UNCHANGED directRelationCache
    BY <2>3 DEF PollSkips, PollStarts, pollSkipped, pollTick, relationCaches
  <2>4. ASSUME PollReturnsTooManyModified PROVE directRelationCache' = EmptyCache
    BY <2>4
       DEF PollReturnsTooManyModified, pollReturnsTooManyModified, purgeAllCaches,
           purgeRelationCaches
  <2>5. ASSUME PollReturnsError
        PROVE  directRelationCache' = EmptyCache \/ UNCHANGED directRelationCache
    BY <2>5
       DEF PollReturnsError, pollReturnsError, purgeAfterCooldown, purgeAllCaches,
           purgeRelationCaches, relationCaches
  <2>6. ASSUME NEW id \in TimerIds, TimerFires(id) \/ CooldownCallback(id)
        PROVE  directRelationCache' = EmptyCache \/ UNCHANGED directRelationCache
    BY <2>6
       DEF TimerFires, timerFires, CooldownCallback, cooldownCallback, purgeAllCaches,
           purgeRelationCaches, relationCaches, cacheVars
  <2>7. UNCHANGED cacheVars => UNCHANGED directRelationCache
    BY DEF cacheVars
  <2>. QED  BY <2>1, <2>2, <2>3, <2>4, <2>5, <2>6, <2>7, CacheSteps
<1>. QED  BY <1>1, <1>2, <1>3, <1>4, <1>5, InsertIsPut

(***************************************************************************)
(* The service uses its direct cache as the SweptStore that                *)
(* DirectRelationCache implements: whatever requests, polls and timers do, *)
(* a step stores the tuples of an answer and evicts only what does not     *)
(* fit, or sweeps the resources and targets of a change, or clears.        *)
(***************************************************************************)
THEOREM DirectCacheIsSweptStore == Spec => DirectStoreSpec
<1>1. Init => DirectStore!Init
  BY EntriesBeforeAndAfter
     DEF Init, CacheInit, DirectStore!Init, EntriesIn, Cached, EmptyCache
<1>2. TypeOK /\ [Next]_vars => [DirectStore!Next]_DirectEntries
  BY DirectStoreStep
<1>. QED  BY <1>1, <1>2, TypeCorrect, PTL DEF Spec, DirectStoreSpec, DirectStore!Spec

=============================================================================
