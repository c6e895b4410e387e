-------------------------- MODULE AuthzCacheService --------------------------
(***************************************************************************)
(* The service around one project's cache (internal/services/authz.go):    *)
(* concurrent requests, the poller and the cooldown timer, all of them     *)
(* talking to the same cache object and to a backend that other clients    *)
(* change as well.                                                         *)
(*                                                                         *)
(* The backend is external.  It is the log of the changes it has applied;  *)
(* GetModified reports the changes after a given time, a check is          *)
(* evaluated at one time, and LoadSchema returns the current schema.  A    *)
(* request talks to the backend and to the cache in steps of their own,    *)
(* between which everything else may happen.                               *)
(*                                                                         *)
(* A direct result depends on the schema and on the relations of its own   *)
(* resource and target, an indirect one on any relation.                   *)
(***************************************************************************)
EXTENDS ProjectAuthzCache, Sequences

CONSTANTS
    Requests,       \* the requests in flight at one time
    Batches,        \* the sets of relations that a request is about
    Results,        \* the shapes of check results that the backend returns
    OthersChanges,  \* the changes that other clients make in the backend
    MaxChanges,     \* bound of the model: backend changes in a behaviour
    ClockLags,      \* how far, in changes, the cache's clock may lag behind
    NoReply         \* GetModified has not been answered yet

\* A change of the schema, of relations, or of both.
Change == { c \in [resources : SUBSET Resources, targets : SUBSET Targets,
                   schemaChanged : BOOLEAN] :
                c.schemaChanged \/ c.resources # {} \/ c.targets # {} }

ASSUME BatchesAssumption == Batches \subseteq (SUBSET Relations) \ {{}}
ASSUME ResultsAssumption ==
    Results \subseteq [direct : BOOLEAN, conditional : BOOLEAN,
                       factUsed : BOOLEAN, missing : BOOLEAN,
                       conds : SUBSET Conditions]
ASSUME UnconditionalAssumption ==
    \A s \in Results : ~ s.conditional => s.conds = {}
ASSUME OthersChangesAssumption == OthersChanges \subseteq Change
ASSUME BoundsAssumption == MaxChanges \in Nat /\ ClockLags \subseteq Nat
ASSUME NoReplyAssumption == NoReply \notin Nat

VARIABLES
    log,        \* the changes the backend has applied, in order
    applied,    \* the positions of the changes that the cache has taken into account
    pollReply,  \* the time at which the backend answered the poll, or NoReply
    pc,         \* where each request is
    asked,      \* the relations a request sent to the backend
    checks,     \* relation -> the result it received, or NoGrant
    change,     \* the position of the change it made
    version     \* the version of the schema it loaded

requestVars == <<pc, asked, checks, change, version>>
vars == <<cacheVars, log, applied, pollReply, requestVars>>

RelationChange(rels) ==
    [resources |-> { r.resource : r \in rels },
     targets |-> { r.target : r \in rels },
     schemaChanged |-> FALSE]

SchemaChange == [resources |-> {}, targets |-> {}, schemaChanged |-> TRUE]

Now == Len(log)

\* time.Now() of the host of the cache.
LocalNow == { n \in 0..Now : Now - n \in ClockLags }

\* The version of the schema at time n.
VersionAt(n) == 1 + Cardinality({ i \in 1..n : log[i].schemaChanged })

PCs == {"idle", "asked", "answered", "loading", "loaded", "checked",
        "relationsWritten", "schemaWritten"}

NoChecks == [r \in Relations |-> NoGrant]

TypeOK ==
    /\ CacheTypeOK
    /\ log \in Seq(Change)
    /\ applied \in SUBSET (1..Now)
    /\ lastPollTime \in 0..Now
    /\ pollTime \in 0..Now \cup {Unlocked}
    /\ pollReply \in 0..Now \cup {NoReply}
    /\ pc \in [Requests -> PCs]
    /\ asked \in [Requests -> SUBSET Relations]
    /\ checks \in [Requests -> [Relations -> CheckResult \cup {NoGrant}]]
    /\ \A q \in Requests, r \in Relations :
           checks[q][r] # NoGrant => checks[q][r].grant.of = r
    /\ change \in [Requests -> 0..Now]
    /\ version \in [Requests -> Nat]

Init ==
    /\ CacheInit
    /\ log = <<>>
    /\ applied = {}
    /\ pollReply = NoReply
    /\ pc = [q \in Requests |-> "idle"]
    /\ asked = [q \in Requests |-> {}]
    /\ checks = [q \in Requests |-> NoChecks]
    /\ change = [q \in Requests |-> 0]
    /\ version = [q \in Requests |-> 0]

Goto(q, from, to) ==
    /\ pc[q] = from
    /\ pc' = [pc EXCEPT ![q] = to]

-----------------------------------------------------------------------------
(* Check                                                                   *)

(***************************************************************************)
(* Some relations are not answered from the cache and go to the backend.   *)
(* (A Check that hits with all its relations changes no state.)            *)
(***************************************************************************)
CheckMisses(q, rels) ==
    /\ Goto(q, "idle", "asked")
    /\ MutexFree
    /\ \E u \in Unchecked(rels) \ {{}} : asked' = [asked EXCEPT ![q] = u]
    /\ UNCHANGED <<cacheVars, log, applied, pollReply, checks, change, version>>

\* A result of the given shape for r, evaluated now.
ResultNow(r, s) ==
    [direct |-> s.direct, conditional |-> s.conditional,
     factUsed |-> s.factUsed, missing |-> s.missing,
     grant |-> [of |-> r, conds |-> s.conds, version |-> VersionAt(Now),
                asOf |-> Now, raced |-> FALSE]]

hasCacheableConditional(results) ==
    \E r \in Relations :
        /\ results[r] # NoGrant
        /\ results[r].conditional
        /\ ~ results[r].factUsed
        /\ ~ results[r].missing
        /\ results[r].grant.conds # {}

BackendChecks(q) ==
    \E shapes \in [asked[q] -> Results] :
        LET results == [r \in Relations |->
                           IF r \in asked[q] THEN ResultNow(r, shapes[r]) ELSE NoGrant]
        IN  /\ Goto(q, "asked", IF hasCacheableConditional(results)
                                THEN "answered" ELSE "checked")
            /\ checks' = [checks EXCEPT ![q] = results]
            /\ UNCHANGED <<cacheVars, log, applied, pollReply, asked, change,
                           version>>

BackendFailsToCheck(q) ==
    /\ Goto(q, "asked", "idle")
    /\ asked' = [asked EXCEPT ![q] = {}]
    /\ UNCHANGED <<cacheVars, log, applied, pollReply, checks, change, version>>

\* ensureSchemaLoaded looks whether there is a schema with a version.
LooksForSchema(q) ==
    /\ Goto(q, "answered", IF SchemaIsLoaded THEN "checked" ELSE "loading")
    /\ MutexFree
    /\ UNCHANGED <<cacheVars, log, applied, pollReply, asked, checks, change,
                   version>>

BackendLoadsSchema(q) ==
    /\ Goto(q, "loading", "loaded")
    /\ version' = [version EXCEPT ![q] = VersionAt(Now)]
    /\ UNCHANGED <<cacheVars, log, applied, pollReply, asked, checks, change>>

\* Variant with a defect: the Check asks for the schema until it gets one.
BackendRetriesToLoadSchema(q) ==
    /\ Goto(q, "loading", "answered")
    /\ UNCHANGED <<cacheVars, log, applied, pollReply, asked, checks, change,
                   version>>

\* The failure is logged and the Check goes on.
BackendFailsToLoadSchema(q) ==
    /\ Goto(q, "loading", "checked")
    /\ UNCHANGED <<cacheVars, log, applied, pollReply, asked, checks, change,
                   version>>

InstallsSchema(q) ==
    /\ Goto(q, "loaded", "checked")
    /\ EnsureSchemaLoaded(version[q])
    /\ version' = [version EXCEPT ![q] = 0]
    /\ UNCHANGED <<log, applied, pollReply, asked, checks, change>>

\* Does the i-th change make a grant of one of the caches unreliable?
Outdates(i, direct, grant) ==
    /\ i > grant.asOf
    /\ \/ log[i].schemaChanged
       \/ ~ direct
       \/ Concerns(log[i].resources, log[i].targets, grant.of)

Stamped(results) ==
    [r \in Relations |->
        IF results[r] = NoGrant THEN NoGrant
        ELSE [results[r] EXCEPT !.grant.raced =
                 \E i \in applied :
                     Outdates(i, results[r].direct, results[r].grant)]]

InsertsChecks(q) ==
    /\ Goto(q, "checked", "idle")
    /\ UpdateCacheWithChecks(Stamped(checks[q]))
    /\ asked' = [asked EXCEPT ![q] = {}]
    /\ checks' = [checks EXCEPT ![q] = NoChecks]
    /\ UNCHANGED <<log, applied, pollReply, change, version>>

-----------------------------------------------------------------------------
(* CreateFGARelations, DeleteFGARelations, CreateFGASchema.  A write that  *)
(* the SDK reports as failed leaves the cache alone; if it took effect all *)
(* the same, it is a ChangeByOthers.                                       *)

BackendWritesRelations(q, rels) ==
    /\ Goto(q, "idle", "relationsWritten")
    /\ Now < MaxChanges
    /\ log' = Append(log, RelationChange(rels))
    /\ asked' = [asked EXCEPT ![q] = rels]
    /\ change' = [change EXCEPT ![q] = Now + 1]
    /\ UNCHANGED <<cacheVars, applied, pollReply, checks, version>>

UpdatesRelations(q) ==
    /\ Goto(q, "relationsWritten", "idle")
    /\ UpdateCacheWithRelations(asked[q])
    /\ applied' = applied \cup {change[q]}
    /\ asked' = [asked EXCEPT ![q] = {}]
    /\ change' = [change EXCEPT ![q] = 0]
    /\ UNCHANGED <<log, pollReply, checks, version>>

BackendWritesSchema(q) ==
    /\ Goto(q, "idle", "schemaWritten")
    /\ Now < MaxChanges
    /\ log' = Append(log, SchemaChange)
    /\ change' = [change EXCEPT ![q] = Now + 1]
    /\ UNCHANGED <<cacheVars, applied, pollReply, asked, checks, version>>

UpdatesSchema(q) ==
    /\ Goto(q, "schemaWritten", "idle")
    /\ UpdateCacheWithSchema(Versionless)
    /\ applied' = applied \cup {change[q]}
    /\ change' = [change EXCEPT ![q] = 0]
    /\ UNCHANGED <<log, pollReply, asked, checks, version>>

ChangeByOthers ==
    /\ Now < MaxChanges
    /\ \E c \in OthersChanges : log' = Append(log, c)
    /\ UNCHANGED <<cacheVars, applied, pollReply, requestVars>>

-----------------------------------------------------------------------------
(* The poller.                                                             *)

PollSkips ==
    /\ \E now \in LocalNow : pollSkipped(now)
    /\ applied' = 1..Now
    /\ UNCHANGED <<log, pollReply, requestVars>>

PollStarts ==
    /\ \E now \in LocalNow : pollTick(now)
    /\ UNCHANGED <<log, applied, pollReply, requestVars>>

BackendAnswersPoll ==
    /\ ~ MutexFree
    /\ pollReply = NoReply
    /\ pollReply' = Now
    /\ UNCHANGED <<cacheVars, log, applied, requestVars>>

Reported == { log[i] : i \in lastPollTime + 1 .. pollReply }

PollReturnsChanges ==
    /\ pollReply # NoReply
    /\ \E now \in LocalNow : pollReturnsChanges(Reported, now)
    /\ pollReply' = NoReply
    /\ applied' = IF \E c \in Reported : c.schemaChanged THEN 1..Now
                  ELSE applied \cup (lastPollTime + 1 .. pollReply)
    /\ UNCHANGED <<log, requestVars>>

PollReturnsTooManyModified ==
    /\ pollReply = NoReply
    /\ \E now \in LocalNow : pollReturnsTooManyModified(now)
    /\ applied' = 1..Now
    /\ UNCHANGED <<log, pollReply, requestVars>>

PollReturnsError ==
    /\ pollReply = NoReply
    /\ \E now \in LocalNow : pollReturnsError(now)
    /\ applied' = IF PurgeCooldown THEN applied ELSE 1..Now
    /\ UNCHANGED <<log, pollReply, requestVars>>

TimerFires(id) ==
    /\ timerFires(id)
    /\ UNCHANGED <<log, applied, pollReply, requestVars>>

CooldownCallback(id) ==
    /\ \E now \in LocalNow : cooldownCallback(id, now)
    /\ applied' = IF CooldownElapsed(id) THEN 1..Now ELSE applied
    /\ UNCHANGED <<log, pollReply, requestVars>>

-----------------------------------------------------------------------------
RequestStep(q) ==
    \/ \E rels \in Batches : CheckMisses(q, rels)
    \/ BackendChecks(q)
    \/ BackendFailsToCheck(q)
    \/ LooksForSchema(q)
    \/ BackendLoadsSchema(q)
    \/ BackendFailsToLoadSchema(q)
    \/ InstallsSchema(q)
    \/ InsertsChecks(q)
    \/ \E rels \in Batches : BackendWritesRelations(q, rels)
    \/ UpdatesRelations(q)
    \/ BackendWritesSchema(q)
    \/ UpdatesSchema(q)

\* A step of a request that has begun.
Continues(q) == pc[q] # "idle" /\ RequestStep(q)

PollCompletes ==
    \/ BackendAnswersPoll
    \/ PollReturnsChanges
    \/ PollReturnsTooManyModified
    \/ PollReturnsError

Next ==
    \/ \E q \in Requests : RequestStep(q)
    \/ ChangeByOthers
    \/ PollSkips
    \/ PollStarts
    \/ PollCompletes
    \/ \E id \in TimerIds : TimerFires(id) \/ CooldownCallback(id)

Spec == Init /\ [][Next]_vars

(***************************************************************************)
(* The ticker keeps ticking, a remote call ends with a result or an error, *)
(* the runtime fires a timer that is not stopped, and a goroutine that     *)
(* waits for a Go mutex gets it in the end although the poller keeps       *)
(* taking it, because sync.Mutex does not starve a waiter.                 *)
(***************************************************************************)
Fairness ==
    /\ WF_vars(PollSkips \/ PollStarts)
    /\ WF_vars(PollCompletes)
    /\ \A q \in Requests : SF_vars(Continues(q))
    /\ \A id \in TimerIds :
           /\ WF_vars(TimerFires(id))
           /\ SF_vars(CooldownCallback(id))

FairSpec == Spec /\ Fairness

-----------------------------------------------------------------------------
(***************************************************************************)
(* A change that the cache has applied leaves no grant behind that it      *)
(* outdates; a grant outdated by an applied change can only be one that a  *)
(* Check already in flight inserted after the change was applied.          *)
(***************************************************************************)
NoOutdatedGrant(cache, direct) ==
    \A k \in Cached(cache), i \in applied :
        Outdates(i, direct, cache[k]) => cache[k].raced

TrackedGrantsAreFresh ==
    /\ NoOutdatedGrant(directRelationCache, TRUE)
    /\ NoOutdatedGrant(indirectRelationCache, FALSE)

(***************************************************************************)
(* The service implements CoherentCache: whichever requests, polls and     *)
(* purges interleave, a grant enters the caches only with the answer of a  *)
(* check and leaves them no later than with the step that applies a change *)
(* by which it is outdated.  This is the promise without the mark of the   *)
(* late answers: they are learnt after the change.                         *)
(***************************************************************************)
GrantsHeld(cache, direct) ==
    { [relation |-> cache[k].of, direct |-> direct, asOf |-> cache[k].asOf] :
        k \in Cached(cache) }

CachedGrants ==
    GrantsHeld(directRelationCache, TRUE) \cup GrantsHeld(indirectRelationCache, FALSE)

Coherent == INSTANCE CoherentCache WITH
                history <- log, acknowledged <- applied, grants <- CachedGrants

CoherentSpec == Coherent!Spec

(***************************************************************************)
(* The direct cache is SweptStore here as well: what the requests and the  *)
(* polls do to it in one step is to store the tuples of an answer, to      *)
(* sweep it or to clear it.  This is what DirectRelationCache implements   *)
(* with its indexes.                                                       *)
(***************************************************************************)
DirectEntry(k) ==
    [key |-> k, resource |-> directRelationCache[k].of.resource,
                target |-> directRelationCache[k].of.target]

DirectEntries == { DirectEntry(k) : k \in Cached(directRelationCache) }

DirectStore == INSTANCE SweptStore WITH
                   entries <- DirectEntries, Capacity <- DirectCacheSize

DirectStoreSpec == DirectStore!Spec

(***************************************************************************)
(* No change falls through the polls: what the next poll will not report   *)
(* any more, because it is older than lastPollTime, has been applied.      *)
(***************************************************************************)
PendingChangesAreReported == 1..lastPollTime \subseteq applied

(***************************************************************************)
(* A cached conditional grant is only ever re-evaluated with the           *)
(* conditions of the schema version that the backend decided it with, and  *)
(* all of them are compiled.                                               *)
(***************************************************************************)
CertificatesMatchLoadedSchema ==
    \A cache \in {directRelationCache, indirectRelationCache} :
        \A k \in Cached(cache) :
            cache[k].conds # {} =>
                /\ cache[k].version = loadedSchemaVersion
                /\ cache[k].conds \subseteq compiledConditions

(***************************************************************************)
(* A cooldown that is under way ends: its timer is armed, or has fired and *)
(* its callback is waiting for the mutex.                                  *)
(***************************************************************************)
CooldownHasTimer ==
    purgeCooldownTimer # NoTimer =>
        purgeCooldownTimer \in armedTimers \cup firedTimers

(***************************************************************************)
(* The step that applies a schema change leaves no loaded schema behind,   *)
(* so that the next cacheable conditional result loads the schema again.   *)
(***************************************************************************)
SchemaChangeUnloadsSchema ==
    [][\A i \in applied' \ applied :
           log[i].schemaChanged => schemaCache' \in {NoSchema, Versionless}]_vars

(***************************************************************************)
(* Whatever the polls return, every change of the backend is applied in    *)
(* the end: it is reported, or all caches are purged after the cooldown.   *)
(***************************************************************************)
EveryChangeIsApplied ==
    \A n \in 1..MaxChanges : n <= Now ~> n \in applied

(***************************************************************************)
(* A Check or a write ends although the poller takes the mutex again and   *)
(* again, holds it across its remote calls, and drops the schema that a    *)
(* Check looks for.                                                        *)
(***************************************************************************)
RequestsFinish ==
    \A q \in Requests : pc[q] # "idle" ~> pc[q] = "idle"

(***************************************************************************)
(* README.md: "The check cache is kept fresh both by remote polling and by *)
(* pass-through requests, so it tracks the current state of relations."    *)
(* No cached grant is outdated by a change that polls no longer report.    *)
(***************************************************************************)
FreshAsOfLastPoll ==
    \A i \in 1..lastPollTime :
        /\ \A k \in Cached(directRelationCache) :
               ~ Outdates(i, TRUE, directRelationCache[k])
        /\ \A k \in Cached(indirectRelationCache) :
               ~ Outdates(i, FALSE, indirectRelationCache[k])

(***************************************************************************)
(* purgeAfterCooldown: the callback checks the timer "to prevent purging   *)
(* if cancelPurgeCooldown() was called in a race condition just before the *)
(* timer fires".  A callback that purges belongs to the pending cooldown.  *)
(***************************************************************************)
CancelledCooldownsDoNotPurge ==
    [][\A id \in firedTimers \ firedTimers' :
           purgeCooldownTimer # NoTimer => id = purgeCooldownTimer]_vars

=============================================================================
