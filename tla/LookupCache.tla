----------------------------- MODULE LookupCache -----------------------------
(***************************************************************************)
(* The lookup cache of one project (projectauthzcache.go, lines 600-724)   *)
(* and the requests that use it: WhoCanAccess, WhatCanTargetAccess and     *)
(* CreateFGARelations (internal/services/authz.go).                        *)
(*                                                                         *)
(* An entry holds the pool of candidates of one query.  A request that is  *)
(* served a pool re-verifies it with a Check, which AuthzCacheService      *)
(* models and which leaves the lookup cache alone; here only the pools     *)
(* matter.  Every section of the object's mutex is one step; who holds the *)
(* mutex in between makes no difference to the pools.  The backend is      *)
(* external: the set of the relations for which it allows access.          *)
(*                                                                         *)
(* An identifier is a sequence of tokens: ":" separates the parts of a key *)
(* and "|" the parts of an encoded candidate.                              *)
(***************************************************************************)
EXTENDS Naturals, FiniteSets, Sequences

CONSTANTS
    Relations,      \* tuples with a resource, relation, namespace and target
    LookupSize,     \* LOOKUP_CACHE_SIZE_PER_PROJECT
    TTL,            \* LOOKUP_CACHE_TTL_IN_SECONDS
    MaxResult,      \* LOOKUP_CACHE_MAX_RESULT_SIZE
    Lookups,        \* the lookup requests in flight at one time
    Writes,         \* the creation requests in flight at one time
    Observed,       \* the relation whose history is recorded: any one of Relations
    MaxTime,        \* bound of the model: the clock stops here
    NoEntry,        \* the LRU cache does not hold the key
    NoQuery,        \* the request is not about a query
    Never           \* Observed has not been created through this cache

ASSUME RelationsAssumption ==
    \A r \in Relations : {r.resource, r.relation, r.namespace, r.target} \subseteq Seq(STRING)
ASSUME SizesAssumption == LookupSize \in Nat \ {0} /\ MaxResult \in Nat
ASSUME TimesAssumption == TTL \in Nat \ {0} /\ MaxTime \in Nat
ASSUME NeverAssumption == Never \notin Nat
ASSUME ObservedAssumption == Observed \in Relations
ASSUME RequestsAssumption == Lookups \cap Writes = {}

Requests == Lookups \cup Writes

-----------------------------------------------------------------------------
(* Queries, their keys, and the candidates in the answer to a query.       *)

WhoCanAccess(r) == <<"wca", r.resource, r.relation, r.namespace>>
WhatCanTargetAccess(r) == <<"wcta", r.target>>

\* The queries whose answers r belongs to.
QueriesOf(r) == {WhoCanAccess(r), WhatCanTargetAccess(r)}
Queries == UNION { QueriesOf(r) : r \in Relations }

IsWhoCanAccess(query) == query[1] = "wca"

\* whoCanAccessKey and whatCanTargetAccessKey
lookupKey(query) ==
    IF IsWhoCanAccess(query)
    THEN <<"wca", ":">> \o query[2] \o <<":">> \o query[3] \o <<":">> \o query[4]
    ELSE <<"wcta", ":">> \o query[2]

Keys == { lookupKey(query) : query \in Queries }

\* Two queries of one key would be served each other's pools.
LookupKeysIdentifyQueries ==
    \A p, q \in Queries : lookupKey(p) = lookupKey(q) => p = q

ASSUME KeysAssumption == LookupKeysIdentifyQueries

\* The string in a pool that stands for r.
Candidate(query, r) ==
    IF IsWhoCanAccess(query) THEN r.target
    ELSE r.resource \o <<"|">> \o r.relation \o <<"|">> \o r.namespace

\* strings.SplitN(s, sep, 3) of a string with two separators or more.
SplitIn3(s, sep) ==
    LET bars == { i \in DOMAIN s : s[i] = sep }
        First(S) == CHOOSE i \in S : \A j \in S : i <= j
        i1 == First(bars)
        i2 == First(bars \ {i1})
    IN  <<SubSeq(s, 1, i1 - 1), SubSeq(s, i1 + 1, i2 - 1), SubSeq(s, i2 + 1, Len(s))>>

\* Is r among the candidates that a request is served from the strings of a pool?
Lists(query, results, r) ==
    IF IsWhoCanAccess(query) THEN r.target \in results
    ELSE \E s \in results : SplitIn3(s, "|") = <<r.resource, r.relation, r.namespace>>

Candidates == { Candidate(query, r) : query \in Queries, r \in Relations }

-----------------------------------------------------------------------------
VARIABLES
    lookupCache,    \* key -> entry or NoEntry
    clock,          \* the wall clock, in units of the TTL
    access,         \* the relations for which the backend allows access
    since,          \* when the access of Observed began, 0 without access
    created,        \* when the cache last learned that Observed was created
    pc,             \* where each request is
    asked,          \* the query that a request sent to the backend
    answer,         \* the candidates that the backend returned
    answeredAt,     \* the time of the answer
    written         \* the relations that a request has created in the backend

backendVars == <<access, since>>
lookupVars == <<asked, answer, answeredAt>>
vars == <<lookupCache, clock, backendVars, created, pc, lookupVars, written>>

\* answeredAt is not in the code's LookupCacheEntry: the time the backend listed the results.
Entry == [results : SUBSET Candidates, cachedAt : Nat, expiresAt : Nat,
          answeredAt : Nat]

TypeOK ==
    /\ lookupCache \in [Keys -> Entry \cup {NoEntry}]
    /\ clock \in 0..MaxTime
    /\ access \in SUBSET Relations
    /\ since \in 0..clock
    /\ created \in 0..clock \cup {Never}
    /\ pc \in [Requests -> {"idle", "asked", "answered", "written"}]
    /\ asked \in [Lookups -> Queries \cup {NoQuery}]
    /\ answer \in [Lookups -> SUBSET Candidates]
    /\ answeredAt \in [Lookups -> 0..clock]
    /\ written \in [Writes -> SUBSET Relations]

EmptyLookups == [k \in Keys |-> NoEntry]

Init ==
    /\ lookupCache = EmptyLookups
    /\ clock = 0
    /\ access \in SUBSET Relations
    /\ since = 0
    /\ created = Never
    /\ pc = [q \in Requests |-> "idle"]
    /\ asked = [q \in Lookups |-> NoQuery]
    /\ answer = [q \in Lookups |-> {}]
    /\ answeredAt = [q \in Lookups |-> 0]
    /\ written = [q \in Writes |-> {}]

Goto(q, from, to) ==
    /\ pc[q] = from
    /\ pc' = [pc EXCEPT ![q] = to]

-----------------------------------------------------------------------------
(* The sections of the cache object.                                       *)

Held == { k \in Keys : lookupCache[k] # NoEntry }

\* Variant with a defect: the time of expiry is not looked at.
IsServedWhileHeld(query) ==
    /\ lookupCache[lookupKey(query)] # NoEntry
    /\ lookupCache[lookupKey(query)].results # {}

(***************************************************************************)
(* GetWhoCanAccessCached and GetWhatCanTargetAccessCached: an entry is     *)
(* served until the clock is after its expiry.  An empty pool is no hit.   *)
(***************************************************************************)
IsServed(query) ==
    /\ lookupCache[lookupKey(query)] # NoEntry
    /\ clock <= lookupCache[lookupKey(query)].expiresAt
    /\ lookupCache[lookupKey(query)].results # {}

(***************************************************************************)
(* Add of the LRU cache.  Which entry is the least recently used one is    *)
(* not known.                                                              *)
(***************************************************************************)
LRUAdd(k, entry) ==
    \/ /\ k \in Held \/ Cardinality(Held) < LookupSize
       /\ lookupCache' = [lookupCache EXCEPT ![k] = entry]
    \/ /\ k \notin Held /\ Cardinality(Held) = LookupSize
       /\ \E victim \in Held :
              lookupCache' = [lookupCache EXCEPT ![victim] = NoEntry, ![k] = entry]

\* SetWhoCanAccessCached and SetWhatCanTargetAccessCached
SetCached(query, results, time) ==
    \/ /\ Cardinality(results) > MaxResult
       /\ UNCHANGED lookupCache
    \/ /\ Cardinality(results) <= MaxResult
       /\ LRUAdd(lookupKey(query),
                 [results |-> results, cachedAt |-> clock, expiresAt |-> clock + TTL,
                  answeredAt |-> time])

\* Variant with a defect: the resource is appended as the candidate of WhoCanAccess.
AddedResources(k, rels) == { r.resource : r \in { s \in rels : lookupKey(WhoCanAccess(s)) = k } }

\* The candidates that the relations rels add to the pool of the key k.
Added(k, rels) ==
    UNION { { Candidate(query, r) : query \in { p \in QueriesOf(r) : lookupKey(p) = k } } :
            r \in rels }

\* Variant with a defect: only the entries of WhoCanAccess are extended.
addToWhoCanAccess(rels) ==
    lookupCache' =
        [k \in Keys |->
            LET entry == lookupCache[k]
            IN  IF entry # NoEntry /\ k[1] = "wca" /\ clock < entry.expiresAt
                THEN [entry EXCEPT !.results = @ \cup Added(k, rels)]
                ELSE entry]

\* addToLookupCache for each of rels: an entry is extended until its expiry.
addToLookupCache(rels) ==
    lookupCache' =
        [k \in Keys |->
            LET entry == lookupCache[k]
            IN  IF entry # NoEntry /\ clock < entry.expiresAt
                THEN [entry EXCEPT !.results = @ \cup Added(k, rels)]
                ELSE entry]

-----------------------------------------------------------------------------
(* The requests.                                                           *)

LookupMisses(q, query) ==
    /\ Goto(q, "idle", "asked")
    /\ ~ IsServed(query)
    /\ asked' = [asked EXCEPT ![q] = query]
    /\ UNCHANGED <<lookupCache, clock, backendVars, created, answer, answeredAt,
                   written>>

BackendLists(q) ==
    /\ Goto(q, "asked", "answered")
    /\ answer' = [answer EXCEPT ![q] =
           { Candidate(asked[q], r) : r \in { s \in access : asked[q] \in QueriesOf(s) } }]
    /\ answeredAt' = [answeredAt EXCEPT ![q] = clock]
    /\ UNCHANGED <<lookupCache, clock, backendVars, created, asked, written>>

BackendFailsToList(q) ==
    /\ Goto(q, "asked", "idle")
    /\ asked' = [asked EXCEPT ![q] = NoQuery]
    /\ UNCHANGED <<lookupCache, clock, backendVars, created, answer, answeredAt,
                   written>>

CachesLookup(q) ==
    /\ Goto(q, "answered", "idle")
    /\ SetCached(asked[q], answer[q], answeredAt[q])
    /\ asked' = [asked EXCEPT ![q] = NoQuery]
    /\ answer' = [answer EXCEPT ![q] = {}]
    /\ answeredAt' = [answeredAt EXCEPT ![q] = 0]
    /\ UNCHANGED <<clock, backendVars, created, written>>

\* Access is what it is from now on; that of a relation which had it goes on.
AccessBecomes(rels) ==
    /\ access' = rels
    /\ since' = IF Observed \notin rels THEN 0
                ELSE IF Observed \in access THEN since ELSE clock

BackendCreates(q, rels) ==
    /\ Goto(q, "idle", "written")
    /\ AccessBecomes(access \cup rels)
    /\ written' = [written EXCEPT ![q] = rels]
    /\ UNCHANGED <<lookupCache, clock, created, lookupVars>>

AddsCreated(q) ==
    /\ Goto(q, "written", "idle")
    /\ addToLookupCache(written[q])
    /\ created' = IF Observed \in written[q] THEN clock ELSE created
    /\ written' = [written EXCEPT ![q] = {}]
    /\ UNCHANGED <<clock, backendVars, lookupVars>>

-----------------------------------------------------------------------------
(* Changes that do not touch the lookup cache: others create, delete and   *)
(* change schemas; the cache itself deletes relations.                     *)
ChangeByOthers ==
    /\ \E rels \in SUBSET Relations : AccessBecomes(rels)
    /\ UNCHANGED <<lookupCache, clock, created, pc, lookupVars, written>>

\* purgeRelationCaches after a schema change or failing polls; InvalidateLookupCache
Purge ==
    /\ lookupCache' = EmptyLookups
    /\ UNCHANGED <<clock, backendVars, created, pc, lookupVars, written>>

Tick ==
    /\ clock < MaxTime
    /\ clock' = clock + 1
    /\ UNCHANGED <<lookupCache, backendVars, created, pc, lookupVars, written>>

Next ==
    \/ \E q \in Lookups :
           \/ \E query \in Queries : LookupMisses(q, query)
           \/ BackendLists(q)
           \/ BackendFailsToList(q)
           \/ CachesLookup(q)
    \/ \E q \in Writes :
           \/ \E r \in Relations : BackendCreates(q, {r})
           \/ AddsCreated(q)
    \/ ChangeByOthers
    \/ Purge
    \/ Tick

Spec == Init /\ [][Next]_vars

-----------------------------------------------------------------------------
\* Names without "|" in a resource or relation are read back as they were encoded.
PipeFree(s) == \A i \in DOMAIN s : s[i] # "|"
IsReadBack(r) == PipeFree(r.resource) /\ PipeFree(r.relation)

(***************************************************************************)
(* README.md: a newly authorized entry is omitted "until the result's TTL  *)
(* expires and the result is refetched".  A pool that is served lists      *)
(* every relation whose access began more than a TTL ago, whatever local   *)
(* creations, evictions and purges there were in between; only an answer   *)
(* that took long to arrive may be older.                                  *)
(***************************************************************************)
OmissionsEndWithTTL ==
    \A query \in QueriesOf(Observed) :
        LET entry == lookupCache[lookupKey(query)]
        IN  /\ Observed \in access /\ IsReadBack(Observed)
            /\ IsServed(query)
            /\ since + TTL < clock
            /\ entry.answeredAt = entry.cachedAt
            => Lists(query, entry.results, Observed)

(***************************************************************************)
(* A relation that was created through this cache while an entry was held  *)
(* is a candidate of both of its queries for as long as the entry is       *)
(* served, also if it was deleted and created again.  This is what the     *)
(* code does (addToLookupCache) and its tests expect (authz_test.go:501,   *)
(* projectauthzcache_test.go:199).  README.md:51 says otherwise, "New      *)
(* entries, however, do not appear until the TTL expires", and does not    *)
(* except the relations created through this cache.                        *)
(***************************************************************************)
CreatedAreCandidates ==
    \A query \in QueriesOf(Observed) :
        LET entry == lookupCache[lookupKey(query)]
        IN  /\ IsReadBack(Observed)
            /\ IsServed(query)
            /\ created # Never
            /\ entry.cachedAt < created /\ created < entry.expiresAt
            => Lists(query, entry.results, Observed)

=============================================================================
