------------------------ MODULE DirectRelationCache ------------------------
(***************************************************************************)
(* The direct relation cache of one project with its two invalidation      *)
(* indexes (internal/services/caches/projectauthzcache.go).                *)
(*                                                                         *)
(* The LRU cache is the set of keys it holds; which key is least recently  *)
(* used depends on the history of reads, so the victim of an eviction is   *)
(* any other key.  An index is map[resource]map[target][]key in the code.  *)
(* The order of a key list is never observed, only whether and how often a *)
(* key occurs in it, so a list is the number of occurrences of each key;   *)
(* an absent map entry and an empty list are both "no occurrence".         *)
(***************************************************************************)
EXTENDS FGARelation, Naturals, FiniteSets

CONSTANTS
    CacheSize,      \* DIRECT_RELATION_CACHE_SIZE_PER_PROJECT
    MaxCopies,      \* bound of the model: occurrences of a key in one list
    NoComponents    \* directKeyComponents has no entry for the key

ASSUME CacheSizeAssumption == CacheSize \in Nat \ {0}
ASSUME MaxCopiesAssumption == MaxCopies \in Nat \ {0}
ASSUME NoComponentsAssumption == NoComponents \notin Resources \X Targets

VARIABLES
    directRelationCache,    \* the keys held by the LRU cache
    directResourcesIndex,   \* resource -> target -> occurrences of each key
    directTargetsIndex,     \* target -> resource -> occurrences of each key
    directKeyComponents     \* key -> <<resource, target>> or NoComponents

vars == <<directRelationCache, directResourcesIndex, directTargetsIndex,
          directKeyComponents>>

EmptyList == [k \in Keys |-> 0]

TypeOK ==
    /\ directRelationCache \in SUBSET Keys
    /\ directResourcesIndex \in [Resources -> [Targets -> [Keys -> Nat]]]
    /\ directTargetsIndex \in [Targets -> [Resources -> [Keys -> Nat]]]
    /\ directKeyComponents \in
           [Keys -> (Resources \X Targets) \cup {NoComponents}]

Init ==
    /\ directRelationCache = {}
    /\ directResourcesIndex = [r \in Resources |-> [t \in Targets |-> EmptyList]]
    /\ directTargetsIndex = [t \in Targets |-> [r \in Resources |-> EmptyList]]
    /\ directKeyComponents = [k \in Keys |-> NoComponents]

-----------------------------------------------------------------------------
(* The operations on one index, with a and b its outer and inner map key.  *)

addKeyToIndex(index, a, b, k) == [index EXCEPT ![a][b][k] = @ + 1]

\* Variant with a defect: the whole list of the resource and target is deleted.
removeListFromIndex(index, a, b, k) == [index EXCEPT ![a][b] = EmptyList]

\* Only the first occurrence of the key is taken out of the list.
removeKeyFromIndex(index, a, b, k) ==
    [index EXCEPT ![a][b][k] = IF @ > 0 THEN @ - 1 ELSE @]

\* Every key that some list below the outer map keys A mentions.
KeysListedUnder(index, A, B) ==
    { k \in Keys : \E a \in A, b \in B : index[a][b][k] > 0 }

\* delete(index, a) for every a in A.
dropFromIndex(index, A, B) ==
    [a \in DOMAIN index |->
        IF a \in A THEN [b \in B |-> EmptyList] ELSE index[a]]

-----------------------------------------------------------------------------
\* An Add that finds room, or finds the key in the cache already, evicts nothing.
AddFits(k) ==
    k \in directRelationCache \/ Cardinality(directRelationCache) < CacheSize

\* Variant with a defect: the components are stored in the order of the targets' index.
IndexKeySwapped(k, r, t, resourcesIndex, targetsIndex, components) ==
    /\ resourcesIndex[r][t][k] < MaxCopies
    /\ targetsIndex[t][r][k] < MaxCopies
    /\ directResourcesIndex' = addKeyToIndex(resourcesIndex, r, t, k)
    /\ directTargetsIndex' = addKeyToIndex(targetsIndex, t, r, k)
    /\ directKeyComponents' = [components EXCEPT ![k] = <<t, r>>]

\* Bookkeeping of addDirectRelation once the LRU cache holds the key.
IndexKey(k, r, t, resourcesIndex, targetsIndex, components) ==
    /\ resourcesIndex[r][t][k] < MaxCopies
    /\ targetsIndex[t][r][k] < MaxCopies
    /\ directResourcesIndex' = addKeyToIndex(resourcesIndex, r, t, k)
    /\ directTargetsIndex' = addKeyToIndex(targetsIndex, t, r, k)
    /\ directKeyComponents' = [components EXCEPT ![k] = <<r, t>>]

addDirectRelation(rel) ==
    /\ AddFits(key(rel))
    /\ directRelationCache' = directRelationCache \cup {key(rel)}
    /\ IndexKey(key(rel), rel.resource, rel.target,
                directResourcesIndex, directTargetsIndex, directKeyComponents)

(***************************************************************************)
(* removeIndexOnCacheEviction: the indexes and components once the evicted *)
(* key v is taken out of the lists that its components lead to.            *)
(***************************************************************************)
ResourcesIndexWithout(v) ==
    LET c == directKeyComponents[v]
    IN  IF c = NoComponents THEN directResourcesIndex
        ELSE removeKeyFromIndex(directResourcesIndex, c[1], c[2], v)

TargetsIndexWithout(v) ==
    LET c == directKeyComponents[v]
    IN  IF c = NoComponents THEN directTargetsIndex
        ELSE removeKeyFromIndex(directTargetsIndex, c[2], c[1], v)

(***************************************************************************)
(* The LRU cache is full: Add evicts the key v, whose eviction callback    *)
(* runs before addDirectRelation goes on to index the new key.             *)
(***************************************************************************)
addDirectRelationEvicting(rel, v) ==
    /\ ~ AddFits(key(rel))
    /\ directRelationCache' = (directRelationCache \ {v}) \cup {key(rel)}
    /\ IndexKey(key(rel), rel.resource, rel.target,
                ResourcesIndexWithout(v), TargetsIndexWithout(v),
                [directKeyComponents EXCEPT ![v] = NoComponents])

(***************************************************************************)
(* Variant with a defect: the targets' index is dropped without removing   *)
(* the keys it lists.                                                      *)
(***************************************************************************)
removeByResourceOnly(R, T) ==
    /\ directRelationCache' = directRelationCache
           \ KeysListedUnder(directResourcesIndex, R, Targets)
    /\ directResourcesIndex' = dropFromIndex(directResourcesIndex, R, Targets)
    /\ directTargetsIndex' = dropFromIndex(directTargetsIndex, T, Resources)
    /\ UNCHANGED directKeyComponents

(***************************************************************************)
(* removeDirectRelationsByResource for each resource of R, then            *)
(* removeDirectRelationsByTarget for each target of T.  The LRU cache's    *)
(* Remove does not call the eviction callback: a removed key stays in the  *)
(* lists of the other index and keeps its key components.  A local write   *)
(* of relations sweeps their resources and their targets, a remote poll    *)
(* whatever it was told has changed.                                       *)
(***************************************************************************)
removeDirectRelations(R, T) ==
    /\ directRelationCache' = directRelationCache
           \ (KeysListedUnder(directResourcesIndex, R, Targets)
                \cup KeysListedUnder(directTargetsIndex, T, Resources))
    /\ directResourcesIndex' = dropFromIndex(directResourcesIndex, R, Targets)
    /\ directTargetsIndex' = dropFromIndex(directTargetsIndex, T, Resources)
    /\ UNCHANGED directKeyComponents

(***************************************************************************)
(* purgeRelationCaches.  The maps are replaced before the LRU cache is     *)
(* purged, so the eviction callbacks of the purge find no components.      *)
(***************************************************************************)
purgeDirectRelations ==
    /\ directRelationCache' = {}
    /\ directResourcesIndex' = [r \in Resources |-> [t \in Targets |-> EmptyList]]
    /\ directTargetsIndex' = [t \in Targets |-> [r \in Resources |-> EmptyList]]
    /\ directKeyComponents' = [k \in Keys |-> NoComponents]

Next ==
    \/ \E rel \in Relations : addDirectRelation(rel)
    \/ \E rel \in Relations, v \in directRelationCache :
           addDirectRelationEvicting(rel, v)
    \/ \E R \in SUBSET Resources, T \in SUBSET Targets :
           removeDirectRelations(R, T)
    \/ purgeDirectRelations

Spec == Init /\ [][Next]_vars

-----------------------------------------------------------------------------
(***************************************************************************)
(* A cached grant is always within reach of invalidation: its key is       *)
(* listed, in both indexes, under the resource and the target it was       *)
(* cached for.  A key that drops out of an index while it is cached would  *)
(* survive the sweep of its resource or target and be served stale for     *)
(* good.  The threats are the callback that unlists an evicted key, the    *)
(* sweeps that unlist in one index only, and the stale components and      *)
(* list entries that they leave behind.                                    *)
(***************************************************************************)
CachedKeysAreIndexed ==
    \A k \in directRelationCache :
        \E r \in Resources, t \in Targets :
            /\ directKeyComponents[k] = <<r, t>>
            /\ directResourcesIndex[r][t][k] > 0
            /\ directTargetsIndex[t][r][k] > 0

(***************************************************************************)
(* The lists of the two indexes and the components never place a key at a  *)
(* resource and target that no tuple with this key has, so a sweep never   *)
(* takes a grant out of the cache that it was not meant for.               *)
(***************************************************************************)
IsPlaceOf(k, r, t) ==
    \E rel \in Relations : key(rel) = k /\ rel.resource = r /\ rel.target = t

IndexesPlaceKeysRightly ==
    \A k \in Keys, r \in Resources, t \in Targets :
        \/ directResourcesIndex[r][t][k] > 0
        \/ directTargetsIndex[t][r][k] > 0
        \/ directKeyComponents[k] = <<r, t>>
        => IsPlaceOf(k, r, t)

\* The size the LRU cache was created with.
CacheWithinSize ==
    /\ IsFiniteSet(directRelationCache)
    /\ Cardinality(directRelationCache) <= CacheSize

(***************************************************************************)
(* The cache with its indexes implements SweptStore, whatever the tuples   *)
(* that share a key: index bookkeeping never hides a grant from a sweep,   *)
(* never exposes one to a sweep that concerns no tuple with its key, and   *)
(* an addition costs at most one grant of another key.                     *)
(***************************************************************************)
EntryOf(k) == [key |-> k, resource |-> directKeyComponents[k][1],
                          target |-> directKeyComponents[k][2]]

CachedEntries == { EntryOf(k) : k \in directRelationCache }

Store == INSTANCE SweptStore WITH
             entries <- CachedEntries, Capacity <- CacheSize

StoreSpec == Store!Spec

(***************************************************************************)
(* A sweep reaches through the indexes every cached key of the resources   *)
(* and targets it is called for, although lists have lost keys to earlier  *)
(* sweeps and evictions, and reaches no key that has nothing to do with    *)
(* them.                                                                   *)
(***************************************************************************)
SweepsAreExact ==
    [][\A R \in SUBSET Resources, T \in SUBSET Targets :
           removeDirectRelations(R, T) => Store!Sweep(R, T)]_vars

(***************************************************************************)
(* "on eviction, we need to remove the keys from the indexes as well"      *)
(* (removeIndexOnCacheEviction): a key that an addition evicts is listed   *)
(* in no index afterwards.                                                 *)
(***************************************************************************)
EvictionUnindexes ==
    [][\A rel \in Relations, v \in directRelationCache :
           addDirectRelationEvicting(rel, v) =>
               \A r \in Resources, t \in Targets :
                   /\ directResourcesIndex'[r][t][v] = 0
                   /\ directTargetsIndex'[t][r][v] = 0]_vars

=============================================================================
