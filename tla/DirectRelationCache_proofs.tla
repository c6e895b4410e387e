--------------------- MODULE DirectRelationCache_proofs ---------------------
(***************************************************************************)
(* Proofs about DirectRelationCache: type correctness, that a cached key   *)
(* is always listed in both indexes, and that the cache with its indexes   *)
(* implements SweptStore.                                                  *)
(***************************************************************************)
EXTENDS DirectRelationCache, FiniteSetTheorems, SequenceTheorems, TLAPS

Index(A, B) == [A -> [B -> [Keys -> Nat]]]

-----------------------------------------------------------------------------
(* What the operations on one index do to its lists.                       *)

LEMMA PartsOfRelations ==
    \A rel \in Relations :
        key(rel) \in Keys /\ rel.resource \in Resources /\ rel.target \in Targets
BY DEF Keys, Resources, Targets

LEMMA EmptyIndex ==
    ASSUME NEW A, NEW B
    PROVE  [a \in A |-> [b \in B |-> EmptyList]] \in Index(A, B)
BY DEF Index, EmptyList

\* The key is listed at its place, and everything else stays as it was.
LEMMA AddKey ==
    ASSUME NEW A, NEW B, NEW index \in Index(A, B),
           NEW a \in A, NEW b \in B, NEW k \in Keys
    PROVE  LET new == addKeyToIndex(index, a, b, k)
           IN  /\ new \in Index(A, B)
               /\ new[a][b][k] > 0
               /\ \A x \in A, y \in B, j \in Keys :
                      /\ index[x][y][j] > 0 => new[x][y][j] > 0
                      /\ new[x][y][j] > 0 =>
                             index[x][y][j] > 0 \/ (x = a /\ y = b /\ j = k)
BY DEF addKeyToIndex, Index

\* Only the lists' counts of the removed key change, and no list gains a key.
LEMMA RemoveKey ==
    ASSUME NEW A, NEW B, NEW index \in Index(A, B),
           NEW a \in A, NEW b \in B, NEW k \in Keys
    PROVE  LET new == removeKeyFromIndex(index, a, b, k)
           IN  /\ new \in Index(A, B)
               /\ \A x \in A, y \in B, j \in Keys :
                      /\ j # k => new[x][y][j] = index[x][y][j]
                      /\ new[x][y][j] > 0 => index[x][y][j] > 0
BY DEF removeKeyFromIndex, Index

LEMMA DropKeys ==
    ASSUME NEW A, NEW B, NEW index \in Index(A, B), NEW S
    PROVE  LET new == dropFromIndex(index, S, B)
           IN  /\ new \in Index(A, B)
               /\ \A x \in A, y \in B, j \in Keys :
                      new[x][y][j] > 0 <=> index[x][y][j] > 0 /\ x \notin S
BY DEF dropFromIndex, Index, EmptyList

\* removeIndexOnCacheEviction touches no list entry of another key.
LEMMA Unlisting ==
    ASSUME TypeOK, NEW v \in Keys
    PROVE  /\ ResourcesIndexWithout(v) \in Index(Resources, Targets)
           /\ TargetsIndexWithout(v) \in Index(Targets, Resources)
           /\ \A r \in Resources, t \in Targets, j \in Keys :
                  /\ j # v =>
                         /\ ResourcesIndexWithout(v)[r][t][j] = directResourcesIndex[r][t][j]
                         /\ TargetsIndexWithout(v)[t][r][j] = directTargetsIndex[t][r][j]
                  /\ ResourcesIndexWithout(v)[r][t][j] > 0 => directResourcesIndex[r][t][j] > 0
                  /\ TargetsIndexWithout(v)[t][r][j] > 0 => directTargetsIndex[t][r][j] > 0
<1>0. /\ directResourcesIndex \in Index(Resources, Targets)
      /\ directTargetsIndex \in Index(Targets, Resources)
      /\ directKeyComponents[v] \in (Resources \X Targets) \cup {NoComponents}
  BY DEF TypeOK, Index
<1>1. CASE directKeyComponents[v] = NoComponents
  BY <1>0, <1>1 DEF ResourcesIndexWithout, TargetsIndexWithout
<1>2. CASE directKeyComponents[v] # NoComponents
  <2>. DEFINE r == directKeyComponents[v][1]
              t == directKeyComponents[v][2]
  <2>1. r \in Resources /\ t \in Targets
    BY <1>0, <1>2
  <2>2. /\ ResourcesIndexWithout(v) = removeKeyFromIndex(directResourcesIndex, r, t, v)
        /\ TargetsIndexWithout(v) = removeKeyFromIndex(directTargetsIndex, t, r, v)
    BY <1>2 DEF ResourcesIndexWithout, TargetsIndexWithout
  <2>. HIDE DEF r, t
  <2>. DEFINE ri == removeKeyFromIndex(directResourcesIndex, r, t, v)
              ti == removeKeyFromIndex(directTargetsIndex, t, r, v)
  <2>3. /\ ri \in Index(Resources, Targets)
        /\ \A x \in Resources, y \in Targets, j \in Keys :
               /\ j # v => ri[x][y][j] = directResourcesIndex[x][y][j]
               /\ ri[x][y][j] > 0 => directResourcesIndex[x][y][j] > 0
    BY <1>0, <2>1, RemoveKey
  <2>4. /\ ti \in Index(Targets, Resources)
        /\ \A x \in Targets, y \in Resources, j \in Keys :
               /\ j # v => ti[x][y][j] = directTargetsIndex[x][y][j]
               /\ ti[x][y][j] > 0 => directTargetsIndex[x][y][j] > 0
    BY <1>0, <2>1, RemoveKey
  <2>. HIDE DEF ri, ti
  <2>. QED  BY <2>2, <2>3, <2>4 DEF ri, ti
<1>. QED  BY <1>1, <1>2

-----------------------------------------------------------------------------
(* Type correctness.                                                       *)

LEMMA TypeOKInit == Init => TypeOK
BY EmptyIndex DEF Init, TypeOK, Index

\* Indexing a key after its components and the indexes were updated keeps the types.
LEMMA TypeOKIndexKey ==
    ASSUME NEW rel \in Relations,
           NEW ri \in Index(Resources, Targets), NEW ti \in Index(Targets, Resources),
           NEW components \in [Keys -> (Resources \X Targets) \cup {NoComponents}],
           IndexKey(key(rel), rel.resource, rel.target, ri, ti, components)
    PROVE  /\ directResourcesIndex' \in Index(Resources, Targets)
           /\ directTargetsIndex' \in Index(Targets, Resources)
           /\ directKeyComponents' \in
                  [Keys -> (Resources \X Targets) \cup {NoComponents}]
<1>1. key(rel) \in Keys /\ rel.resource \in Resources /\ rel.target \in Targets
  BY PartsOfRelations
<1>2. directResourcesIndex' \in Index(Resources, Targets)
  BY <1>1, AddKey DEF IndexKey
<1>3. directTargetsIndex' \in Index(Targets, Resources)
  BY <1>1, AddKey DEF IndexKey
<1>4. directKeyComponents' \in [Keys -> (Resources \X Targets) \cup {NoComponents}]
  BY <1>1 DEF IndexKey
<1>. QED  BY <1>2, <1>3, <1>4

LEMMA TypeOKStep == TypeOK /\ [Next]_vars => TypeOK'
<1>. SUFFICES ASSUME TypeOK, [Next]_vars PROVE TypeOK'
  OBVIOUS
<1>0. /\ directResourcesIndex \in Index(Resources, Targets)
      /\ directTargetsIndex \in Index(Targets, Resources)
  BY DEF TypeOK, Index
<1>1. ASSUME NEW rel \in Relations, addDirectRelation(rel) PROVE TypeOK'
  <2>1. directRelationCache' \in SUBSET Keys
    BY <1>1, PartsOfRelations DEF addDirectRelation, TypeOK
  <2>. QED
    BY <1>0, <1>1, <2>1, TypeOKIndexKey DEF addDirectRelation, TypeOK, Index
<1>2. ASSUME NEW rel \in Relations, NEW v \in directRelationCache,
             addDirectRelationEvicting(rel, v)
      PROVE  TypeOK'
  <2>1. v \in Keys /\ directRelationCache' \in SUBSET Keys
    BY <1>2, PartsOfRelations DEF addDirectRelationEvicting, TypeOK
  <2>2. /\ ResourcesIndexWithout(v) \in Index(Resources, Targets)
        /\ TargetsIndexWithout(v) \in Index(Targets, Resources)
    BY <2>1, Unlisting
  <2>3. [directKeyComponents EXCEPT ![v] = NoComponents]
            \in [Keys -> (Resources \X Targets) \cup {NoComponents}]
    BY DEF TypeOK
  <2>4. IndexKey(key(rel), rel.resource, rel.target, ResourcesIndexWithout(v),
                 TargetsIndexWithout(v),
                 [directKeyComponents EXCEPT ![v] = NoComponents])
    BY <1>2 DEF addDirectRelationEvicting
  <2>. QED
    BY <2>1, <2>2, <2>3, <2>4, TypeOKIndexKey DEF TypeOK, Index
<1>3. ASSUME NEW R \in SUBSET Resources, NEW T \in SUBSET Targets,
             removeDirectRelations(R, T)
      PROVE  TypeOK'
  <2>1. directRelationCache' \in SUBSET Keys
    BY <1>3 DEF removeDirectRelations, TypeOK
  <2>2. directResourcesIndex' \in Index(Resources, Targets)
    BY <1>0, <1>3, DropKeys DEF removeDirectRelations
  <2>3. directTargetsIndex' \in Index(Targets, Resources)
    BY <1>0, <1>3, DropKeys DEF removeDirectRelations
  <2>. QED  BY <1>3, <2>1, <2>2, <2>3 DEF removeDirectRelations, TypeOK, Index
<1>4. CASE purgeDirectRelations
  BY <1>4, EmptyIndex DEF purgeDirectRelations, TypeOK, Index
<1>5. CASE UNCHANGED vars
  BY <1>5 DEF vars, TypeOK
<1>. QED  BY <1>1, <1>2, <1>3, <1>4, <1>5 DEF Next

(***************************************************************************)
(* The variables keep their types; in particular a key's components are    *)
(* always a resource and a target.                                         *)
(***************************************************************************)
THEOREM TypeCorrect == Spec => []TypeOK
BY TypeOKInit, TypeOKStep, PTL DEF Spec

-----------------------------------------------------------------------------
(* Cached keys are indexed.                                                *)

\* Key k is listed in both given indexes at its given components.
Indexed(k, ri, ti, components) ==
    \E r \in Resources, t \in Targets :
        components[k] = <<r, t>> /\ ri[r][t][k] > 0 /\ ti[t][r][k] > 0

\* Indexing a key leaves the keys of a cache indexed that were so before.
LEMMA IndexedAfterIndexKey ==
    ASSUME NEW rel \in Relations, NEW cache \in SUBSET Keys,
           NEW ri \in Index(Resources, Targets), NEW ti \in Index(Targets, Resources),
           NEW components \in [Keys -> (Resources \X Targets) \cup {NoComponents}],
           \A k \in cache \ {key(rel)} : Indexed(k, ri, ti, components),
           IndexKey(key(rel), rel.resource, rel.target, ri, ti, components),
           directRelationCache' = cache \cup {key(rel)}
    PROVE  CachedKeysAreIndexed'
<1>1. key(rel) \in Keys /\ rel.resource \in Resources /\ rel.target \in Targets
  BY PartsOfRelations
<1>2. /\ directResourcesIndex'[rel.resource][rel.target][key(rel)] > 0
      /\ \A r \in Resources, t \in Targets, k \in Keys :
             ri[r][t][k] > 0 => directResourcesIndex'[r][t][k] > 0
  BY <1>1, AddKey DEF IndexKey
<1>3. /\ directTargetsIndex'[rel.target][rel.resource][key(rel)] > 0
      /\ \A t \in Targets, r \in Resources, k \in Keys :
             ti[t][r][k] > 0 => directTargetsIndex'[t][r][k] > 0
  BY <1>1, AddKey DEF IndexKey
<1>4. directKeyComponents' =
          [components EXCEPT ![key(rel)] = <<rel.resource, rel.target>>]
  BY DEF IndexKey
<1>5. ASSUME NEW k \in cache, k # key(rel)
      PROVE  \E r \in Resources, t \in Targets :
                 /\ directKeyComponents'[k] = <<r, t>>
                 /\ directResourcesIndex'[r][t][k] > 0
                 /\ directTargetsIndex'[t][r][k] > 0
  <2>1. PICK r \in Resources, t \in Targets :
            components[k] = <<r, t>> /\ ri[r][t][k] > 0 /\ ti[t][r][k] > 0
    BY <1>5 DEF Indexed
  <2>. QED  BY <1>2, <1>3, <1>4, <1>5, <2>1
<1>6. directKeyComponents'[key(rel)] = <<rel.resource, rel.target>>
  BY <1>1, <1>4
<1>. QED  BY <1>1, <1>2, <1>3, <1>5, <1>6 DEF CachedKeysAreIndexed

LEMMA CachedKeysAreIndexedInit == Init => CachedKeysAreIndexed
BY DEF Init, CachedKeysAreIndexed

LEMMA CachedKeysAreIndexedStep ==
    TypeOK /\ CachedKeysAreIndexed /\ [Next]_vars => CachedKeysAreIndexed'
<1>. SUFFICES ASSUME TypeOK, CachedKeysAreIndexed, [Next]_vars
              PROVE  CachedKeysAreIndexed'
  OBVIOUS
<1>0. /\ directResourcesIndex \in Index(Resources, Targets)
      /\ directTargetsIndex \in Index(Targets, Resources)
      /\ directKeyComponents \in [Keys -> (Resources \X Targets) \cup {NoComponents}]
      /\ directRelationCache \in SUBSET Keys
      /\ \A k \in directRelationCache :
             Indexed(k, directResourcesIndex, directTargetsIndex, directKeyComponents)
  BY DEF TypeOK, Index, CachedKeysAreIndexed, Indexed
<1>1. ASSUME NEW rel \in Relations, addDirectRelation(rel)
      PROVE  CachedKeysAreIndexed'
  BY <1>0, <1>1, IndexedAfterIndexKey DEF addDirectRelation
<1>2. ASSUME NEW rel \in Relations, NEW v \in directRelationCache,
             addDirectRelationEvicting(rel, v)
      PROVE  CachedKeysAreIndexed'
  <2>. DEFINE cache == directRelationCache \ {v}
              ri == ResourcesIndexWithout(v)
              ti == TargetsIndexWithout(v)
              components == [directKeyComponents EXCEPT ![v] = NoComponents]
  <2>1. /\ ri \in Index(Resources, Targets)
        /\ ti \in Index(Targets, Resources)
        /\ components \in [Keys -> (Resources \X Targets) \cup {NoComponents}]
        /\ cache \in SUBSET Keys
    BY <1>0, Unlisting
  <2>2. ASSUME NEW k \in cache
        PROVE  Indexed(k, ri, ti, components)
    <3>1. k \in Keys /\ v \in Keys /\ k # v
      BY <1>0
    <3>2. PICK r \in Resources, t \in Targets :
              /\ directKeyComponents[k] = <<r, t>>
              /\ directResourcesIndex[r][t][k] > 0
              /\ directTargetsIndex[t][r][k] > 0
      BY DEF CachedKeysAreIndexed
    <3>3. ri[r][t][k] > 0 /\ ti[t][r][k] > 0
      BY <3>1, <3>2, Unlisting
    <3>4. components[k] = <<r, t>>
      BY <1>0, <3>1, <3>2
    <3>. QED  BY <3>3, <3>4 DEF Indexed
  <2>3. /\ IndexKey(key(rel), rel.resource, rel.target, ri, ti, components)
        /\ directRelationCache' = cache \cup {key(rel)}
    BY <1>2 DEF addDirectRelationEvicting
  <2>. HIDE DEF cache, ri, ti, components
  <2>. QED  BY <2>1, <2>2, <2>3, IndexedAfterIndexKey
<1>3. ASSUME NEW R \in SUBSET Resources, NEW T \in SUBSET Targets,
             removeDirectRelations(R, T)
      PROVE  CachedKeysAreIndexed'
  <2>. SUFFICES ASSUME NEW k \in directRelationCache'
                PROVE  \E r \in Resources, t \in Targets :
                           /\ directKeyComponents'[k] = <<r, t>>
                           /\ directResourcesIndex'[r][t][k] > 0
                           /\ directTargetsIndex'[t][r][k] > 0
    BY DEF CachedKeysAreIndexed
  <2>1. /\ k \in directRelationCache
        /\ k \in Keys
        /\ k \notin KeysListedUnder(directResourcesIndex, R, Targets)
        /\ k \notin KeysListedUnder(directTargetsIndex, T, Resources)
    BY <1>0, <1>3 DEF removeDirectRelations
  <2>2. PICK r \in Resources, t \in Targets :
            /\ directKeyComponents[k] = <<r, t>>
            /\ directResourcesIndex[r][t][k] > 0
            /\ directTargetsIndex[t][r][k] > 0
    BY <2>1 DEF CachedKeysAreIndexed
  <2>3. r \notin R /\ t \notin T
    BY <2>1, <2>2 DEF KeysListedUnder
  <2>4. directResourcesIndex'[r][t][k] > 0
    BY <1>0, <1>3, <2>1, <2>2, <2>3, DropKeys DEF removeDirectRelations
  <2>5. directTargetsIndex'[t][r][k] > 0
    BY <1>0, <1>3, <2>1, <2>2, <2>3, DropKeys DEF removeDirectRelations
  <2>. QED  BY <1>3, <2>2, <2>4, <2>5 DEF removeDirectRelations
<1>4. CASE purgeDirectRelations
  BY <1>4 DEF purgeDirectRelations, CachedKeysAreIndexed
<1>5. CASE UNCHANGED vars
  BY <1>5 DEF vars, CachedKeysAreIndexed
<1>. QED  BY <1>1, <1>2, <1>3, <1>4, <1>5 DEF Next

(***************************************************************************)
(* A cached key is listed in both indexes under the resource and target it *)
(* was cached for, whatever was evicted, swept and cached again before,    *)
(* and whatever tuples share the key.                                      *)
(***************************************************************************)
THEOREM IndexesCoverCache == Spec => []CachedKeysAreIndexed
<1>1. Init => TypeOK /\ CachedKeysAreIndexed
  BY TypeOKInit, CachedKeysAreIndexedInit
<1>2. TypeOK /\ CachedKeysAreIndexed /\ [Next]_vars
          => (TypeOK /\ CachedKeysAreIndexed)'
  BY TypeOKStep, CachedKeysAreIndexedStep
<1>. QED  BY <1>1, <1>2, PTL DEF Spec

-----------------------------------------------------------------------------
(* The indexes place no key wrongly, and the cache keeps to its size.      *)

Rightly(ri, ti, components) ==
    \A k \in Keys, r \in Resources, t \in Targets :
        ri[r][t][k] > 0 \/ ti[t][r][k] > 0 \/ components[k] = <<r, t>>
            => IsPlaceOf(k, r, t)

LEMMA RightlyAfterIndexKey ==
    ASSUME NEW rel \in Relations,
           NEW ri \in Index(Resources, Targets), NEW ti \in Index(Targets, Resources),
           NEW components \in [Keys -> (Resources \X Targets) \cup {NoComponents}],
           Rightly(ri, ti, components),
           IndexKey(key(rel), rel.resource, rel.target, ri, ti, components)
    PROVE  IndexesPlaceKeysRightly'
<1>1. key(rel) \in Keys /\ rel.resource \in Resources /\ rel.target \in Targets
  BY PartsOfRelations
<1>. SUFFICES ASSUME NEW k \in Keys, NEW r \in Resources, NEW t \in Targets,
                     \/ directResourcesIndex'[r][t][k] > 0
                     \/ directTargetsIndex'[t][r][k] > 0
                     \/ directKeyComponents'[k] = <<r, t>>
              PROVE  IsPlaceOf(k, r, t)
  BY DEF IndexesPlaceKeysRightly, IsPlaceOf
<1>2. CASE k = key(rel) /\ r = rel.resource /\ t = rel.target
  BY <1>2 DEF IsPlaceOf
<1>3. CASE ~ (k = key(rel) /\ r = rel.resource /\ t = rel.target)
  <2>. DEFINE newRi == addKeyToIndex(ri, rel.resource, rel.target, key(rel))
              newTi == addKeyToIndex(ti, rel.target, rel.resource, key(rel))
  <2>1. directResourcesIndex' = newRi /\ directTargetsIndex' = newTi
    BY DEF IndexKey
  <2>2. \A x \in Resources, y \in Targets, j \in Keys :
            newRi[x][y][j] > 0 =>
                \/ ri[x][y][j] > 0
                \/ x = rel.resource /\ y = rel.target /\ j = key(rel)
    BY <1>1 DEF addKeyToIndex, Index
  <2>3. \A y \in Targets, x \in Resources, j \in Keys :
            newTi[y][x][j] > 0 =>
                \/ ti[y][x][j] > 0
                \/ y = rel.target /\ x = rel.resource /\ j = key(rel)
    BY <1>1 DEF addKeyToIndex, Index
  <2>4. directKeyComponents'[k] = <<r, t>> => components[k] = <<r, t>>
    BY <1>1, <1>3 DEF IndexKey
  <2>. HIDE DEF newRi, newTi
  <2>. QED  BY <1>3, <2>1, <2>2, <2>3, <2>4 DEF Rightly
<1>. QED  BY <1>2, <1>3

LEMMA RightlyStep ==
    TypeOK /\ IndexesPlaceKeysRightly /\ [Next]_vars => IndexesPlaceKeysRightly'
<1>. SUFFICES ASSUME TypeOK, IndexesPlaceKeysRightly, [Next]_vars
              PROVE  IndexesPlaceKeysRightly'
  OBVIOUS
<1>0. /\ directResourcesIndex \in Index(Resources, Targets)
      /\ directTargetsIndex \in Index(Targets, Resources)
      /\ directKeyComponents \in [Keys -> (Resources \X Targets) \cup {NoComponents}]
      /\ directRelationCache \in SUBSET Keys
      /\ Rightly(directResourcesIndex, directTargetsIndex, directKeyComponents)
  BY DEF TypeOK, Index, IndexesPlaceKeysRightly, Rightly
<1>1. ASSUME NEW rel \in Relations, addDirectRelation(rel)
      PROVE  IndexesPlaceKeysRightly'
  BY <1>0, <1>1, RightlyAfterIndexKey DEF addDirectRelation
<1>2. ASSUME NEW rel \in Relations, NEW v \in directRelationCache,
             addDirectRelationEvicting(rel, v)
      PROVE  IndexesPlaceKeysRightly'
  <2>. DEFINE ri == ResourcesIndexWithout(v)
              ti == TargetsIndexWithout(v)
              components == [directKeyComponents EXCEPT ![v] = NoComponents]
  <2>1. /\ ri \in Index(Resources, Targets)
        /\ ti \in Index(Targets, Resources)
        /\ components \in [Keys -> (Resources \X Targets) \cup {NoComponents}]
    BY <1>0, Unlisting
  <2>2. \A k \in Keys, r \in Resources, t \in Targets :
            /\ ri[r][t][k] > 0 => directResourcesIndex[r][t][k] > 0
            /\ ti[t][r][k] > 0 => directTargetsIndex[t][r][k] > 0
            /\ components[k] = <<r, t>> => directKeyComponents[k] = <<r, t>>
    BY <1>0, Unlisting, NoComponentsAssumption
  <2>3. Rightly(ri, ti, components)
    BY <1>0, <2>2 DEF Rightly
  <2>4. IndexKey(key(rel), rel.resource, rel.target, ri, ti, components)
    BY <1>2 DEF addDirectRelationEvicting
  <2>. HIDE DEF ri, ti, components
  <2>. QED  BY <2>1, <2>3, <2>4, RightlyAfterIndexKey
<1>3. ASSUME NEW R \in SUBSET Resources, NEW T \in SUBSET Targets,
             removeDirectRelations(R, T)
      PROVE  IndexesPlaceKeysRightly'
  <2>1. \A k \in Keys, r \in Resources, t \in Targets :
            directResourcesIndex'[r][t][k] > 0 => directResourcesIndex[r][t][k] > 0
    BY <1>0, <1>3, DropKeys DEF removeDirectRelations
  <2>2. \A k \in Keys, r \in Resources, t \in Targets :
            directTargetsIndex'[t][r][k] > 0 => directTargetsIndex[t][r][k] > 0
    BY <1>0, <1>3, DropKeys DEF removeDirectRelations
  <2>. QED
    BY <1>3, <2>1, <2>2 DEF removeDirectRelations, IndexesPlaceKeysRightly, IsPlaceOf
<1>4. CASE purgeDirectRelations
  BY <1>4, NoComponentsAssumption
     DEF purgeDirectRelations, IndexesPlaceKeysRightly, EmptyList
<1>5. CASE UNCHANGED vars
  BY <1>5 DEF vars, IndexesPlaceKeysRightly, IsPlaceOf
<1>. QED  BY <1>1, <1>2, <1>3, <1>4, <1>5 DEF Next

LEMMA RightlyInit == Init => IndexesPlaceKeysRightly
BY NoComponentsAssumption DEF Init, IndexesPlaceKeysRightly, EmptyList

LEMMA WithinSizeInit == Init => CacheWithinSize
BY CacheSizeAssumption, FS_EmptySet DEF Init, CacheWithinSize

LEMMA WithinSizeStep == CacheWithinSize /\ [Next]_vars => CacheWithinSize'
<1>. SUFFICES ASSUME CacheWithinSize, [Next]_vars PROVE CacheWithinSize'
  OBVIOUS
<1>0. Cardinality(directRelationCache) \in Nat
  BY FS_CardinalityType DEF CacheWithinSize
<1>1. ASSUME NEW rel \in Relations, addDirectRelation(rel) PROVE CacheWithinSize'
  <2>1. directRelationCache' = directRelationCache \cup {key(rel)}
    BY <1>1 DEF addDirectRelation
  <2>2. key(rel) \in directRelationCache \/ Cardinality(directRelationCache) < CacheSize
    BY <1>1 DEF addDirectRelation, AddFits
  <2>3. IsFiniteSet(directRelationCache)
    BY DEF CacheWithinSize
  <2>4. CASE key(rel) \in directRelationCache
    <3>1. directRelationCache' = directRelationCache
      BY <2>1, <2>4
    <3>. QED  BY <3>1 DEF CacheWithinSize
  <2>5. CASE key(rel) \notin directRelationCache
    <3>1. /\ IsFiniteSet(directRelationCache')
          /\ Cardinality(directRelationCache') = Cardinality(directRelationCache) + 1
      BY <2>1, <2>3, <2>5, FS_AddElement
    <3>. QED  BY <1>0, <2>2, <2>5, <3>1, CacheSizeAssumption DEF CacheWithinSize
  <2>. QED  BY <2>4, <2>5
<1>2. ASSUME NEW rel \in Relations, NEW v \in directRelationCache,
             addDirectRelationEvicting(rel, v)
      PROVE  CacheWithinSize'
  <2>1. /\ IsFiniteSet(directRelationCache \ {v})
        /\ Cardinality(directRelationCache \ {v}) = Cardinality(directRelationCache) - 1
    BY FS_RemoveElement DEF CacheWithinSize
  <2>2. directRelationCache' = (directRelationCache \ {v}) \cup {key(rel)}
    BY <1>2 DEF addDirectRelationEvicting
  <2>3. /\ IsFiniteSet(directRelationCache')
        /\ \/ Cardinality(directRelationCache') = Cardinality(directRelationCache \ {v})
           \/ Cardinality(directRelationCache') = Cardinality(directRelationCache \ {v}) + 1
    BY <2>1, <2>2, FS_AddElement
  <2>4. Cardinality(directRelationCache') <= Cardinality(directRelationCache)
    BY <1>0, <2>1, <2>3
  <2>5. Cardinality(directRelationCache') \in Nat
    BY <2>3, FS_CardinalityType
  <2>. QED  BY <1>0, <2>3, <2>4, <2>5, CacheSizeAssumption DEF CacheWithinSize
<1>3. ASSUME NEW R \in SUBSET Resources, NEW T \in SUBSET Targets,
             removeDirectRelations(R, T)
      PROVE  CacheWithinSize'
  <2>1. directRelationCache' \subseteq directRelationCache
    BY <1>3 DEF removeDirectRelations
  <2>2. /\ IsFiniteSet(directRelationCache')
        /\ Cardinality(directRelationCache') <= Cardinality(directRelationCache)
    BY <2>1, FS_Subset DEF CacheWithinSize
  <2>3. Cardinality(directRelationCache') \in Nat
    BY <2>2, FS_CardinalityType
  <2>. QED  BY <1>0, <2>2, <2>3, CacheSizeAssumption DEF CacheWithinSize
<1>4. CASE purgeDirectRelations
  BY <1>4, FS_EmptySet, CacheSizeAssumption DEF purgeDirectRelations, CacheWithinSize
<1>5. CASE UNCHANGED vars
  BY <1>5 DEF vars, CacheWithinSize
<1>. QED  BY <1>1, <1>2, <1>3, <1>4, <1>5 DEF Next

-----------------------------------------------------------------------------
(* The cache with its indexes implements SweptStore.                       *)

IInv ==
    /\ TypeOK
    /\ CachedKeysAreIndexed
    /\ IndexesPlaceKeysRightly
    /\ CacheWithinSize

LEMMA IInvInvariant == Spec => []IInv
<1>1. Init => IInv
  BY TypeOKInit, CachedKeysAreIndexedInit, RightlyInit, WithinSizeInit DEF IInv
<1>2. IInv /\ [Next]_vars => IInv'
  BY TypeOKStep, CachedKeysAreIndexedStep, RightlyStep, WithinSizeStep DEF IInv
<1>. QED  BY <1>1, <1>2, PTL DEF Spec

\* The entry of a key, and the key of an entry.
LEMMA Entries ==
    /\ \A k : /\ EntryOf(k).key = k
              /\ EntryOf(k).resource = directKeyComponents[k][1]
              /\ EntryOf(k).target = directKeyComponents[k][2]
    /\ \A k \in directRelationCache : EntryOf(k) \in CachedEntries
    /\ \A e \in CachedEntries : e.key \in directRelationCache /\ e = EntryOf(e.key)
<1>1. \A k : /\ EntryOf(k).key = k
             /\ EntryOf(k).resource = directKeyComponents[k][1]
             /\ EntryOf(k).target = directKeyComponents[k][2]
  BY DEF EntryOf
<1>. QED  BY <1>1 DEF CachedEntries

\* An entry lies where its key is listed.
LEMMA EntryIsListed ==
    ASSUME IInv, NEW e \in CachedEntries
    PROVE  /\ e.key \in Keys
           /\ e.resource \in Resources
           /\ e.target \in Targets
           /\ directResourcesIndex[e.resource][e.target][e.key] > 0
           /\ directTargetsIndex[e.target][e.resource][e.key] > 0
<1>1. e.key \in directRelationCache /\ e = EntryOf(e.key)
  BY Entries
<1>2. PICK r \in Resources, t \in Targets :
          /\ directKeyComponents[e.key] = <<r, t>>
          /\ directResourcesIndex[r][t][e.key] > 0
          /\ directTargetsIndex[t][r][e.key] > 0
  BY <1>1 DEF IInv, CachedKeysAreIndexed
<1>3. e.resource = r /\ e.target = t
  <2>1. e.resource = directKeyComponents[e.key][1] /\ e.target = directKeyComponents[e.key][2]
    BY <1>1, Entries
  <2>. QED  BY <1>2, <2>1
<1>. QED  BY <1>1, <1>2, <1>3 DEF IInv, TypeOK

\* The keys of the entries are the cached keys.
LEMMA KeysOfEntries ==
    /\ Store!KeysOf(CachedEntries) = directRelationCache
    /\ Store!KeysOf(CachedEntries') = directRelationCache'
<1>1. Store!KeysOf(CachedEntries) = directRelationCache
  BY Entries DEF Store!KeysOf
<1>2. /\ \A k \in directRelationCache' : EntryOf(k)' \in CachedEntries' /\ EntryOf(k)'.key = k
      /\ \A e \in CachedEntries' : \E k \in directRelationCache' : e = EntryOf(k)'
  BY DEF CachedEntries, EntryOf
<1>3. Store!KeysOf(CachedEntries') = directRelationCache'
  BY <1>2 DEF Store!KeysOf
<1>. QED  BY <1>1, <1>3

\* The cardinality that SweptStore speaks of is the one of FiniteSets.
LEMMA SameCardinality == \A S : Store!Cardinality(S) = Cardinality(S)
BY DEF Store!Cardinality, Cardinality

\* What SweptStore calls a key is what the cache calls a key.
LEMMA SameKeys == \A r : Store!key(r) = key(r)
BY DEF Store!key, key

\* A step that leaves the components of a key alone leaves its entry alone.
LEMMA SameEntry ==
    ASSUME NEW k, directKeyComponents'[k] = directKeyComponents[k]
    PROVE  EntryOf(k)' = EntryOf(k)
BY DEF EntryOf

LEMMA SweepStep ==
    ASSUME IInv, NEW R \in SUBSET Resources, NEW T \in SUBSET Targets,
           removeDirectRelations(R, T)
    PROVE  Store!Sweep(R, T)
<1>. DEFINE listed == KeysListedUnder(directResourcesIndex, R, Targets)
                          \cup KeysListedUnder(directTargetsIndex, T, Resources)
            gone == { e \in CachedEntries : e.key \in listed }
<1>1. CachedEntries' = CachedEntries \ gone
  <2>1. /\ directRelationCache' = directRelationCache \ listed
        /\ UNCHANGED directKeyComponents
    BY DEF removeDirectRelations
  <2>2. \A k : EntryOf(k)' = EntryOf(k)
    BY <2>1, SameEntry
  <2>3. CachedEntries' = { EntryOf(k) : k \in directRelationCache' }
    BY <2>2 DEF CachedEntries
  <2>. HIDE DEF listed
  <2>4. \A k : EntryOf(k).key = k
    BY Entries
  <2>. QED  BY <2>1, <2>3, <2>4 DEF CachedEntries
<1>2. Store!Swept(R, T) \subseteq gone
  <2>1. \A e \in CachedEntries : e.resource \in R \/ e.target \in T => e.key \in listed
    BY EntryIsListed DEF KeysListedUnder
  <2>. HIDE DEF listed
  <2>. QED  BY <2>1 DEF Store!Swept, Store!Concerns
<1>3. gone \subseteq Store!Reached(R, T)
  <2>. SUFFICES ASSUME NEW e \in gone
                PROVE  \E rel \in Relations :
                           e.key = key(rel) /\ (rel.resource \in R \/ rel.target \in T)
    BY SameKeys DEF Store!Reached, Store!Concerns
  <2>1. PICK r \in Resources, t \in Targets :
            /\ r \in R \/ t \in T
            /\ e.key \in Keys
            /\ directResourcesIndex[r][t][e.key] > 0 \/ directTargetsIndex[t][r][e.key] > 0
    BY DEF KeysListedUnder
  <2>2. IsPlaceOf(e.key, r, t)
    BY <2>1 DEF IInv, IndexesPlaceKeysRightly
  <2>. QED  BY <2>1, <2>2 DEF IsPlaceOf
<1>. HIDE DEF gone
<1>. QED  BY <1>1, <1>2, <1>3 DEF Store!Sweep

\* Storing rel leaves its entry and entries of other keys, as they were before.
LEMMA PutStep ==
    ASSUME IInv, NEW rel \in Relations, key(rel) \in directRelationCache',
           directRelationCache' \subseteq directRelationCache \cup {key(rel)},
           EntryOf(key(rel))' = Store!Entry(rel),
           \A k \in directRelationCache' : k # key(rel) => EntryOf(k)' = EntryOf(k),
           \/ /\ directRelationCache' = directRelationCache \cup {key(rel)}
              /\ Cardinality(directRelationCache') <= CacheSize
           \/ Cardinality(directRelationCache') = CacheSize
    PROVE  Store!Put({rel})
<1>. DEFINE new == { Store!key(r) : r \in {rel} }
            all == Store!KeysOf(CachedEntries) \cup new
            kept == Store!KeysOf(CachedEntries')
<1>1. new = {key(rel)}
  BY SameKeys
<1>2. kept = directRelationCache' /\ all = directRelationCache \cup {key(rel)}
  BY <1>1, KeysOfEntries
<1>3. \A e \in CachedEntries' : \E k \in directRelationCache' : e = EntryOf(k)' /\ e.key = k
  BY DEF CachedEntries, EntryOf
<1>4. \A e \in CachedEntries' :
          \/ e \in CachedEntries /\ e.key \notin new
          \/ \E r \in {rel} : e = Store!Entry(r)
  BY <1>1, <1>3, Entries
<1>5. \A e, f \in CachedEntries' : e.key = f.key => e = f
  BY <1>3
<1>6. \/ kept = all /\ Store!Cardinality(all) <= CacheSize
      \/ Store!Cardinality(kept) = CacheSize
  BY <1>2, SameCardinality
<1>7. new \subseteq kept
  BY <1>1, <1>2
<1>. HIDE DEF new, all, kept
<1>. QED  BY <1>4, <1>5, <1>6, <1>7 DEF Store!Put, new, all, kept

LEMMA AddStep ==
    ASSUME IInv, NEW rel \in Relations, addDirectRelation(rel)
    PROVE  Store!Put({rel})
<1>1. key(rel) \in Keys
  BY PartsOfRelations
<1>2. /\ directRelationCache' = directRelationCache \cup {key(rel)}
      /\ directKeyComponents' =
             [directKeyComponents EXCEPT ![key(rel)] = <<rel.resource, rel.target>>]
  BY DEF addDirectRelation, IndexKey
<1>3. /\ directKeyComponents'[key(rel)] = <<rel.resource, rel.target>>
      /\ \A k \in directRelationCache :
             k # key(rel) => directKeyComponents'[k] = directKeyComponents[k]
  BY <1>1, <1>2 DEF IInv, TypeOK
<1>4. EntryOf(key(rel))' = Store!Entry(rel)
  BY <1>3, SameKeys DEF EntryOf, Store!Entry
<1>5. \A k \in directRelationCache' : k # key(rel) => EntryOf(k)' = EntryOf(k)
  BY <1>2, <1>3, SameEntry
<1>6. CacheWithinSize'
  BY WithinSizeStep DEF IInv, Next
<1>. QED  BY <1>2, <1>4, <1>5, <1>6, PutStep DEF CacheWithinSize

LEMMA EvictStep ==
    ASSUME IInv, NEW rel \in Relations, NEW v \in directRelationCache,
           addDirectRelationEvicting(rel, v)
    PROVE  Store!Put({rel})
<1>1. key(rel) \in Keys /\ v \in Keys
  BY PartsOfRelations DEF IInv, TypeOK
<1>2. /\ key(rel) \notin directRelationCache
      /\ directRelationCache' = (directRelationCache \ {v}) \cup {key(rel)}
      /\ ~ (Cardinality(directRelationCache) < CacheSize)
      /\ directKeyComponents' = [[directKeyComponents EXCEPT ![v] = NoComponents]
                                    EXCEPT ![key(rel)] = <<rel.resource, rel.target>>]
  BY DEF addDirectRelationEvicting, AddFits, IndexKey
<1>3. /\ directKeyComponents'[key(rel)] = <<rel.resource, rel.target>>
      /\ \A k \in directRelationCache \ {v} :
             k # key(rel) => directKeyComponents'[k] = directKeyComponents[k]
  BY <1>1, <1>2 DEF IInv, TypeOK
<1>4. EntryOf(key(rel))' = Store!Entry(rel)
  BY <1>3, SameKeys DEF EntryOf, Store!Entry
<1>5. \A k \in directRelationCache' : k # key(rel) => EntryOf(k)' = EntryOf(k)
  BY <1>2, <1>3, SameEntry
<1>6. Cardinality(directRelationCache') = CacheSize
  <2>1. /\ IsFiniteSet(directRelationCache)
        /\ Cardinality(directRelationCache) \in Nat
        /\ Cardinality(directRelationCache) <= CacheSize
    BY FS_CardinalityType DEF IInv, CacheWithinSize
  <2>2. /\ IsFiniteSet(directRelationCache \ {v})
        /\ Cardinality(directRelationCache \ {v}) = Cardinality(directRelationCache) - 1
    BY <2>1, FS_RemoveElement
  <2>3. Cardinality(directRelationCache') = Cardinality(directRelationCache \ {v}) + 1
    BY <1>2, <2>2, FS_AddElement
  <2>. QED  BY <1>2, <2>1, <2>2, <2>3, CacheSizeAssumption
<1>. QED  BY <1>2, <1>4, <1>5, <1>6, PutStep

LEMMA StoreStep ==
    ASSUME IInv, [Next]_vars
    PROVE  [Store!Next]_CachedEntries
<1>1. CASE purgeDirectRelations
  BY <1>1 DEF purgeDirectRelations, CachedEntries, Store!Next, Store!Clear
<1>2. CASE UNCHANGED vars
  BY <1>2 DEF vars, CachedEntries, EntryOf
<1>3. \A rel \in Relations : {rel} \in SUBSET Relations
  OBVIOUS
<1>4. \A rel \in Relations : Store!Put({rel}) => Store!Next
  BY <1>3 DEF Store!Next
<1>. QED
  BY <1>1, <1>2, <1>4, AddStep, EvictStep, SweepStep
     DEF Next, Store!Next, Resources, Targets, Store!Resources, Store!Targets

(***************************************************************************)
(* The direct cache with its two indexes behaves like the bounded set of   *)
(* entries of SweptStore: a sweep removes every entry of the given         *)
(* resources and targets and none that has nothing to do with them, and an *)
(* addition removes at most one entry of another key, and only when the    *)
(* cache is full.  Tuples may share keys.                                  *)
(***************************************************************************)
THEOREM ImplementsSweptStore == Spec => StoreSpec
<1>1. Init => Store!Init
  BY DEF Init, Store!Init, CachedEntries
<1>2. IInv /\ [Next]_vars => [Store!Next]_CachedEntries
  BY StoreStep
<1>. QED  BY <1>1, <1>2, IInvInvariant, PTL DEF Spec, StoreSpec, Store!Spec

(***************************************************************************)
(* A sweep of the direct cache (a local write, a polled change) removes    *)
(* every key that was cached for its resources and targets, and no key     *)
(* that no tuple of them has, whatever the history of additions, evictions *)
(* and earlier sweeps has left in the indexes.                             *)
(***************************************************************************)
THEOREM ExactSweeps == Spec => SweepsAreExact
<1>1. IInv /\ [Next]_vars =>
          [\A R \in SUBSET Resources, T \in SUBSET Targets :
               removeDirectRelations(R, T) => Store!Sweep(R, T)]_vars
  BY SweepStep
<1>. QED  BY <1>1, IInvInvariant, PTL DEF Spec, SweepsAreExact

(***************************************************************************)
(* Where keys say what they are about, a sweep of the direct cache removes *)
(* exactly the keys that were cached for the resources and targets it is   *)
(* called for.                                                             *)
(***************************************************************************)
THEOREM DistinctKeysSweepExactly ==
    ASSUME KeysIdentifyPlaces, IInv,
           NEW R \in SUBSET Resources, NEW T \in SUBSET Targets,
           removeDirectRelations(R, T)
    PROVE  CachedEntries' = CachedEntries \ Store!Swept(R, T)
<1>1. PICK gone \in SUBSET Store!Reached(R, T) :
          Store!Swept(R, T) \subseteq gone /\ CachedEntries' = CachedEntries \ gone
  BY SweepStep DEF Store!Sweep
<1>2. ASSUME NEW e \in gone PROVE e \in Store!Swept(R, T)
  <2>1. PICK rel \in Relations :
            e.key = key(rel) /\ (rel.resource \in R \/ rel.target \in T)
    BY SameKeys DEF Store!Reached, Store!Concerns
  <2>2. e \in CachedEntries
    BY DEF Store!Reached
  <2>3. IsPlaceOf(e.key, e.resource, e.target)
    BY <2>2, EntryIsListed DEF IInv, IndexesPlaceKeysRightly
  <2>4. e.resource = rel.resource /\ e.target = rel.target
    BY <2>1, <2>3 DEF IsPlaceOf, KeysIdentifyPlaces
  <2>. QED  BY <2>1, <2>2, <2>4 DEF Store!Swept, Store!Concerns
<1>. QED  BY <1>1, <1>2

(***************************************************************************)
(* Keys say what they are about when no identifier contains a colon.       *)
(***************************************************************************)
THEOREM ColonFreeKeysIdentifyPlaces ==
    ASSUME NEW S,
           \A r \in Relations : /\ r.resource \in Seq(S) /\ Len(r.resource) = 1
                                /\ r.target \in Seq(S) /\ Len(r.target) = 1
                                /\ r.relation \in Seq(S)
    PROVE  KeysIdentifyPlaces
<1>1. ASSUME NEW a \in Seq(S), Len(a) = 1, NEW b \in Seq(S), Len(b) = 1, NEW c \in Seq(S)
      PROVE  a[1] = (a \o b \o c)[1] /\ b[1] = (a \o b \o c)[2]
  <2>1. ASSUME NEW s \in Seq(S), NEW t \in Seq(S), NEW i \in 1 .. Len(s) + Len(t)
        PROVE  /\ s \o t \in Seq(S)
               /\ Len(s \o t) = Len(s) + Len(t)
               /\ (s \o t)[i] = IF i <= Len(s) THEN s[i] ELSE t[i - Len(s)]
    BY ConcatProperties, Zenon
  <2>. DEFINE ab == a \o b
  <2>2. 1 \in 1 .. Len(a) + Len(b) /\ 2 \in 1 .. Len(a) + Len(b)
    BY <1>1
  <2>3. ab \in Seq(S) /\ Len(ab) = 2 /\ ab[1] = a[1] /\ ab[2] = b[1]
    <3>1. ab \in Seq(S) /\ Len(ab) = Len(a) + Len(b)
      BY <2>1, <2>2
    <3>2. ab[1] = IF 1 <= Len(a) THEN a[1] ELSE b[1 - Len(a)]
      BY <2>1, <2>2
    <3>3. ab[2] = IF 2 <= Len(a) THEN a[2] ELSE b[2 - Len(a)]
      BY <2>1, <2>2
    <3>. HIDE DEF ab
    <3>. QED  BY <1>1, <3>1, <3>2, <3>3
  <2>. HIDE DEF ab
  <2>4. Len(c) \in Nat
    OBVIOUS
  <2>5. 1 \in 1 .. Len(ab) + Len(c) /\ 2 \in 1 .. Len(ab) + Len(c)
    BY <2>3, <2>4
  <2>6. (ab \o c)[1] = ab[1] /\ (ab \o c)[2] = ab[2]
    BY <2>1, <2>3, <2>5
  <2>. QED  BY <2>3, <2>6 DEF ab
<1>2. \A r \in Relations : r.resource[1] = key(r)[1] /\ r.target[1] = key(r)[2]
  BY <1>1 DEF key
<1>3. \A a, b \in Seq(S) : Len(a) = 1 /\ Len(b) = 1 /\ a[1] = b[1] => a = b
  BY SeqEqual
<1>. QED  BY <1>2, <1>3 DEF KeysIdentifyPlaces

=============================================================================
