------------------------- MODULE LookupCache_proofs -------------------------
(***************************************************************************)
(* Proofs about LookupCache: type correctness, that a relation created     *)
(* through the cache is a candidate of the entries it was created under,   *)
(* that an omission ends with the TTL, and when the keys of the queries    *)
(* differ.                                                                 *)
(***************************************************************************)
EXTENDS LookupCache, SequenceTheorems, TLAPS

-----------------------------------------------------------------------------
(* Candidates and how they are read back.                                  *)

LEMMA QueriesOfRelation ==
    ASSUME NEW r \in Relations, NEW query \in QueriesOf(r)
    PROVE  /\ query \in Queries
           /\ lookupKey(query) \in Keys
           /\ Candidate(query, r) \in Candidates
BY DEF Queries, Keys, Candidates

\* The first element of a set of positions.
LEMMA FirstIs ==
    ASSUME NEW S \in SUBSET Nat, NEW n \in S, \A m \in S : n <= m
    PROVE  (CHOOSE i \in S : \A j \in S : i <= j) = n
<1> DEFINE i == CHOOSE i \in S : \A j \in S : i <= j
<1>1. i \in S /\ \A j \in S : i <= j
  OBVIOUS
<1>2. i <= n /\ n <= i /\ i \in Nat /\ n \in Nat
  BY <1>1
<1> QED
  BY <1>2

LEMMA Concat ==
    ASSUME NEW T, NEW x \in Seq(T), NEW y \in Seq(T)
    PROVE  /\ x \o y \in Seq(T)
           /\ Len(x) \in Nat /\ Len(x \o y) = Len(x) + Len(y)
           /\ \A i \in 1 .. Len(x) : (x \o y)[i] = x[i]
           /\ \A i \in 1 .. Len(y) : (x \o y)[Len(x) + i] = y[i]
<1>1. Len(x) \in Nat /\ Len(y) \in Nat
  BY LenProperties
<1>2. ASSUME NEW i \in 1 .. Len(y) PROVE (x \o y)[Len(x) + i] = y[i]
  <2>1. Len(x) + i \in 1 .. Len(x) + Len(y) /\ ~ (Len(x) + i <= Len(x))
        /\ Len(x) + i - Len(x) = i
    BY <1>1
  <2>2. (x \o y)[Len(x) + i] = y[Len(x) + i - Len(x)]
    BY <2>1, ConcatProperties
  <2> QED
    BY <2>1, <2>2
<1> QED
  BY <1>1, <1>2, ConcatProperties

LEMMA Single ==
    ASSUME NEW T, NEW bar \in T
    PROVE  /\ <<bar>> \in Seq(T) /\ Len(<<bar>>) = 1 /\ <<bar>>[1] = bar
           /\ 1 \in 1 .. Len(<<bar>>)
OBVIOUS

(***************************************************************************)
(* strings.SplitN undoes the encoding if the first two parts are free of   *)
(* the separator.                                                          *)
(***************************************************************************)
LEMMA SplitUndoesJoin ==
    ASSUME NEW T, NEW bar \in T, NEW a \in Seq(T), NEW b \in Seq(T),
           NEW c \in Seq(T),
           \A i \in DOMAIN a : a[i] # bar, \A i \in DOMAIN b : b[i] # bar
    PROVE  SplitIn3(a \o <<bar>> \o b \o <<bar>> \o c, bar) = <<a, b, c>>
<1> DEFINE s == a \o <<bar>> \o b \o <<bar>> \o c
           n == Len(a) + 1
           m == n + Len(b) + 1
           bars == { i \in DOMAIN s : s[i] = bar }
<1>0. /\ Len(a) \in Nat /\ Len(b) \in Nat /\ Len(c) \in Nat
      /\ n \in Nat /\ m \in Nat /\ n < m
      /\ DOMAIN a = 1 .. Len(a) /\ DOMAIN b = 1 .. Len(b)
  OBVIOUS
<1> HIDE DEF s, n, m
<1>1. /\ s \in Seq(T)
      /\ Len(s) = m + Len(c)
      /\ DOMAIN s = 1 .. m + Len(c)
      /\ \A i \in 1 .. Len(a) : s[i] = a[i]
      /\ s[n] = bar
      /\ \A i \in 1 .. Len(b) : s[n + i] = b[i]
      /\ s[m] = bar
      /\ \A i \in 1 .. Len(c) : s[m + i] = c[i]
  <2> DEFINE s1 == a \o <<bar>>
             s2 == s1 \o b
             s3 == s2 \o <<bar>>
  <2>1. s1 \in Seq(T) /\ Len(s1) = n
        /\ (\A i \in 1 .. Len(a) : s1[i] = a[i]) /\ s1[n] = bar
    BY Concat, Single DEF n
  <2> HIDE DEF s1
  <2>2. s2 \in Seq(T) /\ Len(s2) = n + Len(b)
        /\ (\A i \in 1 .. n : s2[i] = s1[i])
        /\ (\A i \in 1 .. Len(b) : s2[n + i] = b[i])
    <3>1. s2 \in Seq(T) /\ Len(s2) = n + Len(b)
      BY <2>1, Concat
    <3>2. \A i \in 1 .. n : s2[i] = s1[i]
      BY <2>1, Concat
    <3>3. \A i \in 1 .. Len(b) : s2[n + i] = b[i]
      BY <2>1, Concat
    <3> QED
      BY <3>1, <3>2, <3>3
  <2> HIDE DEF s2
  <2>3. s3 \in Seq(T) /\ Len(s3) = m
        /\ (\A i \in 1 .. n + Len(b) : s3[i] = s2[i]) /\ s3[m] = bar
    <3>1. Len(s2) + 1 = m
      BY <1>0, <2>2 DEF m
    <3> QED
      BY <2>2, <3>1, Concat, Single
  <2> HIDE DEF s3
  <2>4. (s3 \o c) \in Seq(T) /\ Len(s3 \o c) = m + Len(c)
        /\ (\A i \in 1 .. m : (s3 \o c)[i] = s3[i])
        /\ (\A i \in 1 .. Len(c) : (s3 \o c)[m + i] = c[i])
    <3>1. (s3 \o c) \in Seq(T) /\ Len(s3 \o c) = m + Len(c)
      BY <2>3, Concat
    <3>2. \A i \in 1 .. m : (s3 \o c)[i] = s3[i]
      BY <2>3, Concat
    <3>3. \A i \in 1 .. Len(c) : (s3 \o c)[m + i] = c[i]
      BY <2>3, Concat
    <3> QED
      BY <3>1, <3>2, <3>3
  <2>5. s = s3 \o c
    BY DEF s, s1, s2, s3
  <2>6. DOMAIN s = 1 .. m + Len(c)
    BY <2>4, <2>5
  <2>7. \A i \in 1 .. n + Len(b) : s[i] = s2[i]
    BY <1>0, <2>3, <2>4, <2>5 DEF m
  <2>8. \A i \in 1 .. n : s[i] = s1[i]
    BY <1>0, <2>2, <2>7
  <2>9. \A i \in 1 .. Len(a) : s[i] = a[i]
    BY <1>0, <2>1, <2>8 DEF n
  <2>10. s[n] = bar
    BY <1>0, <2>1, <2>8 DEF n
  <2>11. ASSUME NEW i \in 1 .. Len(b) PROVE s[n + i] = b[i]
    BY <1>0, <2>2, <2>7
  <2>12. s[m] = bar
    BY <1>0, <2>3, <2>4, <2>5 DEF m
  <2> QED
    BY <2>4, <2>5, <2>6, <2>9, <2>10, <2>11, <2>12
<1>2. n \in bars /\ m \in bars /\ bars \in SUBSET Nat
  BY <1>0, <1>1 DEF n, m
<1>3. \A i \in bars : n <= i
  <2> SUFFICES ASSUME NEW i \in bars, i < n PROVE FALSE
    BY <1>0, <1>2
  <2>1. i \in 1 .. Len(a)
    BY <1>0, <1>1 DEF n
  <2> QED
    BY <1>0, <1>1, <2>1
<1>4. \A i \in bars \ {n} : m <= i
  <2> SUFFICES ASSUME NEW i \in bars \ {n}, i < m PROVE FALSE
    BY <1>0, <1>2
  <2>1. i - n \in 1 .. Len(b) /\ i = n + (i - n)
    BY <1>0, <1>1, <1>3 DEF m, n
  <2>2. s[i] = b[i - n]
    BY <1>1, <2>1
  <2> QED
    BY <1>0, <2>1, <2>2
<1>5. SubSeq(s, 1, n - 1) = a
  BY <1>0, <1>1, SubSeqProperties, SeqEqual DEF n
<1>6. SubSeq(s, n + 1, m - 1) = b
  BY <1>0, <1>1 DEF m
<1>7. SubSeq(s, m + 1, Len(s)) = c
  BY <1>0, <1>1
<1>8. n = CHOOSE i \in bars : \A j \in bars : i <= j
  BY <1>2, <1>3, FirstIs
<1>9. m = CHOOSE i \in bars \ {n} : \A j \in bars \ {n} : i <= j
  <2>1. m \in bars \ {n} /\ bars \ {n} \in SUBSET Nat
    BY <1>0, <1>2
  <2> QED
    BY <1>4, <2>1, FirstIs
<1> QED
  BY <1>5, <1>6, <1>7, <1>8, <1>9 DEF s, SplitIn3

\* A relation whose names are free of "|" is read back from a pool that has its candidate.
LEMMA CandidateIsListed ==
    ASSUME NEW r \in Relations, NEW query \in QueriesOf(r), NEW results,
           IsReadBack(r), Candidate(query, r) \in results
    PROVE  Lists(query, results, r)
<1>0. PICK bar : bar = "|"
  BY Zenon
<1> DEFINE T == STRING \cup {bar}
<1>1. bar \in T /\ STRING \subseteq T
  OBVIOUS
<1>2. /\ r.resource \in Seq(T) /\ r.relation \in Seq(T)
      /\ r.namespace \in Seq(T)
  BY <1>1, RelationsAssumption, SeqMonotonic
<1>3. /\ \A i \in DOMAIN r.resource : r.resource[i] # bar
      /\ \A i \in DOMAIN r.relation : r.relation[i] # bar
  BY <1>0, Zenon DEF IsReadBack, PipeFree
<1> HIDE DEF T
<1>4. SplitIn3(r.resource \o <<bar>> \o r.relation \o <<bar>> \o r.namespace, bar)
          = <<r.resource, r.relation, r.namespace>>
  BY <1>1, <1>2, <1>3, SplitUndoesJoin
<1>5. Candidate(query, r) =
          IF IsWhoCanAccess(query) THEN r.target
          ELSE r.resource \o <<bar>> \o r.relation \o <<bar>> \o r.namespace
  BY <1>0, Zenon DEF Candidate
<1>6. Lists(query, results, r) <=>
          IF IsWhoCanAccess(query) THEN r.target \in results
          ELSE \E s \in results : SplitIn3(s, bar) = <<r.resource, r.relation, r.namespace>>
  BY <1>0, Zenon DEF Lists
<1> QED
  BY <1>4, <1>5, <1>6

-----------------------------------------------------------------------------
(* The inductive invariant.                                                *)

EntryAt(query) == lookupCache[lookupKey(query)]

\* An entry expires a TTL after it was cached, and was answered before.
EntryTimes ==
    \A k \in Keys : lookupCache[k] # NoEntry =>
        /\ lookupCache[k].expiresAt = lookupCache[k].cachedAt + TTL
        /\ lookupCache[k].answeredAt <= lookupCache[k].cachedAt
        /\ lookupCache[k].cachedAt <= clock

\* A request that waits for the backend or has its answer is about a query.
AskedIsQuery ==
    \A q \in Lookups : pc[q] \in {"asked", "answered"} => asked[q] \in Queries

\* What was created while an entry could be extended is in its pool.
CreatedIsInPool ==
    \A query \in QueriesOf(Observed) :
        /\ EntryAt(query) # NoEntry
        /\ created # Never
        /\ EntryAt(query).cachedAt < created /\ created < EntryAt(query).expiresAt
        => Candidate(query, Observed) \in EntryAt(query).results

\* An answer has what had access before it was given and has not lost it since.
AnswersCover ==
    \A q \in Lookups :
        /\ pc[q] = "answered" /\ asked[q] \in QueriesOf(Observed)
        /\ Observed \in access /\ since < answeredAt[q]
        => Candidate(asked[q], Observed) \in answer[q]

\* A pool has what had access before its answer was given and has not lost it since.
PoolsCover ==
    \A query \in QueriesOf(Observed) :
        /\ EntryAt(query) # NoEntry
        /\ Observed \in access /\ since < EntryAt(query).answeredAt
        => Candidate(query, Observed) \in EntryAt(query).results

IInv ==
    /\ TypeOK
    /\ AskedIsQuery
    /\ EntryTimes
    /\ CreatedIsInPool
    /\ AnswersCover
    /\ PoolsCover

-----------------------------------------------------------------------------
LEMMA ObservedQueries ==
    \A query \in QueriesOf(Observed) :
        /\ query \in Queries /\ lookupKey(query) \in Keys
        /\ Candidate(query, Observed) \in Candidates
BY QueriesOfRelation, ObservedAssumption

LEMMA InitIsGood == Init => IInv
<1> SUFFICES ASSUME Init PROVE IInv
  OBVIOUS
<1>1. TypeOK
  BY TimesAssumption DEF Init, TypeOK, EmptyLookups
<1>2. \A k \in Keys : lookupCache[k] = NoEntry
  BY DEF Init, EmptyLookups
<1>3. EntryTimes /\ CreatedIsInPool /\ PoolsCover
  BY <1>2, ObservedQueries DEF EntryTimes, CreatedIsInPool, PoolsCover, EntryAt
<1>4. AskedIsQuery /\ AnswersCover
  BY DEF Init, AskedIsQuery, AnswersCover, Requests
<1> QED
  BY <1>1, <1>3, <1>4 DEF IInv

\* Add of the LRU cache puts the entry in, and what else changes leaves.
LEMMA LRUAddEffect ==
    ASSUME TypeOK, NEW k \in Keys, NEW entry \in Entry, LRUAdd(k, entry)
    PROVE  /\ lookupCache' \in [Keys -> Entry \cup {NoEntry}]
           /\ \A j \in Keys : \/ lookupCache'[j] = lookupCache[j]
                              \/ lookupCache'[j] = NoEntry
                              \/ j = k /\ lookupCache'[j] = entry
BY DEF TypeOK, LRUAdd, Held

\* addToLookupCache changes no times, and takes nothing out of a pool.
LEMMA AddEffect ==
    ASSUME TypeOK, NEW rels \in SUBSET Relations, addToLookupCache(rels)
    PROVE  /\ lookupCache' \in [Keys -> Entry \cup {NoEntry}]
           /\ \A k \in Keys : lookupCache'[k] # NoEntry =>
                  /\ lookupCache[k] # NoEntry
                  /\ lookupCache'[k].cachedAt = lookupCache[k].cachedAt
                  /\ lookupCache'[k].expiresAt = lookupCache[k].expiresAt
                  /\ lookupCache'[k].answeredAt = lookupCache[k].answeredAt
                  /\ lookupCache[k].results \subseteq lookupCache'[k].results
                  /\ clock < lookupCache[k].expiresAt =>
                         Added(k, rels) \subseteq lookupCache'[k].results
<1>1. ASSUME NEW k \in Keys PROVE Added(k, rels) \subseteq Candidates
  BY QueriesOfRelation DEF Added
<1>2. ASSUME NEW k \in Keys, lookupCache[k] # NoEntry, clock < lookupCache[k].expiresAt
      PROVE  /\ lookupCache'[k] = [lookupCache[k] EXCEPT
                    !.results = lookupCache[k].results \cup Added(k, rels)]
             /\ lookupCache[k] \in Entry
             /\ lookupCache'[k] \in Entry
  BY <1>1, <1>2 DEF addToLookupCache, TypeOK, Entry
<1>3. ASSUME NEW k \in Keys,
             lookupCache[k] = NoEntry \/ ~ (clock < lookupCache[k].expiresAt)
      PROVE  lookupCache'[k] = lookupCache[k]
  BY <1>3 DEF addToLookupCache
<1>4. lookupCache' \in [Keys -> Entry \cup {NoEntry}]
  <2>1. lookupCache' = [k \in Keys |-> lookupCache'[k]]
    BY DEF addToLookupCache
  <2>2. ASSUME NEW k \in Keys PROVE lookupCache'[k] \in Entry \cup {NoEntry}
    BY <1>2, <1>3 DEF TypeOK
  <2> QED
    BY <2>1, <2>2
<1>5. ASSUME NEW k \in Keys, lookupCache'[k] # NoEntry
      PROVE  /\ lookupCache[k] # NoEntry
             /\ lookupCache'[k].cachedAt = lookupCache[k].cachedAt
             /\ lookupCache'[k].expiresAt = lookupCache[k].expiresAt
             /\ lookupCache'[k].answeredAt = lookupCache[k].answeredAt
             /\ lookupCache[k].results \subseteq lookupCache'[k].results
             /\ clock < lookupCache[k].expiresAt =>
                    Added(k, rels) \subseteq lookupCache'[k].results
  <2>1. CASE lookupCache[k] # NoEntry /\ clock < lookupCache[k].expiresAt
    <3>1. PICK e : e = lookupCache[k]
      OBVIOUS
    <3>2. e \in Entry /\ lookupCache'[k] = [e EXCEPT !.results = e.results \cup Added(k, rels)]
      BY <1>2, <2>1, <3>1
    <3>3. /\ lookupCache'[k].results = e.results \cup Added(k, rels)
          /\ lookupCache'[k].cachedAt = e.cachedAt
          /\ lookupCache'[k].expiresAt = e.expiresAt
          /\ lookupCache'[k].answeredAt = e.answeredAt
      BY <3>2 DEF Entry
    <3> QED
      BY <2>1, <3>1, <3>3
  <2>2. CASE lookupCache[k] = NoEntry \/ ~ (clock < lookupCache[k].expiresAt)
    BY <1>3, <1>5, <2>2
  <2> QED
    BY <2>1, <2>2
<1> QED
  BY <1>4, <1>5

-----------------------------------------------------------------------------
(* The steps.                                                              *)

\* A step that changes no pool and neither the past nor the present of Observed.
LEMMA PoolsUnchanged ==
    ASSUME IInv, UNCHANGED <<lookupCache, access, since, created>>, clock' \in Nat, clock <= clock'
    PROVE  EntryTimes' /\ CreatedIsInPool' /\ PoolsCover'
<1>1. EntryTimes'
  <2> SUFFICES ASSUME NEW k \in Keys, lookupCache[k] # NoEntry
               PROVE  /\ lookupCache[k].expiresAt = lookupCache[k].cachedAt + TTL
                      /\ lookupCache[k].answeredAt <= lookupCache[k].cachedAt
                      /\ lookupCache[k].cachedAt <= clock'
    BY DEF EntryTimes
  <2>1. lookupCache[k].cachedAt \in Nat /\ clock \in Nat
    BY DEF IInv, TypeOK, Entry
  <2> QED
    BY <2>1 DEF IInv, EntryTimes
<1> QED
  BY <1>1 DEF IInv, CreatedIsInPool, PoolsCover, EntryAt

LEMMA LookupMissesStep ==
    ASSUME IInv, NEW q \in Lookups, NEW query \in Queries, LookupMisses(q, query)
    PROVE  IInv'
<1>1. TypeOK'
  BY DEF IInv, TypeOK, LookupMisses, Goto, backendVars, Requests
<1>2. EntryTimes' /\ CreatedIsInPool' /\ PoolsCover'
  BY PoolsUnchanged DEF IInv, TypeOK, LookupMisses, backendVars
<1>3. AskedIsQuery'
  BY DEF IInv, TypeOK, AskedIsQuery, LookupMisses, Goto, Requests
<1>4. AnswersCover'
  BY DEF IInv, TypeOK, AnswersCover, LookupMisses, Goto, Requests, backendVars
<1> QED
  BY <1>1, <1>2, <1>3, <1>4 DEF IInv

LEMMA BackendListsStep ==
    ASSUME IInv, NEW q \in Lookups, BackendLists(q)
    PROVE  IInv'
<1> DEFINE listed == { Candidate(asked[q], r) :
                         r \in { s \in access : asked[q] \in QueriesOf(s) } }
<1>0. /\ asked[q] \in Queries
      /\ answer' = [answer EXCEPT ![q] = listed]
  BY DEF IInv, AskedIsQuery, BackendLists, Goto
<1>1. listed \subseteq Candidates
  BY <1>0 DEF IInv, TypeOK, Candidates
<1>2. TypeOK'
  BY <1>1 DEF IInv, TypeOK, BackendLists, Goto, backendVars, Requests
<1>3. EntryTimes' /\ CreatedIsInPool' /\ PoolsCover'
  BY PoolsUnchanged DEF IInv, TypeOK, BackendLists, backendVars
<1>4. AskedIsQuery'
  BY DEF IInv, TypeOK, AskedIsQuery, BackendLists, Goto, Requests
<1>5. AnswersCover'
  <2> SUFFICES ASSUME NEW x \in Lookups, pc'[x] = "answered",
                      asked[x] \in QueriesOf(Observed), Observed \in access,
                      since < answeredAt'[x]
               PROVE  Candidate(asked[x], Observed) \in answer'[x]
    BY DEF AnswersCover, BackendLists, backendVars
  <2>1. CASE x = q
    BY <1>0, <2>1 DEF IInv, TypeOK
  <2>2. CASE x # q
    BY <2>2 DEF IInv, TypeOK, AnswersCover, BackendLists, Goto, Requests
  <2> QED
    BY <2>1, <2>2
<1> QED
  BY <1>2, <1>3, <1>4, <1>5 DEF IInv

LEMMA BackendFailsToListStep ==
    ASSUME IInv, NEW q \in Lookups, BackendFailsToList(q)
    PROVE  IInv'
<1>1. TypeOK'
  BY DEF IInv, TypeOK, BackendFailsToList, Goto, backendVars, Requests
<1>2. EntryTimes' /\ CreatedIsInPool' /\ PoolsCover'
  BY PoolsUnchanged DEF IInv, TypeOK, BackendFailsToList, backendVars
<1>3. AskedIsQuery'
  BY DEF IInv, TypeOK, AskedIsQuery, BackendFailsToList, Goto, Requests
<1>4. AnswersCover'
  BY DEF IInv, TypeOK, AnswersCover, BackendFailsToList, Goto, Requests, backendVars
<1> QED
  BY <1>1, <1>2, <1>3, <1>4 DEF IInv

LEMMA CachesLookupStep ==
    ASSUME IInv, NEW q \in Lookups, CachesLookup(q)
    PROVE  IInv'
<1> DEFINE k == lookupKey(asked[q])
           entry == [results |-> answer[q], cachedAt |-> clock,
                     expiresAt |-> clock + TTL, answeredAt |-> answeredAt[q]]
<1>0. /\ pc[q] = "answered" /\ asked[q] \in Queries /\ k \in Keys
      /\ clock \in Nat /\ TTL \in Nat /\ answeredAt[q] \in 0..clock
      /\ created \in 0..clock \cup {Never}
      /\ UNCHANGED <<clock, access, since, created>>
  BY TimesAssumption
     DEF IInv, TypeOK, AskedIsQuery, CachesLookup, Goto, Keys, backendVars
<1>1. entry \in Entry
  BY <1>0 DEF IInv, TypeOK, Entry
<1>2. SetCached(asked[q], answer[q], answeredAt[q])
  BY DEF CachesLookup
<1>3. /\ lookupCache' \in [Keys -> Entry \cup {NoEntry}]
      /\ \A j \in Keys : \/ lookupCache'[j] = lookupCache[j]
                         \/ lookupCache'[j] = NoEntry
                         \/ j = k /\ lookupCache'[j] = entry
  <2>1. UNCHANGED lookupCache \/ LRUAdd(k, entry)
    BY <1>2 DEF SetCached
  <2>2. CASE UNCHANGED lookupCache
    BY <2>2 DEF IInv, TypeOK
  <2>3. CASE LRUAdd(k, entry)
    <3> HIDE DEF k, entry
    <3> QED
      BY <1>0, <1>1, <2>3, LRUAddEffect DEF IInv
  <2> QED
    BY <2>1, <2>2, <2>3
<1>4. TypeOK'
  BY <1>3 DEF IInv, TypeOK, CachesLookup, Goto, backendVars, Requests
<1>5. EntryTimes'
  BY <1>0, <1>3 DEF IInv, EntryTimes
<1>6. CreatedIsInPool'
  BY <1>0, <1>3, ObservedQueries DEF IInv, CreatedIsInPool, EntryAt
<1>7. PoolsCover'
  <2> SUFFICES ASSUME NEW query \in QueriesOf(Observed), EntryAt(query)' # NoEntry,
                      Observed \in access, since < EntryAt(query)'.answeredAt
               PROVE  Candidate(query, Observed) \in EntryAt(query)'.results
    BY <1>0 DEF PoolsCover
  <2>0. query \in Queries /\ lookupKey(query) \in Keys
    BY ObservedQueries
  <2>1. CASE EntryAt(query)' = EntryAt(query)
    BY <2>1 DEF IInv, PoolsCover
  <2>2. CASE lookupKey(query) = k /\ EntryAt(query)' = entry
    <3>1. query = asked[q]
      BY <1>0, <2>0, <2>2, KeysAssumption DEF LookupKeysIdentifyQueries
    <3> QED
      BY <1>0, <2>2, <3>1 DEF IInv, AnswersCover
  <2> QED
    BY <1>3, <2>0, <2>1, <2>2 DEF EntryAt
<1>8. AskedIsQuery'
  BY DEF IInv, TypeOK, AskedIsQuery, CachesLookup, Goto, Requests
<1>9. AnswersCover'
  BY DEF IInv, TypeOK, AnswersCover, CachesLookup, Goto, Requests, backendVars
<1> QED
  BY <1>4, <1>5, <1>6, <1>7, <1>8, <1>9 DEF IInv

\* Access that begins now began after every answer there is.
LEMMA AccessBecomesEffect ==
    ASSUME IInv, NEW rels \in SUBSET Relations, AccessBecomes(rels),
           UNCHANGED <<lookupCache, clock, created, answer, answeredAt, asked>>,
           \A q \in Lookups : pc'[q] = pc[q]
    PROVE  /\ access' \in SUBSET Relations /\ since' \in 0..clock
           /\ AskedIsQuery' /\ EntryTimes' /\ CreatedIsInPool'
           /\ AnswersCover' /\ PoolsCover'
<1>1. access' \in SUBSET Relations /\ since' \in 0..clock
  BY DEF AccessBecomes, IInv, TypeOK
<1>2. AskedIsQuery' /\ EntryTimes' /\ CreatedIsInPool'
  BY DEF IInv, AskedIsQuery, EntryTimes, CreatedIsInPool, EntryAt
<1>3. Observed \in access' =>
          \/ Observed \in access /\ since' = since
          \/ since' = clock
  BY DEF AccessBecomes
<1>4. AnswersCover'
  BY <1>3 DEF IInv, TypeOK, AnswersCover
<1>5. PoolsCover'
  <2> SUFFICES ASSUME NEW query \in QueriesOf(Observed), EntryAt(query) # NoEntry,
                      Observed \in access', since' < EntryAt(query).answeredAt
               PROVE  Candidate(query, Observed) \in EntryAt(query).results
    BY DEF PoolsCover, EntryAt
  <2>1. /\ EntryAt(query).answeredAt <= EntryAt(query).cachedAt
        /\ EntryAt(query).cachedAt <= clock
        /\ EntryAt(query).answeredAt \in Nat /\ EntryAt(query).cachedAt \in Nat
        /\ clock \in Nat
    BY ObservedQueries DEF IInv, TypeOK, Entry, EntryTimes, EntryAt
  <2>2. since' # clock
    BY <2>1
  <2> QED
    BY <1>3, <2>2 DEF IInv, PoolsCover
<1> QED
  BY <1>1, <1>2, <1>4, <1>5

LEMMA BackendCreatesStep ==
    ASSUME IInv, NEW q \in Writes, NEW r \in Relations, BackendCreates(q, {r})
    PROVE  IInv'
<1>1. /\ AccessBecomes(access \cup {r}) /\ access \cup {r} \in SUBSET Relations
      /\ UNCHANGED <<lookupCache, clock, created, answer, answeredAt, asked>>
      /\ \A x \in Lookups : pc'[x] = pc[x]
  BY RequestsAssumption DEF IInv, TypeOK, BackendCreates, Goto, lookupVars, Requests
<1>2. /\ access' \in SUBSET Relations /\ since' \in 0..clock
      /\ AskedIsQuery' /\ EntryTimes' /\ CreatedIsInPool'
      /\ AnswersCover' /\ PoolsCover'
  BY <1>1, AccessBecomesEffect
<1>3. TypeOK'
  BY <1>1, <1>2 DEF IInv, TypeOK, BackendCreates, Goto, Requests
<1> QED
  BY <1>2, <1>3 DEF IInv

LEMMA ChangeByOthersStep == IInv /\ ChangeByOthers => IInv'
<1> SUFFICES ASSUME IInv, ChangeByOthers PROVE IInv'
  OBVIOUS
<1>1. PICK rels \in SUBSET Relations : AccessBecomes(rels)
  BY DEF ChangeByOthers
<1>2. /\ access' \in SUBSET Relations /\ since' \in 0..clock
      /\ AskedIsQuery' /\ EntryTimes' /\ CreatedIsInPool'
      /\ AnswersCover' /\ PoolsCover'
  BY <1>1, AccessBecomesEffect DEF ChangeByOthers, lookupVars
<1>3. TypeOK'
  BY <1>2 DEF IInv, TypeOK, ChangeByOthers, lookupVars
<1> QED
  BY <1>2, <1>3 DEF IInv

LEMMA AddsCreatedStep ==
    ASSUME IInv, NEW q \in Writes, AddsCreated(q)
    PROVE  IInv'
<1>0. /\ written[q] \in SUBSET Relations /\ addToLookupCache(written[q])
      /\ UNCHANGED <<clock, access, since, asked, answer, answeredAt>>
      /\ clock \in Nat /\ created \in 0..clock \cup {Never}
      /\ \A x \in Lookups : pc'[x] = pc[x]
  BY RequestsAssumption
     DEF IInv, TypeOK, AddsCreated, Goto, backendVars, lookupVars, Requests
<1>1. /\ lookupCache' \in [Keys -> Entry \cup {NoEntry}]
      /\ \A k \in Keys : lookupCache'[k] # NoEntry =>
             /\ lookupCache[k] # NoEntry
             /\ lookupCache'[k].cachedAt = lookupCache[k].cachedAt
             /\ lookupCache'[k].expiresAt = lookupCache[k].expiresAt
             /\ lookupCache'[k].answeredAt = lookupCache[k].answeredAt
             /\ lookupCache[k].results \subseteq lookupCache'[k].results
             /\ clock < lookupCache[k].expiresAt =>
                    Added(k, written[q]) \subseteq lookupCache'[k].results
  BY <1>0, AddEffect DEF IInv
<1>2. TypeOK'
  BY <1>0, <1>1 DEF IInv, TypeOK, AddsCreated, Goto, Requests
<1>3. EntryTimes'
  BY <1>0, <1>1 DEF IInv, EntryTimes
<1>4. CreatedIsInPool'
  <2> SUFFICES ASSUME NEW query \in QueriesOf(Observed), EntryAt(query)' # NoEntry,
                      created' # Never, EntryAt(query)'.cachedAt < created',
                      created' < EntryAt(query)'.expiresAt
               PROVE  Candidate(query, Observed) \in EntryAt(query)'.results
    BY DEF CreatedIsInPool
  <2>0. lookupKey(query) \in Keys
    BY ObservedQueries
  <2>1. CASE Observed \in written[q]
    <3>1. clock < lookupCache[lookupKey(query)].expiresAt
      BY <1>1, <2>0, <2>1 DEF AddsCreated, EntryAt
    <3>2. Candidate(query, Observed) \in Added(lookupKey(query), written[q])
      BY <2>1 DEF Added
    <3> QED
      BY <1>1, <2>0, <3>1, <3>2 DEF EntryAt
  <2>2. CASE Observed \notin written[q]
    <3>1. created' = created
      BY <2>2 DEF AddsCreated
    <3> QED
      BY <1>1, <2>0, <3>1 DEF IInv, CreatedIsInPool, EntryAt
  <2> QED
    BY <2>1, <2>2
<1>5. PoolsCover'
  BY <1>0, <1>1, ObservedQueries DEF IInv, PoolsCover, EntryAt
<1>6. AskedIsQuery' /\ AnswersCover'
  BY <1>0 DEF IInv, AskedIsQuery, AnswersCover
<1> QED
  BY <1>2, <1>3, <1>4, <1>5, <1>6 DEF IInv

LEMMA PurgeStep == IInv /\ Purge => IInv'
<1> SUFFICES ASSUME IInv, Purge PROVE IInv'
  OBVIOUS
<1>1. TypeOK'
  BY DEF IInv, TypeOK, Purge, EmptyLookups, backendVars, lookupVars
<1>2. \A k \in Keys : lookupCache'[k] = NoEntry
  BY DEF Purge, EmptyLookups
<1>3. EntryTimes' /\ CreatedIsInPool' /\ PoolsCover'
  BY <1>2, ObservedQueries DEF EntryTimes, CreatedIsInPool, PoolsCover, EntryAt
<1>4. AskedIsQuery' /\ AnswersCover'
  BY DEF IInv, AskedIsQuery, AnswersCover, Purge, backendVars, lookupVars
<1> QED
  BY <1>1, <1>3, <1>4 DEF IInv

LEMMA TickStep == IInv /\ Tick => IInv'
<1> SUFFICES ASSUME IInv, Tick PROVE IInv'
  OBVIOUS
<1>1. TypeOK'
  BY TimesAssumption DEF IInv, TypeOK, Tick, backendVars, lookupVars
<1>2. EntryTimes' /\ CreatedIsInPool' /\ PoolsCover'
  BY PoolsUnchanged DEF IInv, TypeOK, Tick, backendVars
<1>3. AskedIsQuery' /\ AnswersCover'
  BY DEF IInv, AskedIsQuery, AnswersCover, Tick, backendVars, lookupVars
<1> QED
  BY <1>1, <1>2, <1>3 DEF IInv

LEMMA InductiveInvariant == Spec => []IInv
<1>1. IInv /\ [Next]_vars => IInv'
  <2> SUFFICES ASSUME IInv, [Next]_vars PROVE IInv'
    OBVIOUS
  <2>1. ASSUME NEW q \in Lookups, NEW query \in Queries, LookupMisses(q, query)
        PROVE  IInv'
    BY <2>1, LookupMissesStep
  <2>2. ASSUME NEW q \in Lookups, BackendLists(q) PROVE IInv'
    BY <2>2, BackendListsStep
  <2>3. ASSUME NEW q \in Lookups, BackendFailsToList(q) PROVE IInv'
    BY <2>3, BackendFailsToListStep
  <2>4. ASSUME NEW q \in Lookups, CachesLookup(q) PROVE IInv'
    BY <2>4, CachesLookupStep
  <2>5. ASSUME NEW q \in Writes, NEW r \in Relations, BackendCreates(q, {r})
        PROVE  IInv'
    BY <2>5, BackendCreatesStep
  <2>6. ASSUME NEW q \in Writes, AddsCreated(q) PROVE IInv'
    BY <2>6, AddsCreatedStep
  <2>7. CASE UNCHANGED vars
    <3>1. UNCHANGED <<lookupCache, clock, access, since, created, pc, asked, answer,
                      answeredAt, written>>
      BY <2>7 DEF vars, backendVars, lookupVars
    <3> QED
      BY <3>1 DEF IInv, TypeOK, AskedIsQuery, EntryTimes, CreatedIsInPool,
         AnswersCover, PoolsCover, EntryAt
  <2> QED
    BY <2>1, <2>2, <2>3, <2>4, <2>5, <2>6, <2>7, ChangeByOthersStep, PurgeStep,
       TickStep DEF Next
<1> QED
  BY InitIsGood, <1>1, PTL DEF Spec

-----------------------------------------------------------------------------
(***************************************************************************)
(* Type correctness of the lookup cache and of the requests that use it.   *)
(***************************************************************************)
THEOREM TypeCorrect == Spec => []TypeOK
<1>1. IInv => TypeOK
  BY DEF IInv
<1> QED
  BY InductiveInvariant, <1>1, PTL

(***************************************************************************)
(* Whatever the sizes, the TTL and the other requests are, a relation that *)
(* was created through the cache stays a candidate of the entries that     *)
(* were held and not expired at that time.                                 *)
(***************************************************************************)
THEOREM LocalCreationsAreListed == Spec => []CreatedAreCandidates
<1>1. IInv => CreatedAreCandidates
  BY CandidateIsListed, ObservedAssumption
     DEF IInv, CreatedIsInPool, CreatedAreCandidates, EntryAt, IsServed
<1> QED
  BY InductiveInvariant, <1>1, PTL

(***************************************************************************)
(* A served pool omits nothing whose access began more than a TTL ago and  *)
(* lasted: a pool is served for a TTL after its answer, which has what had *)
(* access then.                                                            *)
(***************************************************************************)
THEOREM NothingIsOmittedForLong == Spec => []OmissionsEndWithTTL
<1>1. IInv => OmissionsEndWithTTL
  <2> SUFFICES ASSUME IInv, NEW query \in QueriesOf(Observed), Observed \in access,
                      IsReadBack(Observed), IsServed(query), since + TTL < clock,
                      EntryAt(query).answeredAt = EntryAt(query).cachedAt
               PROVE  Lists(query, EntryAt(query).results, Observed)
    BY DEF OmissionsEndWithTTL, EntryAt
  <2>1. EntryAt(query) # NoEntry /\ clock <= EntryAt(query).expiresAt
    BY DEF IsServed, EntryAt
  <2>2. EntryAt(query) \in Entry
    BY <2>1, ObservedQueries DEF IInv, TypeOK, EntryAt
  <2>3. EntryAt(query).expiresAt = EntryAt(query).cachedAt + TTL
    BY <2>1, ObservedQueries DEF IInv, EntryTimes, EntryAt
  <2>4. since < EntryAt(query).answeredAt
    BY <2>1, <2>2, <2>3, TimesAssumption DEF IInv, TypeOK, Entry
  <2>5. Candidate(query, Observed) \in EntryAt(query).results
    BY <2>1, <2>4 DEF IInv, PoolsCover
  <2> QED
    BY <2>5, CandidateIsListed, ObservedAssumption
<1> QED
  BY InductiveInvariant, <1>1, PTL

-----------------------------------------------------------------------------
(* The keys of queries.                                                    *)

Lacks(s, sep) == \A i \in DOMAIN s : s[i] # sep

\* The elements of a sequence with a separator between its parts.
LEMMA Separated ==
    ASSUME NEW T, NEW sep \in T, NEW x \in Seq(T), NEW y \in Seq(T)
    PROVE  /\ Len(x) \in Nat /\ Len(y) \in Nat /\ DOMAIN y = 1 .. Len(y)
           /\ Len((x \o <<sep>>) \o y) = Len(x) + 1 + Len(y)
           /\ \A i \in 1 .. Len(x) : ((x \o <<sep>>) \o y)[i] = x[i]
           /\ ((x \o <<sep>>) \o y)[Len(x) + 1] = sep
           /\ \A i \in 1 .. Len(y) : ((x \o <<sep>>) \o y)[Len(x) + 1 + i] = y[i]
<1> DEFINE xs == x \o <<sep>>
<1>1. /\ xs \in Seq(T) /\ Len(x) \in Nat /\ Len(xs) = Len(x) + 1
      /\ \A i \in 1 .. Len(x) : xs[i] = x[i]
      /\ xs[Len(x) + 1] = sep
  BY Concat, Single
<1>2. Len(y) \in Nat /\ DOMAIN y = 1 .. Len(y)
  OBVIOUS
<1> HIDE DEF xs
<1>3. Len(xs \o y) = Len(xs) + Len(y)
  BY <1>1, Concat
<1>4. \A i \in 1 .. Len(xs) : (xs \o y)[i] = xs[i]
  BY <1>1, Concat
<1>5. \A i \in 1 .. Len(y) : (xs \o y)[Len(xs) + i] = y[i]
  BY <1>1, Concat
<1>6. \A i \in 1 .. Len(x) : (xs \o y)[i] = x[i]
  BY <1>1, <1>4
<1>7. (xs \o y)[Len(x) + 1] = sep
  BY <1>1, <1>4
<1> QED
  BY <1>1, <1>2, <1>3, <1>5, <1>6, <1>7 DEF xs

\* A sequence around a separator determines its parts if the last one is free of it.
LEMMA LastPart ==
    ASSUME NEW T, NEW sep \in T, NEW a \in Seq(T), NEW b \in Seq(T), NEW c \in Seq(T),
           NEW d \in Seq(T), Lacks(b, sep), Lacks(d, sep),
           (a \o <<sep>>) \o b = (c \o <<sep>>) \o d
    PROVE  a = c /\ b = d
<1> DEFINE s == (a \o <<sep>>) \o b
           na == Len(a)
           nb == Len(b)
           nc == Len(c)
           nd == Len(d)
<1>1. /\ na \in Nat /\ nb \in Nat /\ DOMAIN b = 1 .. nb
      /\ Len(s) = na + 1 + nb
      /\ \A i \in 1 .. na : s[i] = a[i]
      /\ s[na + 1] = sep
      /\ \A i \in 1 .. nb : s[na + 1 + i] = b[i]
  BY Separated
<1> DEFINE t == (c \o <<sep>>) \o d
<1>2. /\ nc \in Nat /\ nd \in Nat /\ DOMAIN d = 1 .. nd
      /\ Len(t) = nc + 1 + nd
      /\ \A i \in 1 .. nc : t[i] = c[i]
      /\ t[nc + 1] = sep
      /\ \A i \in 1 .. nd : t[nc + 1 + i] = d[i]
  BY Separated
<1>3. t = s
  OBVIOUS
<1> HIDE DEF s, t, na, nb, nc, nd
<1>4. ~ (na < nc)
  <2> SUFFICES ASSUME na < nc PROVE FALSE
    OBVIOUS
  <2> DEFINE i == nc - na
  <2>1. i \in 1 .. nb /\ na + 1 + i = nc + 1
    BY <1>1, <1>2, <1>3
  <2> HIDE DEF i
  <2>2. b[i] = s[nc + 1]
    BY <1>1, <2>1
  <2>3. b[i] # sep
    BY <1>1, <2>1 DEF Lacks
  <2> QED
    BY <1>2, <1>3, <2>2, <2>3
<1>5. ~ (nc < na)
  <2> SUFFICES ASSUME nc < na PROVE FALSE
    OBVIOUS
  <2> DEFINE i == na - nc
  <2>1. i \in 1 .. nd /\ nc + 1 + i = na + 1
    BY <1>1, <1>2, <1>3
  <2> HIDE DEF i
  <2>2. d[i] = t[na + 1]
    BY <1>2, <2>1
  <2>3. d[i] # sep
    BY <1>2, <2>1 DEF Lacks
  <2> QED
    BY <1>1, <1>3, <2>2, <2>3
<1>6. na = nc
  BY <1>1, <1>2, <1>4, <1>5
<1>7. nb = nd
  BY <1>1, <1>2, <1>3, <1>6
<1>8. a = c
  <2>1. \A i \in 1 .. na : a[i] = c[i]
    BY <1>1, <1>2, <1>3, <1>6
  <2> QED
    BY <1>6, <2>1, SeqEqual DEF na, nc
<1>9. b = d
  <2>1. \A i \in 1 .. nb : b[i] = d[i]
    BY <1>1, <1>2, <1>3, <1>6, <1>7
  <2> QED
    BY <1>7, <2>1, SeqEqual DEF nb, nd
<1> QED
  BY <1>8, <1>9

\* A sequence after a given beginning is determined.
LEMMA AfterPrefix ==
    ASSUME NEW T, NEW p \in Seq(T), NEW a \in Seq(T), NEW b \in Seq(T), p \o a = p \o b
    PROVE  a = b
<1>1. /\ Len(p) \in Nat /\ Len(a) \in Nat /\ Len(b) \in Nat
      /\ Len(p \o a) = Len(p) + Len(a) /\ Len(p \o b) = Len(p) + Len(b)
      /\ \A i \in 1 .. Len(a) : (p \o a)[Len(p) + i] = a[i]
      /\ \A i \in 1 .. Len(b) : (p \o b)[Len(p) + i] = b[i]
  BY Concat
<1>2. Len(a) = Len(b)
  BY <1>1
<1> QED
  BY <1>1, <1>2, SeqEqual

(***************************************************************************)
(* The keys of whoCanAccessKey and whatCanTargetAccessKey tell all queries *)
(* apart, which KeysAssumption says, if no relation and no type is named   *)
(* with a colon.  The resources and targets may have any names.  The proof *)
(* does not use KeysAssumption.                                            *)
(***************************************************************************)
THEOREM ColonFreeNamesIdentifyQueries ==
    ASSUME \A r \in Relations : Lacks(r.relation, ":") /\ Lacks(r.namespace, ":")
    PROVE  LookupKeysIdentifyQueries
<1> DEFINE colon == ":"
           Tokens == STRING \cup {":", "wca", "wcta"}
<1>1. /\ colon \in Tokens /\ "wca" \in Tokens /\ "wcta" \in Tokens
      /\ \A x \in STRING : x \in Tokens
  OBVIOUS
<1> HIDE DEF Tokens
<1>2. /\ <<colon>> \in Seq(Tokens)
      /\ <<"wca", ":">> \in Seq(Tokens) /\ <<"wcta", ":">> \in Seq(Tokens)
      /\ Len(<<"wca", ":">>) = 2 /\ <<"wca", ":">>[1] = "wca"
      /\ Len(<<"wcta", ":">>) = 2 /\ <<"wcta", ":">>[1] = "wcta"
  BY <1>1
<1>3. ASSUME NEW r \in Relations
      PROVE  /\ r.resource \in Seq(Tokens) /\ r.relation \in Seq(Tokens)
             /\ r.namespace \in Seq(Tokens) /\ r.target \in Seq(Tokens)
  <2>1. ASSUME NEW x \in Seq(STRING) PROVE x \in Seq(Tokens)
    BY <1>1, <2>1, SeqMonotonic
  <2> QED
    BY <2>1, RelationsAssumption
<1> HIDE DEF colon
<1> DEFINE Join(a, b) == (a \o <<colon>>) \o b
<1>4. \A a, b, c, d \in Seq(Tokens) :
          Lacks(b, colon) /\ Lacks(d, colon) /\ Join(a, b) = Join(c, d) => a = c /\ b = d
  <2> TAKE a, b, c, d \in Seq(Tokens)
  <2> HAVE Lacks(b, colon) /\ Lacks(d, colon) /\ Join(a, b) = Join(c, d)
  <2> QED
    BY <1>1, LastPart
<1>5. \A a, b \in Seq(Tokens) : Join(a, b) \in Seq(Tokens)
  BY <1>2, Concat
<1> HIDE DEF Join
<1>6. ASSUME NEW r \in Relations, NEW s \in Relations,
             lookupKey(WhoCanAccess(r)) = lookupKey(WhoCanAccess(s))
      PROVE  WhoCanAccess(r) = WhoCanAccess(s)
  <2> DEFINE named(x) == <<"wca", ":">> \o x.resource
             related(x) == Join(named(x), x.relation)
  <2>1. ASSUME NEW x \in Relations
        PROVE  /\ named(x) \in Seq(Tokens)
               /\ related(x) \in Seq(Tokens)
               /\ Lacks(x.relation, colon) /\ Lacks(x.namespace, colon)
    BY <1>2, <1>3, <1>5, Concat DEF colon
  <2>2. Join(related(r), r.namespace) = Join(related(s), s.namespace)
    BY <1>6 DEF lookupKey, WhoCanAccess, IsWhoCanAccess, Join, colon
  <2> HIDE DEF named, related
  <2>4. related(r) = related(s) /\ r.namespace = s.namespace
    <3>1. /\ related(r) \in Seq(Tokens) /\ r.namespace \in Seq(Tokens)
          /\ related(s) \in Seq(Tokens) /\ s.namespace \in Seq(Tokens)
          /\ Lacks(r.namespace, colon)
          /\ Lacks(s.namespace, colon)
      BY <1>3, <2>1
    <3> QED
      BY <1>4, <2>2, <3>1
  <2>5. Join(named(r), r.relation) = Join(named(s), s.relation)
    BY <2>4 DEF related
  <2>6. named(r) = named(s) /\ r.relation = s.relation
    <3>1. /\ named(r) \in Seq(Tokens) /\ r.relation \in Seq(Tokens)
          /\ named(s) \in Seq(Tokens) /\ s.relation \in Seq(Tokens)
          /\ Lacks(r.relation, colon)
          /\ Lacks(s.relation, colon)
      BY <1>3, <2>1
    <3> QED
      BY <1>4, <2>5, <3>1
  <2>7. r.resource = s.resource
    BY <1>2, <1>3, <2>6, AfterPrefix DEF named
  <2> QED
    BY <2>4, <2>6, <2>7 DEF WhoCanAccess
<1>7. ASSUME NEW r \in Relations, NEW s \in Relations,
             lookupKey(WhatCanTargetAccess(r)) = lookupKey(WhatCanTargetAccess(s))
      PROVE  WhatCanTargetAccess(r) = WhatCanTargetAccess(s)
  <2>1. <<"wcta", ":">> \o r.target = <<"wcta", ":">> \o s.target
    BY <1>7 DEF lookupKey, WhatCanTargetAccess, IsWhoCanAccess
  <2>2. r.target = s.target
    BY <1>2, <1>3, <2>1, AfterPrefix
  <2> QED
    BY <2>2 DEF WhatCanTargetAccess
<1>8. ASSUME NEW r \in Relations, NEW s \in Relations
      PROVE  lookupKey(WhoCanAccess(r)) # lookupKey(WhatCanTargetAccess(s))
  <2>1. lookupKey(WhoCanAccess(r))[1] = "wca"
    <3> DEFINE p == <<"wca", ":">>
    <3>1. /\ p \o r.resource \in Seq(Tokens)
          /\ Len(p \o r.resource) = 2 + Len(r.resource) /\ Len(r.resource) \in Nat
          /\ (p \o r.resource)[1] = p[1]
      BY <1>2, <1>3, Concat
    <3> DEFINE q == p \o r.resource
               t == q \o <<":">>
               u == t \o r.relation
               v == u \o <<":">>
    <3> HIDE DEF p
    <3>2. ASSUME NEW x \in Seq(Tokens), Len(x) > 0, NEW y \in Seq(Tokens)
          PROVE  x \o y \in Seq(Tokens) /\ Len(x \o y) > 0 /\ (x \o y)[1] = x[1]
      BY <3>2, Concat
    <3>3. q \in Seq(Tokens) /\ Len(q) > 0 /\ q[1] = "wca"
      BY <1>2, <3>1 DEF p
    <3> HIDE DEF q
    <3>4. t \in Seq(Tokens) /\ Len(t) > 0 /\ t[1] = "wca"
      BY <1>2, <3>2, <3>3
    <3> HIDE DEF t
    <3>5. u \in Seq(Tokens) /\ Len(u) > 0 /\ u[1] = "wca"
      BY <1>3, <3>2, <3>4
    <3> HIDE DEF u
    <3>6. v \in Seq(Tokens) /\ Len(v) > 0 /\ v[1] = "wca"
      BY <1>2, <3>2, <3>5
    <3> HIDE DEF v
    <3>7. (v \o r.namespace)[1] = "wca"
      BY <1>3, <3>2, <3>6
    <3>8. lookupKey(WhoCanAccess(r)) = v \o r.namespace
      BY DEF lookupKey, WhoCanAccess, IsWhoCanAccess, p, q, t, u, v
    <3> QED
      BY <3>7, <3>8
  <2>2. lookupKey(WhatCanTargetAccess(s))[1] = "wcta"
    <3>1. lookupKey(WhatCanTargetAccess(s)) = <<"wcta", ":">> \o s.target
      BY DEF lookupKey, WhatCanTargetAccess, IsWhoCanAccess
    <3>2. (<<"wcta", ":">> \o s.target)[1] = <<"wcta", ":">>[1]
      BY <1>2, <1>3, Concat
    <3> QED
      BY <1>2, <3>1, <3>2
  <2> QED
    BY <2>1, <2>2
<1>9. \A query \in Queries : \E r \in Relations :
          query = WhoCanAccess(r) \/ query = WhatCanTargetAccess(r)
  BY DEF Queries, QueriesOf
<1> QED
  BY <1>6, <1>7, <1>8, <1>9 DEF LookupKeysIdentifyQueries

=============================================================================
