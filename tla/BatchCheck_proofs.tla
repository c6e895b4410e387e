-------------------------- MODULE BatchCheck_proofs --------------------------
(***************************************************************************)
(* Proofs about BatchCheck: every relation of a batch gets its own result, *)
(* the result is the backend's, and a lookup keeps the allowed candidates. *)
(***************************************************************************)
EXTENDS BatchCheck, SequenceTheorems, TLAPS

\* a is an answer to r that the backend would give as well.
Good(a, r, context, f) ==
    /\ a.relation = r
    /\ \E s \in SameKey(r) : a.allowed = Allowed(s, context, f)

\* A cached grant is a path of some relation with its key, and used no facts.
Sound(cache) ==
    \A k \in Keys : cache[k] # NoGrant =>
        \E s \in Relations : key(s) = k /\
            \E path \in Paths[s] :
                /\ path.whenFact = BOOLEAN
                /\ cache[k].allowed = path.allowed
                /\ cache[k].trueConds = path.trueConds
                /\ cache[k].falseConds = path.falseConds

CachesAreSound == Sound(directRelationCache) /\ Sound(indirectRelationCache)

(***************************************************************************)
(* f says where in the batch the k-th unchecked relation stood: unchecked  *)
(* lists, in order, the positions up to n that the index leaves out.       *)
(***************************************************************************)
Placed(f, n) ==
    /\ f \in [1 .. Len(unchecked) -> 1 .. n]
    /\ \A k, l \in 1 .. Len(unchecked) : k < l => f[k] < f[l]
    /\ \A k \in 1 .. Len(unchecked) :
           f[k] \notin DOMAIN indexToCheck /\ unchecked[k] = relations[f[k]]
    /\ \A m \in 1 .. n : m \in DOMAIN indexToCheck
                         \/ \E k \in 1 .. Len(unchecked) : f[k] = m

\* The fetched results before j belong to the positions before i.
Merged(f) ==
    pc = "merging" => \A k \in 1 .. Len(unchecked) : k < j <=> f[k] < i

Progress == IF pc = "splitting" THEN i - 1 ELSE Len(relations)

SplitIsExact ==
    pc \in {"splitting", "asked", "answered", "merging"} =>
        \E f : Placed(f, Progress) /\ Merged(f)

IndexIsGood ==
    /\ pc = "splitting" => DOMAIN indexToCheck \subseteq 1 .. i - 1
    /\ \A m \in DOMAIN indexToCheck :
           Good(indexToCheck[m], relations[m], extraContext, fact)

\* As long as nothing is left for the backend, checks answers the batch.
ChecksAreGood ==
    pc = "splitting" /\ unchecked = <<>> =>
        /\ Len(checks) = i - 1
        /\ \A m \in 1 .. i - 1 : Good(checks[m], relations[m], extraContext, fact)

FetchedMatches ==
    pc \in {"answered", "merging"} =>
        /\ Len(sdkChecks) = Len(unchecked)
        /\ \A n \in 1 .. Len(unchecked) :
               sdkChecks[n] \in BackendResults(unchecked[n], extraContext, fact)

ResultIsGood ==
    /\ pc = "merging" => Len(result) = i - 1
    /\ pc \in {"checked", "filtered"} =>
           Len(result) = Len(relations) /\ j = Len(sdkChecks) + 1
    /\ \A m \in 1 .. Len(result) :
           Good(result[m], relations[m], extraContext, fact)

Kept == { verified[n] : n \in 1 .. Len(verified) }

KeptAreAllowed ==
    pc \in {"checked", "filtered"} =>
        Kept = { relations[m] : m \in { l \in 1 .. i - 1 : result[l].allowed } }

\* What the request has not come to yet is in its initial state.
NotYet ==
    /\ pc \in {"idle", "asked", "answered"} => i = 1
    /\ pc \notin {"merging", "checked", "filtered"} => j = 1 /\ result = <<>>
    /\ pc \in {"idle", "splitting", "asked"} => sdkChecks = <<>>
    /\ pc \notin {"checked", "filtered"} => verified = <<>>
    /\ pc = "idle" => checks = <<>> /\ unchecked = <<>> /\ indexToCheck = <<>>
    /\ pc = "filtered" => i = Len(relations) + 1

IInv ==
    /\ TypeOK
    /\ CachesAreSound
    /\ NotYet
    /\ SplitIsExact
    /\ IndexIsGood
    /\ ChecksAreGood
    /\ FetchedMatches
    /\ ResultIsGood
    /\ KeptAreAllowed

-----------------------------------------------------------------------------
(* What decides.                                                           *)

LEMMA KeyOfRelation == \A r \in Relations : key(r) \in Keys
BY DEF Keys

\* A path that decides says what the backend says.
LEMMA DecidingPathIsRight ==
    ASSUME NEW s \in Relations, NEW path \in Paths[s], NEW context \in Contexts,
           NEW f \in BOOLEAN, Decides(path, context, f)
    PROVE  path.allowed = Allowed(s, context, f)
<1>1. path \in DecidingPaths(s, context, f)
  BY DEF DecidingPaths
<1>2. path.allowed \in BOOLEAN
  BY PathsAssumption DEF Path
<1>3. \A q \in DecidingPaths(s, context, f) : q.allowed = path.allowed
  BY <1>1, PathsAgree
<1>4. Allowed(s, context, f) <=> path.allowed
  BY <1>1, <1>3 DEF Allowed
<1> QED
  BY <1>2, <1>4 DEF Allowed

\* A grant that is served decides as its path would.
LEMMA ServedGrantIsGood ==
    ASSUME TypeOK, CachesAreSound, NEW r \in Relations,
           CachedGrant(key(r)) # NoGrant,
           Conditional(CachedGrant(key(r))) => certMatches(CachedGrant(key(r)))
    PROVE  Good([relation |-> r, allowed |-> CachedGrant(key(r)).allowed], r,
                extraContext, fact)
<1> DEFINE g == CachedGrant(key(r))
<1>0. PICK s \in Relations :
          key(s) = key(r) /\
              \E path \in Paths[s] :
                  /\ path.whenFact = BOOLEAN
                  /\ g.allowed = path.allowed
                  /\ g.trueConds = path.trueConds
                  /\ g.falseConds = path.falseConds
  BY KeyOfRelation DEF CachesAreSound, Sound, CachedGrant
<1>1. PICK path \in Paths[s] :
          /\ path.whenFact = BOOLEAN
          /\ g.allowed = path.allowed
          /\ g.trueConds = path.trueConds
          /\ g.falseConds = path.falseConds
  BY <1>0
<1>2. \A c \in path.trueConds : Outcome(c, extraContext) = "true"
  BY <1>1 DEF Conditional, certMatches, conditionsEvalTo, Eval
<1>3. \A c \in path.falseConds : Outcome(c, extraContext) = "false"
  BY <1>1 DEF Conditional, certMatches, conditionsEvalTo, Eval
<1>4. Decides(path, extraContext, fact)
  BY <1>1, <1>2, <1>3 DEF Decides, TypeOK
<1>5. path.allowed = Allowed(s, extraContext, fact)
  BY <1>4, DecidingPathIsRight DEF TypeOK
<1>6. s \in SameKey(r)
  BY <1>0 DEF SameKey
<1> QED
  BY <1>1, <1>5, <1>6 DEF Good

LEMMA BackendResultIsGood ==
    ASSUME NEW r \in Relations, NEW context \in Contexts, NEW f \in BOOLEAN,
           NEW c \in BackendResults(r, context, f)
    PROVE  /\ c \in CheckResult
           /\ Good(AnswerOf(c), r, context, f)
           /\ IsCacheable(c) =>
                  \E path \in Paths[r] :
                      /\ path.whenFact = BOOLEAN
                      /\ c.allowed = path.allowed
                      /\ c.trueConds = path.trueConds
                      /\ c.falseConds = path.falseConds
<1>1. r \in SameKey(r)
  BY DEF SameKey
<1>2. CASE DecidingPaths(r, context, f) # {}
  <2>1. PICK path \in DecidingPaths(r, context, f) :
            c = [relation |-> r, allowed |-> path.allowed,
                 direct |-> path.direct, factUsed |-> path.whenFact # BOOLEAN,
                 missing |-> FALSE, trueConds |-> path.trueConds,
                 falseConds |-> path.falseConds]
    BY <1>2 DEF BackendResults
  <2>2. path \in Paths[r] /\ Decides(path, context, f)
    BY DEF DecidingPaths
  <2>3. path \in Path
    BY <2>2, PathsAssumption
  <2>4. path.allowed = Allowed(r, context, f)
    BY <2>2, DecidingPathIsRight
  <2>5. c \in CheckResult
    BY <2>1, <2>3 DEF CheckResult, Path
  <2>6. Good(AnswerOf(c), r, context, f)
    BY <1>1, <2>1, <2>4 DEF Good, AnswerOf
  <2>7. IsCacheable(c) => path.whenFact = BOOLEAN
    BY <2>1 DEF IsCacheable
  <2> QED
    BY <2>1, <2>2, <2>5, <2>6, <2>7
<1>3. CASE DecidingPaths(r, context, f) = {}
  <2>1. c = [relation |-> r, allowed |-> FALSE, direct |-> TRUE,
             factUsed |-> FALSE, missing |-> TRUE,
             trueConds |-> WithOutcome("true", context),
             falseConds |-> WithOutcome("false", context)]
    BY <1>3 DEF BackendResults
  <2>2. Allowed(r, context, f) = FALSE
    BY <1>3 DEF Allowed
  <2>3. c \in CheckResult
    BY <2>1 DEF CheckResult, WithOutcome
  <2>4. Good(AnswerOf(c), r, context, f)
    BY <1>1, <2>1, <2>2 DEF Good, AnswerOf
  <2> QED
    BY <2>1, <2>3, <2>4 DEF IsCacheable
<1> QED
  BY <1>2, <1>3

-----------------------------------------------------------------------------
(* The invariant.                                                          *)

LEMMA NothingIsPlaced ==
    ASSUME unchecked = <<>>
    PROVE  Placed(<<>>, 0)
BY DEF Placed

LEMMA InitIsGood == Init => IInv
<1> SUFFICES ASSUME Init PROVE IInv
  OBVIOUS
<1> USE DEF Init
<1>1. TypeOK
  BY DEF TypeOK, EmptyCache
<1>2. CachesAreSound
  BY DEF CachesAreSound, Sound, EmptyCache
<1>3. NotYet
  BY DEF NotYet
<1>4. SplitIsExact /\ FetchedMatches /\ ChecksAreGood /\ KeptAreAllowed
  BY DEF SplitIsExact, FetchedMatches, ChecksAreGood, KeptAreAllowed
<1>5. IndexIsGood /\ ResultIsGood
  BY DEF IndexIsGood, ResultIsGood
<1> QED
  BY <1>1, <1>2, <1>3, <1>4, <1>5 DEF IInv

LEMMA AsksStep ==
    ASSUME IInv, NEW batch \in Batches, NEW context \in Contexts,
           Asks(batch, context)
    PROVE  IInv'
<1> USE DEF Asks, IInv
<1>1. TypeOK'
  BY BatchesAssumption DEF TypeOK, caches, split, NotYet
<1>2. CachesAreSound'
  BY DEF CachesAreSound, Sound, caches
<1>3. NotYet'
  BY DEF NotYet, caches, split
<1>4. SplitIsExact'
  <2>1. Placed(<<>>, 0)'
    BY DEF NotYet, split, Placed
  <2>2. Progress' = 0
    BY DEF Progress, NotYet
  <2> QED
    BY <2>1, <2>2 DEF SplitIsExact, Merged
<1>5. IndexIsGood' /\ ResultIsGood'
  BY DEF IndexIsGood, ResultIsGood, NotYet, split
<1>6. ChecksAreGood' /\ FetchedMatches' /\ KeptAreAllowed'
  BY DEF ChecksAreGood, FetchedMatches, KeptAreAllowed, NotYet, split
<1> QED
  BY <1>1, <1>2, <1>3, <1>4, <1>5, <1>6

LEMMA HitsStep == IInv /\ Hits => IInv'
<1> SUFFICES ASSUME IInv, Hits PROVE IInv'
  OBVIOUS
<1> DEFINE r == relations[i]
           check == [relation |-> r, allowed |-> CachedGrant(key(r)).allowed]
<1>0. /\ pc = "splitting" /\ pc' = pc
      /\ i \in Nat \ {0} /\ i \in 1 .. Len(relations) /\ i' = i + 1
      /\ r \in Relations
      /\ checks' = Append(checks, check)
      /\ indexToCheck' = [n \in DOMAIN indexToCheck \cup {i} |->
                              IF n = i THEN check ELSE indexToCheck[n]]
      /\ UNCHANGED <<caches, fact, relations, extraContext, j, unchecked,
                     sdkChecks, result, verified>>
  BY DEF Hits, IInv, TypeOK
<1>1. Good(check, r, extraContext, fact)
  BY <1>0, ServedGrantIsGood DEF Hits, IInv
<1>2. check \in Answer
  <2>1. CachedGrant(key(r)) \in Grant
    BY <1>0, KeyOfRelation DEF Hits, CachedGrant, IInv, TypeOK
  <2> QED
    BY <1>0, <2>1 DEF Answer, Grant
<1> HIDE DEF check
<1>3. TypeOK'
  <2>1. checks' \in Seq(Answer)
    BY <1>0, <1>2 DEF IInv, TypeOK
  <2>2. /\ DOMAIN indexToCheck' \subseteq DOMAIN relations
        /\ indexToCheck' \in [DOMAIN indexToCheck' -> Answer]
    BY <1>0, <1>2 DEF IInv, TypeOK
  <2> QED
    BY <1>0, <2>1, <2>2 DEF IInv, TypeOK, caches
<1>4. CachesAreSound'
  BY <1>0 DEF IInv, CachesAreSound, Sound, caches
<1>5. NotYet'
  BY <1>0 DEF IInv, NotYet
<1>6. SplitIsExact'
  <2>1. PICK f : Placed(f, i - 1)
    BY <1>0 DEF IInv, SplitIsExact, Progress
  <2>2. i \notin DOMAIN indexToCheck
    BY <1>0 DEF IInv, IndexIsGood
  <2>3. Placed(f, i - 1)'
    <3>1. DOMAIN indexToCheck' = DOMAIN indexToCheck \cup {i} /\ i' - 1 = i
      BY <1>0
    <3>2. /\ f \in [1 .. Len(unchecked) -> 1 .. i - 1]
          /\ \A k, l \in 1 .. Len(unchecked) : k < l => f[k] < f[l]
          /\ \A k \in 1 .. Len(unchecked) :
                 f[k] \notin DOMAIN indexToCheck /\ unchecked[k] = relations[f[k]]
      BY <2>1 DEF Placed
    <3>3. /\ f \in [1 .. Len(unchecked) -> 1 .. i]
          /\ \A k \in 1 .. Len(unchecked) : f[k] # i
      BY <1>0, <3>2
    <3>4. ASSUME NEW m \in 1 .. i
          PROVE  m \in DOMAIN indexToCheck \cup {i}
                 \/ \E k \in 1 .. Len(unchecked) : f[k] = m
      BY <1>0, <2>1 DEF Placed
    <3> QED
      BY <1>0, <3>1, <3>2, <3>3, <3>4 DEF Placed
  <2>4. Progress' = i' - 1
    BY <1>0 DEF Progress
  <2> QED
    BY <1>0, <2>3, <2>4 DEF SplitIsExact, Merged, Placed
<1>7. IndexIsGood'
  BY <1>0, <1>1 DEF IInv, IndexIsGood
<1>8. ChecksAreGood'
  <2> SUFFICES ASSUME unchecked = <<>>
               PROVE  /\ Len(checks') = i
                      /\ \A m \in 1 .. i :
                             Good(checks'[m], relations[m], extraContext, fact)
    BY <1>0 DEF ChecksAreGood
  <2>1. /\ Len(checks) = i - 1 /\ checks \in Seq(Answer)
        /\ \A m \in 1 .. i - 1 : Good(checks[m], relations[m], extraContext, fact)
    BY <1>0 DEF IInv, ChecksAreGood, TypeOK
  <2>2. /\ Len(checks') = i /\ checks'[i] = check
        /\ \A m \in 1 .. i - 1 : checks'[m] = checks[m]
    BY <1>0, <2>1
  <2> QED
    BY <1>0, <1>1, <2>1, <2>2
<1>9. FetchedMatches' /\ ResultIsGood' /\ KeptAreAllowed'
  BY <1>0 DEF IInv, FetchedMatches, ResultIsGood, KeptAreAllowed, NotYet
<1> QED
  BY <1>3, <1>4, <1>5, <1>6, <1>7, <1>8, <1>9 DEF IInv

LEMMA MissesStep == IInv /\ Misses => IInv'
<1> SUFFICES ASSUME IInv, Misses PROVE IInv'
  OBVIOUS
<1>0. /\ pc = "splitting" /\ pc' = pc
      /\ i \in Nat \ {0} /\ i \in 1 .. Len(relations) /\ i' = i + 1
      /\ relations[i] \in Relations
      /\ unchecked \in Seq(Relations)
      /\ unchecked' = Append(unchecked, relations[i])
      /\ UNCHANGED <<caches, fact, relations, extraContext, j, checks,
                     indexToCheck, sdkChecks, result, verified>>
  BY DEF Misses, IInv, TypeOK
<1>1. TypeOK'
  <2>1. unchecked' \in Seq(Relations) /\ i' \in 1 .. Len(relations) + 1
    BY <1>0
  <2> QED
    BY <1>0, <2>1 DEF IInv, TypeOK, caches
<1>2. CachesAreSound'
  BY <1>0 DEF IInv, CachesAreSound, Sound, caches
<1>3. NotYet'
  BY <1>0 DEF IInv, NotYet
<1>4. SplitIsExact'
  <2> DEFINE n == Len(unchecked)
  <2>1. PICK f : Placed(f, i - 1)
    BY <1>0 DEF IInv, SplitIsExact, Progress
  <2>2. i \notin DOMAIN indexToCheck
    BY <1>0 DEF IInv, IndexIsGood
  <2> PICK g : g = [k \in 1 .. n + 1 |-> IF k = n + 1 THEN i ELSE f[k]]
    OBVIOUS
  <2>3. /\ n \in Nat
        /\ Len(unchecked') = n + 1
        /\ unchecked'[n + 1] = relations[i]
        /\ \A k \in 1 .. n : unchecked'[k] = unchecked[k]
    BY <1>0
  <2>4. g \in [1 .. n + 1 -> 1 .. i]
    BY <1>0, <2>1, <2>3 DEF Placed
  <2>5. \A k, l \in 1 .. n + 1 : k < l => g[k] < g[l]
    <3>1. \A k \in 1 .. n : f[k] \in 1 .. i - 1
      BY <2>1 DEF Placed
    <3>2. \A k, l \in 1 .. n : k < l => f[k] < f[l]
      BY <2>1 DEF Placed
    <3> SUFFICES ASSUME NEW k \in 1 .. n + 1, NEW l \in 1 .. n + 1, k < l
                 PROVE  g[k] < g[l]
      OBVIOUS
    <3>3. k \in 1 .. n /\ g[k] = f[k] /\ f[k] \in 1 .. i - 1
      BY <2>3, <3>1
    <3>4. CASE l = n + 1
      BY <1>0, <3>3, <3>4
    <3>5. CASE l # n + 1
      BY <2>3, <3>2, <3>3, <3>5
    <3> QED
      BY <3>4, <3>5
  <2>6. \A k \in 1 .. n + 1 :
            g[k] \notin DOMAIN indexToCheck /\ unchecked'[k] = relations[g[k]]
    BY <2>1, <2>2, <2>3 DEF Placed
  <2>7. \A m \in 1 .. i : m \in DOMAIN indexToCheck
                           \/ \E k \in 1 .. n + 1 : g[k] = m
    <3> SUFFICES ASSUME NEW m \in 1 .. i, m \notin DOMAIN indexToCheck
                 PROVE  \E k \in 1 .. n + 1 : g[k] = m
      OBVIOUS
    <3>1. CASE m = i
      BY <3>1, <2>3
    <3>2. CASE m # i
      <4>1. PICK k \in 1 .. n : f[k] = m
        BY <3>2, <1>0, <2>1 DEF Placed
      <4> QED
        BY <4>1, <2>3
    <3> QED
      BY <3>1, <3>2
  <2>8. Placed(g, i - 1)'
    <3>1. Len(unchecked)' = n + 1 /\ i' - 1 = i
      BY <1>0, <2>3
    <3> HIDE DEF n
    <3> QED
      BY <3>1, <1>0, <2>3, <2>4, <2>5, <2>6, <2>7 DEF Placed
  <2>9. Progress' = i' - 1
    BY <1>0 DEF Progress
  <2> QED
    BY <1>0, <2>8, <2>9 DEF SplitIsExact, Merged
<1>5. IndexIsGood'
  BY <1>0 DEF IInv, IndexIsGood
<1>6. ChecksAreGood'
  <2>1. Len(unchecked') = Len(unchecked) + 1 /\ Len(unchecked) \in Nat
    BY <1>0
  <2> QED
    BY <2>1 DEF ChecksAreGood
<1>7. FetchedMatches' /\ ResultIsGood' /\ KeptAreAllowed'
  BY <1>0 DEF IInv, FetchedMatches, ResultIsGood, KeptAreAllowed, NotYet
<1> QED
  BY <1>1, <1>2, <1>3, <1>4, <1>5, <1>6, <1>7 DEF IInv

LEMMA SplitEndsStep == IInv /\ SplitEnds => IInv'
<1> SUFFICES ASSUME IInv, SplitEnds PROVE IInv'
  OBVIOUS
<1>0. /\ pc = "splitting"
      /\ Len(relations) \in Nat /\ i = Len(relations) + 1 /\ i' = 1
      /\ UNCHANGED <<caches, fact, relations, extraContext, j, split,
                     sdkChecks, verified>>
      /\ sdkChecks = <<>> /\ j = 1 /\ result = <<>> /\ verified = <<>>
  BY DEF SplitEnds, IInv, TypeOK, NotYet
<1>1. CASE unchecked = <<>>
  <2>1. pc' = "checked" /\ result' = checks
    BY <1>1 DEF SplitEnds
  <2>2. /\ Len(checks) = Len(relations)
        /\ \A m \in 1 .. Len(relations) :
               Good(checks[m], relations[m], extraContext, fact)
    BY <1>0, <1>1 DEF IInv, ChecksAreGood
  <2>3. TypeOK'
    BY <1>0, <2>1 DEF IInv, TypeOK, caches, split
  <2>4. CachesAreSound' /\ NotYet' /\ SplitIsExact' /\ IndexIsGood'
    BY <1>0, <2>1 DEF IInv, CachesAreSound, Sound, caches, split, NotYet,
       SplitIsExact, IndexIsGood
  <2>5. ChecksAreGood' /\ FetchedMatches' /\ ResultIsGood'
    BY <1>0, <2>1, <2>2 DEF ChecksAreGood, FetchedMatches, ResultIsGood
  <2>6. KeptAreAllowed'
    BY <1>0, <2>1 DEF KeptAreAllowed, Kept
  <2> QED
    BY <2>3, <2>4, <2>5, <2>6 DEF IInv
<1>2. CASE unchecked # <<>>
  <2>1. pc' = "asked" /\ result' = result
    BY <1>2 DEF SplitEnds
  <2>2. TypeOK'
    BY <1>0, <2>1 DEF IInv, TypeOK, caches, split
  <2>3. CachesAreSound' /\ NotYet' /\ IndexIsGood'
    BY <1>0, <2>1 DEF IInv, CachesAreSound, Sound, caches, split, NotYet,
       IndexIsGood
  <2>4. SplitIsExact'
    <3>1. PICK f : Placed(f, i - 1)
      BY <1>0 DEF IInv, SplitIsExact, Progress
    <3>2. Progress' = Len(relations)' /\ i - 1 = Len(relations)'
      BY <1>0, <2>1 DEF Progress
    <3>3. Placed(f, Progress)'
      BY <1>0, <3>1, <3>2 DEF Placed, split
    <3> QED
      BY <2>1, <3>3 DEF SplitIsExact, Merged
  <2>5. ChecksAreGood' /\ FetchedMatches' /\ ResultIsGood' /\ KeptAreAllowed'
    BY <1>0, <2>1 DEF ChecksAreGood, FetchedMatches, ResultIsGood,
       KeptAreAllowed
  <2> QED
    BY <2>2, <2>3, <2>4, <2>5 DEF IInv
<1> QED
  BY <1>1, <1>2

LEMMA BackendChecksStep == IInv /\ BackendChecks => IInv'
<1> SUFFICES ASSUME IInv, BackendChecks PROVE IInv'
  OBVIOUS
<1>0. /\ pc = "asked" /\ pc' = "answered"
      /\ unchecked \in Seq(Relations)
      /\ UNCHANGED <<caches, fact, relations, extraContext, i, j, split,
                     result, verified>>
      /\ i = 1 /\ j = 1 /\ result = <<>> /\ verified = <<>>
      /\ DOMAIN sdkChecks' = 1 .. Len(unchecked)
      /\ \A n \in 1 .. Len(unchecked) :
             sdkChecks'[n] \in BackendResults(unchecked[n], extraContext, fact)
  <2>1. unchecked \in Seq(Relations) /\ DOMAIN unchecked = 1 .. Len(unchecked)
    BY DEF IInv, TypeOK
  <2>2. PICK S : \E s \in [DOMAIN unchecked -> S] :
            /\ \A n \in DOMAIN unchecked :
                   s[n] \in BackendResults(unchecked[n], extraContext, fact)
            /\ sdkChecks' = s
    BY DEF BackendChecks
  <2>3. PICK s \in [DOMAIN unchecked -> S] :
            /\ \A n \in DOMAIN unchecked :
                   s[n] \in BackendResults(unchecked[n], extraContext, fact)
            /\ sdkChecks' = s
    BY <2>2
  <2>4. /\ pc = "asked" /\ pc' = "answered"
        /\ UNCHANGED <<caches, fact, relations, extraContext, i, j, split,
                       result, verified>>
    BY DEF BackendChecks
  <2>5. i = 1 /\ j = 1 /\ result = <<>> /\ verified = <<>>
    BY <2>4 DEF IInv, NotYet
  <2> QED
    BY <2>1, <2>3, <2>4, <2>5
<1>1. \A n \in 1 .. Len(unchecked) : sdkChecks'[n] \in CheckResult
  BY <1>0, BackendResultIsGood DEF IInv, TypeOK
<1>2. sdkChecks' \in Seq(CheckResult) /\ Len(sdkChecks') = Len(unchecked)
  <2>1. sdkChecks' \in [1 .. Len(unchecked) -> CheckResult]
    <3>1. sdkChecks' = [n \in 1 .. Len(unchecked) |-> sdkChecks'[n]]
      BY DEF BackendChecks
    <3> QED
      BY <1>1, <3>1
  <2> QED
    BY <1>0, <2>1
<1>3. TypeOK'
  BY <1>0, <1>2 DEF IInv, TypeOK, caches, split
<1>4. CachesAreSound' /\ NotYet' /\ IndexIsGood'
  BY <1>0 DEF IInv, CachesAreSound, Sound, caches, split, NotYet, IndexIsGood
<1>5. SplitIsExact'
  BY <1>0 DEF IInv, SplitIsExact, Progress, Placed, Merged, split
<1>6. FetchedMatches'
  BY <1>0, <1>2 DEF FetchedMatches, split
<1>7. ChecksAreGood' /\ ResultIsGood' /\ KeptAreAllowed'
  BY <1>0 DEF ChecksAreGood, ResultIsGood, KeptAreAllowed
<1> QED
  BY <1>3, <1>4, <1>5, <1>6, <1>7 DEF IInv

LEMMA LeavesStep == IInv /\ Leaves => IInv'
<1> SUFFICES ASSUME IInv, Leaves PROVE IInv'
  OBVIOUS
<1> USE DEF Leaves
<1>1. TypeOK'
  BY DEF IInv, TypeOK, caches
<1>2. CachesAreSound' /\ NotYet'
  BY DEF IInv, CachesAreSound, Sound, caches, NotYet
<1>3. SplitIsExact' /\ ChecksAreGood' /\ FetchedMatches' /\ KeptAreAllowed'
  BY DEF SplitIsExact, ChecksAreGood, FetchedMatches, KeptAreAllowed
<1>4. IndexIsGood' /\ ResultIsGood'
  BY DEF IndexIsGood, ResultIsGood
<1> QED
  BY <1>1, <1>2, <1>3, <1>4 DEF IInv

\* What is cached is the path that decided for the relation it is cached for.
LEMMA UpdatedIsSound ==
    ASSUME IInv, pc = "answered", NEW cache \in [Keys -> Grant \cup {NoGrant}],
           Sound(cache), NEW direct \in BOOLEAN
    PROVE  /\ Updated(cache, direct) \in [Keys -> Grant \cup {NoGrant}]
           /\ Sound(Updated(cache, direct))
<1> DEFINE Adds(n, k) == /\ IsCacheable(sdkChecks[n])
                         /\ sdkChecks[n].direct = direct
                         /\ key(sdkChecks[n].relation) = k
           LastAdded(k) == { n \in 1 .. Len(sdkChecks) :
                               /\ Adds(n, k)
                               /\ \A m \in n + 1 .. Len(sdkChecks) : ~ Adds(m, k) }
           new == Updated(cache, direct)
<1>1. new = [k \in Keys |->
                IF LastAdded(k) = {} THEN cache[k]
                ELSE GrantOf(sdkChecks[CHOOSE n \in LastAdded(k) : TRUE])]
  BY DEF Updated
<1>2. ASSUME NEW k \in Keys, LastAdded(k) # {}
      PROVE  \E n \in 1 .. Len(sdkChecks) :
                 /\ IsCacheable(sdkChecks[n])
                 /\ key(sdkChecks[n].relation) = k
                 /\ new[k] = GrantOf(sdkChecks[n])
  <2> PICK n : n = CHOOSE last \in LastAdded(k) : TRUE
    OBVIOUS
  <2>1. n \in LastAdded(k)
    BY <1>2
  <2>2. new[k] = GrantOf(sdkChecks[n])
    BY <1>1, <1>2
  <2> QED
    BY <2>1, <2>2
<1>3. ASSUME NEW k \in Keys, LastAdded(k) = {}
      PROVE  new[k] = cache[k]
  BY <1>1, <1>3
<1>4. DOMAIN new = Keys /\ new = [k \in Keys |-> new[k]]
  BY <1>1
<1> HIDE DEF LastAdded, new
<1>5. ASSUME NEW n \in 1 .. Len(sdkChecks)
      PROVE  /\ GrantOf(sdkChecks[n]) \in Grant
             /\ sdkChecks[n].relation = unchecked[n]
             /\ unchecked[n] \in Relations
             /\ IsCacheable(sdkChecks[n]) =>
                    \E path \in Paths[unchecked[n]] :
                        /\ path.whenFact = BOOLEAN
                        /\ sdkChecks[n].allowed = path.allowed
                        /\ sdkChecks[n].trueConds = path.trueConds
                        /\ sdkChecks[n].falseConds = path.falseConds
  <2>1. /\ n \in 1 .. Len(unchecked)
        /\ sdkChecks[n] \in BackendResults(unchecked[n], extraContext, fact)
    BY DEF IInv, FetchedMatches
  <2>2. unchecked[n] \in Relations /\ extraContext \in Contexts /\ fact \in BOOLEAN
    BY <2>1 DEF IInv, TypeOK
  <2>3. sdkChecks[n] \in CheckResult
    BY <2>1, <2>2, BackendResultIsGood
  <2>4. Good(AnswerOf(sdkChecks[n]), unchecked[n], extraContext, fact)
    BY <2>1, <2>2, BackendResultIsGood
  <2> QED
    BY <2>1, <2>2, <2>3, <2>4, BackendResultIsGood
       DEF GrantOf, Grant, CheckResult, Good, AnswerOf
<1>6. \A k \in Keys : new[k] \in Grant \cup {NoGrant}
  BY <1>2, <1>3, <1>5
<1>7. ASSUME NEW k \in Keys, new[k] # NoGrant
      PROVE  \E s \in Relations : key(s) = k /\
                 \E path \in Paths[s] :
                     /\ path.whenFact = BOOLEAN
                     /\ new[k].allowed = path.allowed
                     /\ new[k].trueConds = path.trueConds
                     /\ new[k].falseConds = path.falseConds
  <2>1. CASE LastAdded(k) = {}
    BY <1>3, <1>7, <2>1 DEF Sound
  <2>2. CASE LastAdded(k) # {}
    <3>1. PICK n \in 1 .. Len(sdkChecks) :
              /\ IsCacheable(sdkChecks[n])
              /\ key(sdkChecks[n].relation) = k
              /\ new[k] = GrantOf(sdkChecks[n])
      BY <1>2, <2>2
    <3> QED
      BY <3>1, <1>5 DEF GrantOf
  <2> QED
    BY <2>1, <2>2
<1>8. new \in [Keys -> Grant \cup {NoGrant}]
  BY <1>4, <1>6
<1>9. Sound(new)
  BY <1>7 DEF Sound
<1> QED
  BY <1>8, <1>9 DEF new

LEMMA UpdateCacheWithChecksStep == IInv /\ UpdateCacheWithChecks => IInv'
<1> SUFFICES ASSUME IInv, UpdateCacheWithChecks PROVE IInv'
  OBVIOUS
<1>0. /\ pc = "answered" /\ pc' = "merging"
      /\ UNCHANGED <<fact, relations, extraContext, i, j, split, sdkChecks,
                     result, verified>>
      /\ i = 1 /\ j = 1 /\ result = <<>> /\ verified = <<>>
  BY DEF UpdateCacheWithChecks, IInv, NotYet
<1>1. /\ directRelationCache' \in [Keys -> Grant \cup {NoGrant}]
      /\ indirectRelationCache' \in [Keys -> Grant \cup {NoGrant}]
      /\ Sound(directRelationCache')
      /\ Sound(indirectRelationCache')
  BY <1>0, UpdatedIsSound DEF UpdateCacheWithChecks, IInv, TypeOK, CachesAreSound
<1>2. TypeOK'
  BY <1>0, <1>1 DEF IInv, TypeOK, split
<1>3. CachesAreSound'
  BY <1>1 DEF CachesAreSound, Sound
<1>4. NotYet' /\ IndexIsGood' /\ ChecksAreGood'
  BY <1>0 DEF IInv, NotYet, IndexIsGood, ChecksAreGood, split
<1>5. SplitIsExact'
  <2>1. PICK f : Placed(f, Len(relations))
    BY <1>0 DEF IInv, SplitIsExact, Progress
  <2>2. Placed(f, Len(relations))'
    BY <1>0, <2>1 DEF Placed, split
  <2>3. Merged(f)'
    <3>1. \A k \in 1 .. Len(unchecked) : f[k] \in 1 .. Len(relations)
      BY <2>1 DEF Placed
    <3>2. Len(unchecked) \in Nat /\ Len(relations) \in Nat
      BY DEF IInv, TypeOK
    <3>3. \A k \in 1 .. Len(unchecked) : ~ (k < 1) /\ ~ (f[k] < 1)
      BY <3>1, <3>2
    <3> QED
      BY <1>0, <3>3 DEF Merged, split
  <2>4. Progress' = Len(relations)'
    BY <1>0 DEF Progress
  <2> QED
    BY <2>2, <2>3, <2>4 DEF SplitIsExact
<1>6. FetchedMatches' /\ ResultIsGood' /\ KeptAreAllowed'
  BY <1>0 DEF IInv, FetchedMatches, ResultIsGood, KeptAreAllowed, split
<1> QED
  BY <1>2, <1>3, <1>4, <1>5, <1>6 DEF IInv

\* Appending a good answer of the position i keeps the results good.
LEMMA MergedResultIsGood ==
    ASSUME IInv, pc = "merging", pc' = pc, i \in 1 .. Len(relations), i' = i + 1,
           NEW a \in Answer, Good(a, relations[i], extraContext, fact),
           result' = Append(result, a),
           UNCHANGED <<caches, fact, relations, extraContext, split, sdkChecks,
                       verified>>,
           j' \in 1 .. Len(sdkChecks) + 1
    PROVE  /\ TypeOK' /\ CachesAreSound' /\ NotYet' /\ IndexIsGood'
           /\ ChecksAreGood' /\ FetchedMatches' /\ ResultIsGood' /\ KeptAreAllowed'
<1>0. i \in Nat /\ result \in Seq(Answer) /\ Len(result) = i - 1
  BY DEF IInv, TypeOK, ResultIsGood
<1>1. TypeOK'
  <2>1. result' \in Seq(Answer) /\ i' \in 1 .. Len(relations) + 1
    BY <1>0
  <2> QED
    BY <2>1 DEF IInv, TypeOK, caches, split
<1>2. CachesAreSound' /\ NotYet' /\ IndexIsGood'
  BY DEF IInv, CachesAreSound, Sound, caches, NotYet, IndexIsGood, split
<1>3. ChecksAreGood' /\ FetchedMatches' /\ KeptAreAllowed'
  BY DEF IInv, ChecksAreGood, FetchedMatches, KeptAreAllowed, split
<1>4. ResultIsGood'
  <2>1. /\ Len(result') = i /\ result'[i] = a
        /\ \A m \in 1 .. i - 1 : result'[m] = result[m]
    BY <1>0
  <2>2. \A m \in 1 .. i - 1 : Good(result[m], relations[m], extraContext, fact)
    BY <1>0 DEF IInv, ResultIsGood
  <2>3. \A m \in 1 .. i : m \in 1 .. i - 1 \/ m = i
    BY <1>0
  <2>4. \A m \in 1 .. i : Good(result'[m], relations[m], extraContext, fact)
    BY <2>1, <2>2, <2>3
  <2> QED
    BY <1>0, <2>1, <2>4 DEF ResultIsGood
<1> QED
  BY <1>1, <1>2, <1>3, <1>4

LEMMA MergesCachedStep == IInv /\ MergesCached => IInv'
<1> SUFFICES ASSUME IInv, MergesCached PROVE IInv'
  OBVIOUS
<1>0. /\ pc = "merging" /\ pc' = pc
      /\ i \in DOMAIN indexToCheck
      /\ i \in Nat /\ i \in 1 .. Len(relations) /\ i' = i + 1
      /\ result' = Append(result, indexToCheck[i])
      /\ j' = j
      /\ UNCHANGED <<caches, fact, relations, extraContext, split, sdkChecks,
                     verified>>
  BY DEF MergesCached, IInv, TypeOK
<1>1. /\ indexToCheck[i] \in Answer
      /\ Good(indexToCheck[i], relations[i], extraContext, fact)
      /\ j' \in 1 .. Len(sdkChecks) + 1
  BY <1>0 DEF IInv, IndexIsGood, TypeOK
<1>2. SplitIsExact'
  <2>1. PICK f : Placed(f, Len(relations)) /\ Merged(f)
    BY <1>0 DEF IInv, SplitIsExact, Progress
  <2>2. Placed(f, Len(relations))'
    BY <1>0, <2>1 DEF Placed, split
  <2>3. Merged(f)'
    <3>1. \A k \in 1 .. Len(unchecked) : f[k] \in 1 .. Len(relations) /\ f[k] # i
      BY <1>0, <2>1 DEF Placed
    <3>2. \A k \in 1 .. Len(unchecked) : f[k] < i <=> f[k] < i + 1
      BY <1>0, <3>1
    <3> QED
      BY <1>0, <2>1, <3>2 DEF Merged, split
  <2> QED
    BY <1>0, <2>2, <2>3 DEF SplitIsExact, Progress
<1> QED
  BY <1>0, <1>1, <1>2, MergedResultIsGood DEF IInv

(***************************************************************************)
(* At a position that the index leaves out, j is where the backend's       *)
(* result for that position is.                                            *)
(***************************************************************************)
LEMMA NextFetched ==
    ASSUME IInv, pc = "merging", i \in DOMAIN relations \ DOMAIN indexToCheck,
           NEW f, Placed(f, Len(relations)), Merged(f)
    PROVE  j \in 1 .. Len(unchecked) /\ f[j] = i
<1>0. i \in Nat /\ i \in 1 .. Len(relations) /\ j \in Nat \ {0} /\ Len(unchecked) \in Nat
  BY DEF IInv, TypeOK
<1>1. PICK k \in 1 .. Len(unchecked) : f[k] = i
  BY <1>0 DEF Placed
<1>2. ~ (k < j)
  BY <1>0, <1>1 DEF Merged
<1>3. j \in 1 .. Len(unchecked) /\ j <= k
  BY <1>0, <1>2
<1>4. ~ (f[j] < i)
  BY <1>3, <1>0 DEF Merged
<1>5. CASE j = k
  BY <1>1, <1>3, <1>5
<1>6. CASE j # k
  BY <1>0, <1>1, <1>3, <1>4, <1>6 DEF Placed
<1> QED
  BY <1>5, <1>6

LEMMA MergesFetchedStep == IInv /\ MergesFetched => IInv'
<1> SUFFICES ASSUME IInv, MergesFetched PROVE IInv'
  OBVIOUS
<1>0. /\ pc = "merging" /\ pc' = pc
      /\ i \in DOMAIN relations \ DOMAIN indexToCheck
      /\ i \in Nat /\ i \in 1 .. Len(relations) /\ i' = i + 1
      /\ j \in Nat /\ j' = j + 1
      /\ result' = Append(result, AnswerOf(sdkChecks[j]))
      /\ UNCHANGED <<caches, fact, relations, extraContext, split, sdkChecks,
                     verified>>
  BY DEF MergesFetched, IInv, TypeOK
<1>1. PICK f : Placed(f, Len(relations)) /\ Merged(f)
  BY <1>0 DEF IInv, SplitIsExact, Progress
<1>2. j \in 1 .. Len(unchecked) /\ f[j] = i
  BY <1>0, <1>1, NextFetched
<1>3. unchecked[j] = relations[i] /\ relations[i] \in Relations
  BY <1>0, <1>1, <1>2 DEF Placed, IInv, TypeOK
<1>4. sdkChecks[j] \in BackendResults(relations[i], extraContext, fact)
  BY <1>0, <1>2, <1>3 DEF IInv, FetchedMatches
<1>5. /\ sdkChecks[j] \in CheckResult
      /\ Good(AnswerOf(sdkChecks[j]), relations[i], extraContext, fact)
  BY <1>3, <1>4, BackendResultIsGood DEF IInv, TypeOK
<1>6. AnswerOf(sdkChecks[j]) \in Answer
  BY <1>5 DEF AnswerOf, Answer, CheckResult
<1>7. j' \in 1 .. Len(sdkChecks) + 1
  BY <1>0, <1>2 DEF IInv, FetchedMatches
<1>8. SplitIsExact'
  <2>1. Placed(f, Len(relations))'
    BY <1>0, <1>1 DEF Placed, split
  <2>2. Merged(f)'
    <3>1. Len(unchecked) \in Nat /\ Len(relations) \in Nat
      BY DEF IInv, TypeOK
    <3>2. /\ f \in [1 .. Len(unchecked) -> 1 .. Len(relations)]
          /\ \A k, l \in 1 .. Len(unchecked) : k < l => f[k] < f[l]
      BY <1>1 DEF Placed
    <3>3. ASSUME NEW k \in 1 .. Len(unchecked)
          PROVE  k < j + 1 <=> f[k] < i + 1
      <4>1. f[k] \in Nat /\ k \in Nat
        BY <3>2, <3>1
      <4>2. CASE k < j
        BY <1>0, <1>2, <3>2, <4>1, <4>2
      <4>3. CASE k = j
        BY <1>0, <1>2, <4>1, <4>3
      <4>4. CASE j < k
        BY <1>0, <1>2, <3>2, <4>1, <4>4
      <4> QED
        BY <1>0, <4>1, <4>2, <4>3, <4>4
    <3> QED
      BY <1>0, <3>3 DEF Merged, split
  <2> QED
    BY <1>0, <2>1, <2>2 DEF SplitIsExact, Progress
<1> QED
  BY <1>0, <1>5, <1>6, <1>7, <1>8, MergedResultIsGood DEF IInv

LEMMA MergeEndsStep == IInv /\ MergeEnds => IInv'
<1> SUFFICES ASSUME IInv, MergeEnds PROVE IInv'
  OBVIOUS
<1>0. /\ pc = "merging" /\ pc' = "checked"
      /\ Len(relations) \in Nat /\ i = Len(relations) + 1 /\ i' = 1
      /\ UNCHANGED <<caches, fact, relations, extraContext, j, split, sdkChecks,
                     result, verified>>
      /\ verified = <<>> /\ Len(result) = Len(relations)
  BY DEF MergeEnds, IInv, TypeOK, NotYet, ResultIsGood
<1>1. j = Len(sdkChecks) + 1
  <2>1. PICK f : Placed(f, Len(relations)) /\ Merged(f)
    BY <1>0 DEF IInv, SplitIsExact, Progress
  <2>2. j \in 1 .. Len(unchecked) + 1 /\ Len(unchecked) \in Nat
        /\ Len(sdkChecks) = Len(unchecked)
    BY <1>0 DEF IInv, TypeOK, FetchedMatches
  <2>3. ASSUME j \in 1 .. Len(unchecked) PROVE FALSE
    <3>1. f[j] \in 1 .. Len(relations) /\ ~ (f[j] < i)
      BY <1>0, <2>1, <2>2, <2>3 DEF Placed, Merged
    <3> QED
      BY <1>0, <3>1
  <2> QED
    BY <2>2, <2>3
<1>2. TypeOK' /\ CachesAreSound' /\ NotYet' /\ IndexIsGood'
  BY <1>0 DEF IInv, TypeOK, CachesAreSound, Sound, caches, split, NotYet,
     IndexIsGood
<1>3. SplitIsExact' /\ ChecksAreGood' /\ FetchedMatches' /\ ResultIsGood'
  BY <1>0, <1>1 DEF IInv, SplitIsExact, ChecksAreGood, FetchedMatches,
     ResultIsGood
<1>4. KeptAreAllowed'
  BY <1>0 DEF KeptAreAllowed, Kept
<1> QED
  BY <1>2, <1>3, <1>4 DEF IInv

LEMMA FiltersStep == IInv /\ Filters => IInv'
<1> SUFFICES ASSUME IInv, Filters PROVE IInv'
  OBVIOUS
<1>0. /\ pc = "checked" /\ pc' = pc
      /\ i \in Nat \ {0} /\ i \in 1 .. Len(relations) /\ i' = i + 1
      /\ relations[i] \in Relations
      /\ verified \in Seq(Relations)
      /\ verified' = IF result[i].allowed THEN Append(verified, relations[i])
                     ELSE verified
      /\ UNCHANGED <<caches, fact, relations, extraContext, j, split, sdkChecks,
                     result>>
  BY DEF Filters, IInv, TypeOK
<1>1. TypeOK'
  <2>1. verified' \in Seq(Relations) /\ i' \in 1 .. Len(relations) + 1
    BY <1>0
  <2> QED
    BY <1>0, <2>1 DEF IInv, TypeOK, caches, split
<1>2. CachesAreSound' /\ NotYet' /\ IndexIsGood'
  BY <1>0 DEF IInv, CachesAreSound, Sound, caches, split, NotYet, IndexIsGood
<1>3. SplitIsExact' /\ ChecksAreGood' /\ FetchedMatches' /\ ResultIsGood'
  BY <1>0 DEF IInv, SplitIsExact, ChecksAreGood, FetchedMatches, ResultIsGood
<1>4. KeptAreAllowed'
  <2>1. Kept = { relations[m] : m \in { l \in 1 .. i - 1 : result[l].allowed } }
    BY <1>0 DEF IInv, KeptAreAllowed
  <2>2. \A l : l \in 1 .. i <=> l \in 1 .. i - 1 \/ l = i
    BY <1>0
  <2>3. CASE result[i].allowed
    <3>1. /\ Len(verified') = Len(verified) + 1 /\ Len(verified) \in Nat
          /\ verified'[Len(verified) + 1] = relations[i]
          /\ \A n \in 1 .. Len(verified) : verified'[n] = verified[n]
      BY <1>0, <2>3
    <3>2. Kept' = Kept \cup {relations[i]}
      BY <3>1 DEF Kept
    <3>3. { relations[m] : m \in { l \in 1 .. i : result[l].allowed } } =
              { relations[m] : m \in { l \in 1 .. i - 1 : result[l].allowed } }
                  \cup {relations[i]}
      BY <2>2, <2>3
    <3> QED
      BY <1>0, <2>1, <3>2, <3>3 DEF KeptAreAllowed
  <2>4. CASE ~ result[i].allowed
    <3>1. Kept' = Kept
      BY <1>0, <2>4 DEF Kept
    <3>2. { l \in 1 .. i : result[l].allowed } =
              { l \in 1 .. i - 1 : result[l].allowed }
      BY <2>2, <2>4
    <3> QED
      BY <1>0, <2>1, <3>1, <3>2 DEF KeptAreAllowed
  <2> QED
    BY <2>3, <2>4
<1> QED
  BY <1>1, <1>2, <1>3, <1>4 DEF IInv

LEMMA FilterEndsStep == IInv /\ FilterEnds => IInv'
<1> SUFFICES ASSUME IInv, FilterEnds PROVE IInv'
  OBVIOUS
<1>0. /\ pc = "checked" /\ pc' = "filtered"
      /\ i = Len(relations) + 1
      /\ UNCHANGED <<caches, fact, relations, extraContext, i, j, split,
                     sdkChecks, result, verified>>
  BY DEF FilterEnds, IInv, TypeOK
<1>1. TypeOK' /\ CachesAreSound' /\ NotYet' /\ IndexIsGood'
  BY <1>0 DEF IInv, TypeOK, CachesAreSound, Sound, caches, split, NotYet,
     IndexIsGood
<1>2. SplitIsExact' /\ ChecksAreGood' /\ FetchedMatches' /\ ResultIsGood'
  BY <1>0 DEF IInv, SplitIsExact, ChecksAreGood, FetchedMatches, ResultIsGood
<1>3. KeptAreAllowed'
  <2>1. Kept' = Kept
    BY <1>0 DEF Kept
  <2> QED
    BY <1>0, <2>1 DEF IInv, KeptAreAllowed
<1> QED
  BY <1>1, <1>2, <1>3 DEF IInv

\* What happens outside of the request leaves the request's invariants alone.
LEMMA RequestUnchanged ==
    ASSUME IInv, UNCHANGED <<fact, request>>
    PROVE  /\ NotYet' /\ SplitIsExact' /\ IndexIsGood' /\ ChecksAreGood'
           /\ FetchedMatches' /\ ResultIsGood' /\ KeptAreAllowed'
<1>0. UNCHANGED <<fact, pc, relations, extraContext, i, j, checks, unchecked,
                  indexToCheck, sdkChecks, result, verified>>
  BY DEF request, split
<1>1. NotYet' /\ IndexIsGood'
  BY <1>0 DEF IInv, NotYet, IndexIsGood
<1>2. ChecksAreGood' /\ FetchedMatches'
  BY <1>0 DEF IInv, ChecksAreGood, FetchedMatches
<1>3. SplitIsExact'
  <2> SUFFICES ASSUME pc \in {"splitting", "asked", "answered", "merging"}
               PROVE  \E f : Placed(f, Progress)' /\ Merged(f)'
    BY <1>0 DEF SplitIsExact
  <2>1. PICK f : Placed(f, Progress) /\ Merged(f)
    BY DEF IInv, SplitIsExact
  <2>2. Progress' = Progress
    BY <1>0 DEF Progress
  <2>3. Placed(f, Progress)' /\ Merged(f)'
    BY <1>0, <2>1, <2>2 DEF Placed, Merged
  <2> QED
    BY <2>3
<1>4. ResultIsGood'
  BY <1>0 DEF IInv, ResultIsGood
<1>5. KeptAreAllowed'
  <2>1. Kept' = Kept
    BY <1>0 DEF Kept
  <2> QED
    BY <1>0, <2>1 DEF IInv, KeptAreAllowed
<1> QED
  BY <1>1, <1>2, <1>3, <1>4, <1>5

LEMMA GrantLeavesStep ==
    ASSUME IInv, NEW k \in Keys, GrantLeaves(k)
    PROVE  IInv'
<1>1. NoGrant \in Grant \cup {NoGrant} /\ UNCHANGED <<fact, request>>
  BY DEF GrantLeaves
<1>2. CASE directRelationCache' = [directRelationCache EXCEPT ![k] = NoGrant]
           /\ UNCHANGED indirectRelationCache
  <2>1. TypeOK'
    BY <1>1, <1>2 DEF IInv, TypeOK, request, split
  <2>2. Sound(directRelationCache)'
    BY <1>2 DEF IInv, TypeOK, CachesAreSound, Sound
  <2>3. Sound(indirectRelationCache)'
    BY <1>2 DEF IInv, CachesAreSound, Sound
  <2> QED
    BY <1>1, <2>1, <2>2, <2>3, RequestUnchanged DEF IInv, CachesAreSound
<1>3. CASE indirectRelationCache' = [indirectRelationCache EXCEPT ![k] = NoGrant]
           /\ UNCHANGED directRelationCache
  <2>1. TypeOK'
    BY <1>1, <1>3 DEF IInv, TypeOK, request, split
  <2>2. Sound(indirectRelationCache)'
    BY <1>3 DEF IInv, TypeOK, CachesAreSound, Sound
  <2>3. Sound(directRelationCache)'
    BY <1>3 DEF IInv, CachesAreSound, Sound
  <2> QED
    BY <1>1, <2>1, <2>2, <2>3, RequestUnchanged DEF IInv, CachesAreSound
<1> QED
  BY <1>2, <1>3 DEF GrantLeaves

LEMMA FactChangesStep == IInv /\ FactChanges => IInv'
<1> SUFFICES ASSUME IInv, FactChanges PROVE IInv'
  OBVIOUS
<1> USE DEF FactChanges, request
<1>1. TypeOK' /\ CachesAreSound' /\ NotYet'
  BY DEF IInv, TypeOK, CachesAreSound, Sound, NotYet, caches, split
<1>2. SplitIsExact' /\ ChecksAreGood' /\ FetchedMatches' /\ KeptAreAllowed'
  BY DEF SplitIsExact, ChecksAreGood, FetchedMatches, KeptAreAllowed
<1>3. IndexIsGood' /\ ResultIsGood'
  BY DEF IInv, NotYet, IndexIsGood, ResultIsGood, split
<1> QED
  BY <1>1, <1>2, <1>3 DEF IInv

LEMMA StutterStep == IInv /\ UNCHANGED vars => IInv'
<1> SUFFICES ASSUME IInv, UNCHANGED vars PROVE IInv'
  OBVIOUS
<1>1. TypeOK' /\ CachesAreSound'
  BY DEF IInv, TypeOK, CachesAreSound, Sound, vars, request, caches, split
<1>2. UNCHANGED <<fact, request>>
  BY DEF vars
<1> QED
  BY <1>1, <1>2, RequestUnchanged DEF IInv

LEMMA InvariantHolds == Spec => []IInv
<1>1. IInv /\ [Next]_vars => IInv'
  <2> SUFFICES ASSUME IInv, [Next]_vars PROVE IInv'
    OBVIOUS
  <2>1. ASSUME NEW batch \in Batches, NEW context \in Contexts,
               Asks(batch, context)
        PROVE  IInv'
    BY <2>1, AsksStep
  <2>2. CASE Hits
    BY <2>2, HitsStep
  <2>3. CASE Misses
    BY <2>3, MissesStep
  <2>4. CASE SplitEnds
    BY <2>4, SplitEndsStep
  <2>5. CASE BackendChecks
    BY <2>5, BackendChecksStep
  <2>6. CASE BackendFails \/ Returns
    BY <2>6, LeavesStep DEF BackendFails, Returns
  <2>7. CASE UpdateCacheWithChecks
    BY <2>7, UpdateCacheWithChecksStep
  <2>8. CASE MergesCached
    BY <2>8, MergesCachedStep
  <2>9. CASE MergesFetched
    BY <2>9, MergesFetchedStep
  <2>10. CASE MergeEnds
    BY <2>10, MergeEndsStep
  <2>11. CASE Filters
    BY <2>11, FiltersStep
  <2>12. CASE FilterEnds
    BY <2>12, FilterEndsStep
  <2>13. ASSUME NEW k \in Keys, GrantLeaves(k)
         PROVE  IInv'
    BY <2>13, GrantLeavesStep
  <2>14. CASE FactChanges
    BY <2>14, FactChangesStep
  <2>15. CASE UNCHANGED vars
    BY <2>15, StutterStep
  <2> QED
    BY <2>1, <2>2, <2>3, <2>4, <2>5, <2>6, <2>7, <2>8, <2>9, <2>10, <2>11,
       <2>12, <2>13, <2>14, <2>15 DEF Next
<1> QED
  BY <1>1, InitIsGood, PTL DEF Spec

-----------------------------------------------------------------------------
(***************************************************************************)
(* Type correctness of Check and of the loops in it: no loop leaves its    *)
(* sequence, for batches of any length.                                    *)
(***************************************************************************)
THEOREM TypeCorrect == Spec => []TypeOK
BY InvariantHolds, PTL DEF IInv

(***************************************************************************)
(* The merge in Check gives every relation of a batch of any length its    *)
(* own result and uses every result of the backend once.                   *)
(***************************************************************************)
THEOREM MergeIsPositional == Spec => []EveryRelationGetsItsResult
<1>1. IInv => EveryRelationGetsItsResult
  <2> SUFFICES ASSUME IInv, pc \in {"checked", "filtered"}
               PROVE  EveryRelationGetsItsResult
    BY DEF EveryRelationGetsItsResult
  <2>1. DOMAIN relations = 1 .. Len(relations)
    BY DEF IInv, TypeOK
  <2>2. Len(result) = Len(relations) /\ j = Len(sdkChecks) + 1
    BY DEF IInv, ResultIsGood
  <2>3. \A n \in 1 .. Len(result) : result[n].relation = relations[n]
    BY DEF IInv, ResultIsGood, Good
  <2> QED
    BY <2>1, <2>2, <2>3 DEF EveryRelationGetsItsResult
<1> QED
  BY <1>1, InvariantHolds, PTL

(***************************************************************************)
(* For any conditions, certificates and contexts: what Check answers from  *)
(* the cache is what the backend would answer in this context.             *)
(***************************************************************************)
THEOREM CachedAnswersAreRight == Spec => []AnswersAreTheBackends
<1>1. IInv => AnswersAreTheBackends
  <2> SUFFICES ASSUME IInv, pc \in {"checked", "filtered"},
                      NEW n \in DOMAIN relations
               PROVE  \E s \in SameKey(relations[n]) :
                          result[n].allowed = Allowed(s, extraContext, fact)
    BY DEF AnswersAreTheBackends
  <2>1. n \in 1 .. Len(result)
    BY DEF IInv, TypeOK, ResultIsGood
  <2> QED
    BY <2>1 DEF IInv, ResultIsGood, Good
<1> QED
  BY <1>1, InvariantHolds, PTL

(***************************************************************************)
(* A lookup that is served from the cache keeps exactly the candidates     *)
(* that the backend allows, if the cache can tell them from others.        *)
(***************************************************************************)
THEOREM LookupsAreVerified == Spec => []CandidatesAreVerified
<1>1. IInv => CandidatesAreVerified
  <2> SUFFICES ASSUME IInv, pc = "filtered"
               PROVE  CandidatesAreVerified
    BY DEF CandidatesAreVerified
  <2> DEFINE Asked == { relations[n] : n \in DOMAIN relations }
  <2>1. /\ DOMAIN verified = 1 .. Len(verified)
        /\ DOMAIN relations = 1 .. Len(relations)
        /\ Len(relations) \in Nat /\ i - 1 = Len(relations)
        /\ Len(result) = Len(relations)
    BY DEF IInv, TypeOK, NotYet, ResultIsGood
  <2>2. Kept = { relations[m] : m \in { l \in 1 .. Len(relations) : result[l].allowed } }
    BY <2>1 DEF IInv, KeptAreAllowed
  <2>3. Kept \subseteq Asked
    BY <2>1, <2>2
  <2>4. ASSUME NEW n \in 1 .. Len(relations), Unambiguous(relations[n])
        PROVE  result[n].allowed = Allowed(relations[n], extraContext, fact)
    BY <2>1, <2>4 DEF IInv, ResultIsGood, Good, Unambiguous
  <2>5. ASSUME NEW r \in Asked, Unambiguous(r)
        PROVE  r \in Kept <=> Allowed(r, extraContext, fact)
    <3>1. PICK n \in 1 .. Len(relations) : r = relations[n]
      BY <2>1
    <3>2. r \in Kept =>
              \E m \in 1 .. Len(relations) : r = relations[m] /\ result[m].allowed
      BY <2>2
    <3>3. result[n].allowed => r \in Kept
      BY <2>2, <3>1
    <3> QED
      BY <2>4, <2>5, <3>1, <3>2, <3>3
  <2> QED
    BY <2>1, <2>3, <2>5 DEF CandidatesAreVerified, Kept
<1> QED
  BY <1>1, InvariantHolds, PTL

=============================================================================
