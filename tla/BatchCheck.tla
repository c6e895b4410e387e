----------------------------- MODULE BatchCheck -----------------------------
(***************************************************************************)
(* What a Check answers: the loop that splits a batch into the relations   *)
(* that the cache answers and those that go to the backend, the            *)
(* re-evaluation of cached conditional grants in the context of the        *)
(* request, the insertion of what the backend answered, the loop that      *)
(* merges both by position, and the loop with which WhoCanAccess and       *)
(* WhatCanTargetAccess keep the candidates that a Check allows.            *)
(*                                                                         *)
(* Relations and schema do not change here (AuthzCacheService is about     *)
(* change); one Check follows another, each with a context of its own, and *)
(* what an earlier one cached the later ones re-evaluate.  Facts are       *)
(* backend state that no invalidation reports; they may change.            *)
(***************************************************************************)
EXTENDS FGARelation, Naturals

CONSTANTS
    Batches,        \* the sequences of relations that a Check may be about
    Conditions,     \* the condition IDs of the schema
    CheckedExpr,    \* condition -> "valid", or "empty" or "malformed"
    Params,         \* condition -> the names of its parameters
    Contexts,       \* request contexts, functions from names to values
    Mistyped,       \* the values that CoerceContextValue rejects
    Program(_, _),  \* the outcome of a condition's program for the values of its parameters
    Paths,          \* relation -> the deciding paths that the backend may find for it
    NoGrant         \* the LRU cache does not hold the key

(***************************************************************************)
(* A path decides a relation in every context in which its conditions have *)
(* the outcomes it lists, for the states of the facts that it is for.      *)
(***************************************************************************)
Path == [allowed : BOOLEAN, direct : BOOLEAN, trueConds : SUBSET Conditions,
         falseConds : SUBSET Conditions, whenFact : SUBSET BOOLEAN]

ASSUME BatchesAssumption == Batches \subseteq Seq(Relations)
ASSUME PathsAssumption == Paths \in [Relations -> SUBSET Path]

-----------------------------------------------------------------------------
(* Conditions and what the backend answers.                                *)

\* The outcome of a condition: at the edge and in the backend the same program runs.
Outcome(c, context) ==
    IF \E p \in Params[c] : p \notin DOMAIN context \/ context[p] \in Mistyped
    THEN "undecided"
    ELSE Program(c, [p \in Params[c] |-> context[p]])

\* Compile: the conditions that the cache has a program for.
Compiled == { c \in Conditions : CheckedExpr[c] = "valid" }

\* What the edge may find; its evaluation may time out.
Eval(c, context) == {Outcome(c, context), "undecided"}

Decides(path, context, fact) ==
    /\ \A c \in path.trueConds : Outcome(c, context) = "true"
    /\ \A c \in path.falseConds : Outcome(c, context) = "false"
    /\ fact \in path.whenFact

DecidingPaths(r, context, fact) ==
    { path \in Paths[r] : Decides(path, context, fact) }

\* Access is denied as long as no path decides.
Allowed(r, context, fact) ==
    \E path \in DecidingPaths(r, context, fact) : path.allowed

(***************************************************************************)
(* A certificate is what decided: two paths never decide the same case     *)
(* differently.                                                            *)
(***************************************************************************)
ASSUME PathsAgree ==
    \A r \in Relations, context \in Contexts, fact \in BOOLEAN :
        \A p, q \in DecidingPaths(r, context, fact) : p.allowed = q.allowed

CheckResult ==
    [relation : Relations, allowed : BOOLEAN, direct : BOOLEAN,
     factUsed : BOOLEAN, missing : BOOLEAN,
     trueConds : SUBSET Conditions, falseConds : SUBSET Conditions]

WithOutcome(outcome, context) == { c \in Conditions : Outcome(c, context) = outcome }

(***************************************************************************)
(* The results that the backend may return for r.  Where no path decides,  *)
(* it reports what the context lacks, with the outcomes it knows.          *)
(***************************************************************************)
BackendResults(r, context, fact) ==
    IF DecidingPaths(r, context, fact) # {}
    THEN { [relation |-> r, allowed |-> path.allowed, direct |-> path.direct,
            factUsed |-> path.whenFact # BOOLEAN, missing |-> FALSE,
            trueConds |-> path.trueConds, falseConds |-> path.falseConds] :
             path \in DecidingPaths(r, context, fact) }
    ELSE { [relation |-> r, allowed |-> FALSE, direct |-> TRUE,
            factUsed |-> FALSE, missing |-> TRUE,
            trueConds |-> WithOutcome("true", context),
            falseConds |-> WithOutcome("false", context)] }

-----------------------------------------------------------------------------
VARIABLES
    directRelationCache,    \* key -> grant or NoGrant
    indirectRelationCache,  \* key -> grant or NoGrant
    fact,                   \* the state of the facts in the backend
    pc,                     \* where the request is
    relations,              \* the batch
    extraContext,           \* the context of the request
    i,                      \* the position of the loop that runs
    j,                      \* the next of sdkChecks to be merged
    checks,                 \* the answers from the cache, in order
    unchecked,              \* the relations that go to the backend
    indexToCheck,           \* position -> the answer from the cache
    sdkChecks,              \* the backend's results for unchecked
    result,
    verified                \* the candidates that the lookup keeps

caches == <<directRelationCache, indirectRelationCache>>
split == <<checks, unchecked, indexToCheck>>
request == <<pc, relations, extraContext, i, j, split, sdkChecks, result, verified>>
vars == <<caches, fact, request>>

\* conditionalCert is the pair of the two sets; empty sets are an unconditional grant.
Grant == [allowed : BOOLEAN, trueConds : SUBSET Conditions,
          falseConds : SUBSET Conditions]

Answer == [relation : Relations, allowed : BOOLEAN]

EmptyCache == [k \in Keys |-> NoGrant]

TypeOK ==
    /\ directRelationCache \in [Keys -> Grant \cup {NoGrant}]
    /\ indirectRelationCache \in [Keys -> Grant \cup {NoGrant}]
    /\ fact \in BOOLEAN
    /\ pc \in {"idle", "splitting", "asked", "answered", "merging", "checked",
               "filtered"}
    /\ relations \in Seq(Relations)
    /\ extraContext \in Contexts
    /\ i \in 1 .. Len(relations) + 1
    /\ j \in 1 .. Len(sdkChecks) + 1
    /\ checks \in Seq(Answer)
    /\ unchecked \in Seq(Relations)
    /\ DOMAIN indexToCheck \subseteq DOMAIN relations
    /\ indexToCheck \in [DOMAIN indexToCheck -> Answer]
    /\ sdkChecks \in Seq(CheckResult)
    /\ result \in Seq(Answer)
    /\ verified \in Seq(Relations)

Init ==
    /\ directRelationCache = EmptyCache
    /\ indirectRelationCache = EmptyCache
    /\ fact \in BOOLEAN
    /\ pc = "idle"
    /\ relations = <<>>
    /\ extraContext \in Contexts
    /\ i = 1
    /\ j = 1
    /\ checks = <<>>
    /\ unchecked = <<>>
    /\ indexToCheck = <<>>
    /\ sdkChecks = <<>>
    /\ result = <<>>
    /\ verified = <<>>

-----------------------------------------------------------------------------
(* CheckRelations                                                          *)

Asks(batch, context) ==
    /\ pc = "idle"
    /\ pc' = "splitting"
    /\ relations' = batch
    /\ extraContext' = context
    /\ UNCHANGED <<caches, fact, i, j, split, sdkChecks, result, verified>>

\* getCachedGrant: the direct cache is asked first.
CachedGrant(k) ==
    IF directRelationCache[k] # NoGrant
    THEN directRelationCache[k] ELSE indirectRelationCache[k]

Conditional(x) == x.trueConds # {} \/ x.falseConds # {}

\* May the conditions ids all evaluate to want?
conditionsEvalTo(ids, want) ==
    \A id \in ids : id \in Compiled /\ want \in Eval(id, extraContext)

\* Variant with a defect: the conditions that were false are not looked at.
certMatchesTrueOnly(grant) ==
    /\ Conditional(grant)
    /\ conditionsEvalTo(grant.trueConds, "true")

certMatches(grant) ==
    /\ Conditional(grant)
    /\ conditionsEvalTo(grant.trueConds, "true")
    /\ conditionsEvalTo(grant.falseConds, "false")

\* Variant with a defect: positions are counted from 1 in the index and from 0 in the batch.
HitsOffByOne ==
    LET r == relations[i]
        grant == CachedGrant(key(r))
        check == [relation |-> r, allowed |-> grant.allowed]
    IN  /\ pc = "splitting"
        /\ i <= Len(relations)
        /\ grant # NoGrant
        /\ Conditional(grant) => certMatches(grant)
        /\ checks' = Append(checks, check)
        /\ indexToCheck' = [n \in DOMAIN indexToCheck \cup {i + 1} |->
                               IF n = i + 1 THEN check ELSE indexToCheck[n]]
        /\ i' = i + 1
        /\ UNCHANGED <<caches, fact, pc, relations, extraContext, j, unchecked,
                       sdkChecks, result, verified>>

Hits ==
    LET r == relations[i]
        grant == CachedGrant(key(r))
        check == [relation |-> r, allowed |-> grant.allowed]
    IN  /\ pc = "splitting"
        /\ i <= Len(relations)
        /\ grant # NoGrant
        /\ Conditional(grant) => certMatches(grant)
        /\ checks' = Append(checks, check)
        /\ indexToCheck' = [n \in DOMAIN indexToCheck \cup {i} |->
                               IF n = i THEN check ELSE indexToCheck[n]]
        /\ i' = i + 1
        /\ UNCHANGED <<caches, fact, pc, relations, extraContext, j, unchecked,
                       sdkChecks, result, verified>>

\* Not cached, or conditional and not to be evaluated as it was (or in time).
Misses ==
    /\ pc = "splitting"
    /\ i <= Len(relations)
    /\ CachedGrant(key(relations[i])) # NoGrant =>
           Conditional(CachedGrant(key(relations[i])))
    /\ unchecked' = Append(unchecked, relations[i])
    /\ i' = i + 1
    /\ UNCHANGED <<caches, fact, pc, relations, extraContext, j, checks,
                   indexToCheck, sdkChecks, result, verified>>

SplitEnds ==
    /\ pc = "splitting"
    /\ i > Len(relations)
    /\ i' = 1
    /\ IF unchecked = <<>>
       THEN pc' = "checked" /\ result' = checks
       ELSE pc' = "asked" /\ UNCHANGED result
    /\ UNCHANGED <<caches, fact, relations, extraContext, j, split, sdkChecks,
                   verified>>

-----------------------------------------------------------------------------
(* Check                                                                   *)

\* One result per relation, in order.
BackendChecks ==
    LET ResultsFor(n) == BackendResults(unchecked[n], extraContext, fact)
        All == UNION { ResultsFor(n) : n \in DOMAIN unchecked }
    IN  /\ pc = "asked"
        /\ pc' = "answered"
        /\ \E s \in [DOMAIN unchecked -> All] :
               /\ \A n \in DOMAIN unchecked : s[n] \in ResultsFor(n)
               /\ sdkChecks' = s
        /\ UNCHANGED <<caches, fact, relations, extraContext, i, j, split,
                       result, verified>>

\* The request is over and leaves its local variables.
Leaves ==
    /\ pc' = "idle"
    /\ relations' = <<>>
    /\ i' = 1
    /\ j' = 1
    /\ checks' = <<>>
    /\ unchecked' = <<>>
    /\ indexToCheck' = <<>>
    /\ sdkChecks' = <<>>
    /\ result' = <<>>
    /\ verified' = <<>>
    /\ UNCHANGED <<caches, fact, extraContext>>

BackendFails == pc = "asked" /\ Leaves

IsCacheable(c) ==
    /\ ~ c.factUsed
    /\ ~ c.missing
    /\ c.trueConds \cup c.falseConds \subseteq Compiled

GrantOf(c) == [allowed |-> c.allowed, trueConds |-> c.trueConds,
               falseConds |-> c.falseConds]

(***************************************************************************)
(* A cache after the results were added one by one: the last result for a  *)
(* key stays.                                                              *)
(***************************************************************************)
Updated(cache, direct) ==
    LET Adds(n, k) == /\ IsCacheable(sdkChecks[n])
                      /\ sdkChecks[n].direct = direct
                      /\ key(sdkChecks[n].relation) = k
        LastAdded(k) == { n \in 1 .. Len(sdkChecks) :
                            /\ Adds(n, k)
                            /\ \A m \in n + 1 .. Len(sdkChecks) : ~ Adds(m, k) }
    IN  [k \in Keys |-> IF LastAdded(k) = {} THEN cache[k]
                        ELSE GrantOf(sdkChecks[CHOOSE n \in LastAdded(k) : TRUE])]

UpdateCacheWithChecks ==
    /\ pc = "answered"
    /\ pc' = "merging"
    /\ directRelationCache' = Updated(directRelationCache, TRUE)
    /\ indirectRelationCache' = Updated(indirectRelationCache, FALSE)
    /\ UNCHANGED <<fact, relations, extraContext, i, j, split, sdkChecks, result,
                   verified>>

MergesCached ==
    /\ pc = "merging"
    /\ i \in DOMAIN indexToCheck
    /\ result' = Append(result, indexToCheck[i])
    /\ i' = i + 1
    /\ UNCHANGED <<caches, fact, pc, relations, extraContext, j, split,
                   sdkChecks, verified>>

AnswerOf(c) == [relation |-> c.relation, allowed |-> c.allowed]

\* Variant with a defect: every fetched result is the first one.
MergesFirst ==
    /\ pc = "merging"
    /\ i \in DOMAIN relations \ DOMAIN indexToCheck
    /\ result' = Append(result, AnswerOf(sdkChecks[j]))
    /\ i' = i + 1
    /\ UNCHANGED <<caches, fact, pc, relations, extraContext, j, split,
                   sdkChecks, verified>>

MergesFetched ==
    /\ pc = "merging"
    /\ i \in DOMAIN relations \ DOMAIN indexToCheck
    /\ result' = Append(result, AnswerOf(sdkChecks[j]))
    /\ i' = i + 1
    /\ j' = j + 1
    /\ UNCHANGED <<caches, fact, pc, relations, extraContext, split, sdkChecks,
                   verified>>

MergeEnds ==
    /\ pc = "merging"
    /\ i > Len(relations)
    /\ pc' = "checked"
    /\ i' = 1
    /\ UNCHANGED <<caches, fact, relations, extraContext, j, split, sdkChecks,
                   result, verified>>

-----------------------------------------------------------------------------
(* filterWhoCanAccessCandidates and filterWhatCanTargetAccessCandidates:   *)
(* the batch was made of the candidates, one relation for each.            *)

\* Variant with a defect: the kept candidates are counted instead of the checks.
FiltersByCount ==
    /\ pc = "checked"
    /\ i <= Len(relations)
    /\ verified' = IF result[i].allowed
                   THEN Append(verified, relations[Len(verified) + 1])
                   ELSE verified
    /\ i' = i + 1
    /\ UNCHANGED <<caches, fact, pc, relations, extraContext, j, split,
                   sdkChecks, result>>

Filters ==
    /\ pc = "checked"
    /\ i <= Len(relations)
    /\ verified' = IF result[i].allowed THEN Append(verified, relations[i])
                   ELSE verified
    /\ i' = i + 1
    /\ UNCHANGED <<caches, fact, pc, relations, extraContext, j, split,
                   sdkChecks, result>>

FilterEnds ==
    /\ pc = "checked"
    /\ i > Len(relations)
    /\ pc' = "filtered"
    /\ UNCHANGED <<caches, fact, relations, extraContext, i, j, split,
                   sdkChecks, result, verified>>

\* A plain Check returns before its answers are filtered.
Returns ==
    /\ \/ pc = "checked" /\ i = 1
       \/ pc = "filtered"
    /\ Leaves

-----------------------------------------------------------------------------
(* Around the request.                                                     *)

\* Eviction, invalidation, purge; CheckRelations holds the read lock.
GrantLeaves(k) ==
    /\ pc # "splitting"
    /\ \/ /\ directRelationCache' = [directRelationCache EXCEPT ![k] = NoGrant]
          /\ UNCHANGED indirectRelationCache
       \/ /\ indirectRelationCache' = [indirectRelationCache EXCEPT ![k] = NoGrant]
          /\ UNCHANGED directRelationCache
    /\ UNCHANGED <<fact, request>>

FactChanges ==
    /\ pc = "idle"
    /\ fact' = ~ fact
    /\ UNCHANGED <<caches, request>>

Next ==
    \/ \E batch \in Batches, context \in Contexts : Asks(batch, context)
    \/ Hits
    \/ Misses
    \/ SplitEnds
    \/ BackendChecks
    \/ BackendFails
    \/ UpdateCacheWithChecks
    \/ MergesCached
    \/ MergesFetched
    \/ MergeEnds
    \/ Filters
    \/ FilterEnds
    \/ Returns
    \/ \E k \in Keys : GrantLeaves(k)
    \/ FactChanges

Spec == Init /\ [][Next]_vars

-----------------------------------------------------------------------------
(***************************************************************************)
(* Check answers every relation of the batch at its own position, whatever *)
(* mixture of cached and fetched answers it is, with relations that occur  *)
(* twice in the batch; no result of the backend is left over, none is read *)
(* that is not there.                                                      *)
(***************************************************************************)
EveryRelationGetsItsResult ==
    pc \in {"checked", "filtered"} =>
        /\ Len(result) = Len(relations)
        /\ \A n \in DOMAIN relations : result[n].relation = relations[n]
        /\ j = Len(sdkChecks) + 1

SameKey(r) == { s \in Relations : key(s) = key(r) }

(***************************************************************************)
(* cel.go: the caller defers "rather than trust a stale cached grant".  An *)
(* answer of Check is the one that the backend would give in the context   *)
(* of this very request, however the contexts of the earlier Checks        *)
(* differed: the backend's answer for the relation, or for one that the    *)
(* cache cannot tell from it because it has the same key.                  *)
(***************************************************************************)
AnswersAreTheBackends ==
    pc \in {"checked", "filtered"} =>
        \A n \in DOMAIN relations :
            \E s \in SameKey(relations[n]) :
                result[n].allowed = Allowed(s, extraContext, fact)

\* The backend treats all relations of r's key alike.
Unambiguous(r) ==
    \A s \in SameKey(r) :
        Allowed(s, extraContext, fact) = Allowed(r, extraContext, fact)

(***************************************************************************)
(* README.md: "A lookup result is re-verified against the check cache on   *)
(* every call, so an entry whose access has been removed is dropped from   *)
(* the result."  The candidates that a lookup keeps are those to which the *)
(* backend allows access in the context of the request.                    *)
(***************************************************************************)
CandidatesAreVerified ==
    LET Kept == { verified[n] : n \in DOMAIN verified }
        Asked == { relations[n] : n \in DOMAIN relations }
    IN  pc = "filtered" =>
            /\ Kept \subseteq Asked
            /\ \A r \in Asked : Unambiguous(r) =>
                   (r \in Kept <=> Allowed(r, extraContext, fact))

=============================================================================
