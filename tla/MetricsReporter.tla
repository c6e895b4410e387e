--------------------------- MODULE MetricsReporter ---------------------------
(***************************************************************************)
(* The metrics of the service: the Collector that every request records    *)
(* its call in (internal/services/metrics/collector.go) and the Reporter   *)
(* that takes a snapshot of it at every tick and posts it (reporter.go).   *)
(*                                                                         *)
(* A request looks up the metrics object of its project without a lock and *)
(* locks that object afterwards; the reporter locks one project after the  *)
(* other.  Whether a post arrives is not modelled: the reporter logs a     *)
(* failure and goes on, and the snapshot is gone either way.               *)
(***************************************************************************)
EXTENDS Naturals, FiniteSetsExt

CONSTANTS
    Projects,
    APIs,
    Calls,          \* the calls that are recorded; a bound of the model
    Outcomes,       \* API -> the CallMetrics that a call to it may record
    MaxInt64,       \* math.MaxInt64; durations are only compared with it
    NoMetrics,      \* sync.Map holds no object for the project
    NoAggregate,    \* byAPI has no entry for the API
    NoCall          \* the call has not been made

CallMetrics == [hit : BOOLEAN, candidates : Nat, filtered : Nat,
                resultSize : Nat, duration : Nat]

ASSUME OutcomesAssumption ==
    \A api \in APIs : \A m \in Outcomes[api] : m \in CallMetrics /\ m.duration < MaxInt64
\* authz.go:141, 205, 258: a miss filters nothing.
ASSUME FilteredAssumption ==
    \A api \in APIs : \A m \in Outcomes[api] : ~ m.hit => m.filtered = 0
ASSUME MaxInt64Assumption == MaxInt64 \in Nat
ASSUME NoMetricsAssumption == NoMetrics \notin Calls

VARIABLES
    call,           \* what each call is about
    pc,             \* where each call's Record is
    held,           \* the metrics object that Record goes on with
    projects,       \* project -> the call that made its metrics object
    byAPI,          \* the aggregates of each metrics object
    reporter,       \* where the reporter is
    mustVisit,      \* the projects that Range has to reach
    visited,        \* the projects that Range has reached
    snapshot,       \* project -> API -> aggregate, still to be posted
    posted          \* the calls that have been counted in a post

callVars == <<call, pc, held>>
vars == <<callVars, projects, byAPI, reporter, mustVisit, visited, snapshot, posted>>

-----------------------------------------------------------------------------
(* Aggregates.  Hits and misses have statistics of their durations each.   *)

EmptyStats == [count |-> 0, sum |-> 0, min |-> MaxInt64, max |-> 0]

\* Variant with a defect: the least duration starts at 0.
newZeroMetrics ==
    [hits |-> [EmptyStats EXCEPT !.min = 0], misses |-> [EmptyStats EXCEPT !.min = 0],
     candidates |-> 0, filtered |-> 0, resultSize |-> 0, calls |-> {}]

\* calls is not in the code's AggregatedMetrics: the calls that went into it.
newAggregatedMetrics ==
    [hits |-> EmptyStats, misses |-> EmptyStats, candidates |-> 0, filtered |-> 0,
     resultSize |-> 0, calls |-> {}]

Observe(stats, duration) ==
    [count |-> stats.count + 1,
     sum |-> stats.sum + duration,
     min |-> Min({stats.min, duration}),
     max |-> Max({stats.max, duration})]

Accumulate(agg, c, m) ==
    [hits |-> IF m.hit THEN Observe(agg.hits, m.duration) ELSE agg.hits,
     misses |-> IF m.hit THEN agg.misses ELSE Observe(agg.misses, m.duration),
     candidates |-> agg.candidates + m.candidates,
     filtered |-> agg.filtered + m.filtered,
     resultSize |-> agg.resultSize + m.resultSize,
     calls |-> agg.calls \cup {c}]

NoAggregates == [api \in APIs |-> NoAggregate]
CallsIn(agg) == IF agg = NoAggregate THEN {} ELSE agg.calls

-----------------------------------------------------------------------------
(* buildPayload.  A quotient of floats is kept as its two terms; that of   *)
(* two durations is cut to an integer.                                     *)

Ratio(n, d) == IF d = 0 THEN <<0, 1>> ELSE <<n, d>>
MeanDuration(stats) == IF stats.count = 0 THEN 0 ELSE stats.sum \div stats.count

buildPayload(agg) ==
    LET total == agg.hits.count + agg.misses.count
        least == Min({IF agg.hits.count = 0 THEN MaxInt64 ELSE agg.hits.min,
                      IF agg.misses.count = 0 THEN MaxInt64 ELSE agg.misses.min})
    IN  [hitCount |-> agg.hits.count,
         missCount |-> agg.misses.count,
         avgResultSize |-> Ratio(agg.resultSize, total),
         avgHitCandidates |-> Ratio(agg.candidates, agg.hits.count),
         avgHitFiltered |-> Ratio(agg.filtered, agg.hits.count),
         avgDuration |-> IF total = 0 THEN 0
                         ELSE (agg.hits.sum + agg.misses.sum) \div total,
         avgHit |-> MeanDuration(agg.hits),
         avgMiss |-> MeanDuration(agg.misses),
         minHit |-> IF agg.hits.count = 0 THEN 0 ELSE agg.hits.min,
         minMiss |-> IF agg.misses.count = 0 THEN 0 ELSE agg.misses.min,
         maxHit |-> agg.hits.max,
         maxMiss |-> agg.misses.max,
         minDuration |-> IF least = MaxInt64 THEN 0 ELSE least,
         maxDuration |-> Max({agg.hits.max, agg.misses.max})]

-----------------------------------------------------------------------------
Aggregate ==
    [hits : [count : Nat, sum : Nat, min : Nat, max : Nat],
     misses : [count : Nat, sum : Nat, min : Nat, max : Nat],
     candidates : Nat, filtered : Nat, resultSize : Nat, calls : SUBSET Calls]

Aggregates == [APIs -> Aggregate \cup {NoAggregate}]

ASSUME NoAggregateAssumption == NoAggregate \notin Aggregate

Call == UNION { [project : Projects, api : {api}, metrics : Outcomes[api]] : api \in APIs }

TypeOK ==
    /\ call \in [Calls -> Call \cup {NoCall}]
    /\ pc \in [Calls -> {"idle", "missed", "holding", "recorded"}]
    /\ \A c \in Calls : IF pc[c] = "idle" THEN call[c] = NoCall ELSE call[c] \in Call
    /\ held \in [Calls -> Calls \cup {NoMetrics}]
    /\ \A c \in Calls : held[c] # NoMetrics <=> pc[c] = "holding"
    /\ projects \in [Projects -> Calls \cup {NoMetrics}]
    /\ byAPI \in [Calls -> Aggregates]
    /\ reporter \in {"waiting", "ranging", "posting"}
    /\ mustVisit \in SUBSET Projects
    /\ visited \in SUBSET Projects
    /\ snapshot \in [Projects -> Aggregates]
    /\ posted \in [Projects -> [APIs -> SUBSET Calls]]

Init ==
    /\ call = [c \in Calls |-> NoCall]
    /\ pc = [c \in Calls |-> "idle"]
    /\ held = [c \in Calls |-> NoMetrics]
    /\ projects = [p \in Projects |-> NoMetrics]
    /\ byAPI = [c \in Calls |-> NoAggregates]
    /\ reporter = "waiting"
    /\ mustVisit = {}
    /\ visited = {}
    /\ snapshot = [p \in Projects |-> NoAggregates]
    /\ posted = [p \in Projects |-> [api \in APIs |-> {}]]

-----------------------------------------------------------------------------
(* Record.                                                                 *)

\* Variant with a defect: Record goes on with what Load returned, an object or not.
LoadsOnly(c, p, api, m) ==
    /\ pc[c] = "idle"
    /\ call' = [call EXCEPT ![c] = [project |-> p, api |-> api, metrics |-> m]]
    /\ pc' = [pc EXCEPT ![c] = "holding"]
    /\ held' = [held EXCEPT ![c] = projects[p]]
    /\ UNCHANGED <<projects, byAPI, reporter, mustVisit, visited, snapshot, posted>>

\* getOrCreateProjectMetrics: Load
Loads(c, p, api, m) ==
    /\ pc[c] = "idle"
    /\ call' = [call EXCEPT ![c] = [project |-> p, api |-> api, metrics |-> m]]
    /\ pc' = [pc EXCEPT ![c] = IF projects[p] = NoMetrics THEN "missed" ELSE "holding"]
    /\ held' = [held EXCEPT ![c] = projects[p]]
    /\ UNCHANGED <<projects, byAPI, reporter, mustVisit, visited, snapshot, posted>>

\* Variant with a defect: the new object replaces one that was stored in the meantime.
Stores(c) ==
    LET p == call[c].project
    IN  /\ pc[c] = "missed"
        /\ projects' = [projects EXCEPT ![p] = c]
        /\ held' = [held EXCEPT ![c] = c]
        /\ pc' = [pc EXCEPT ![c] = "holding"]
        /\ UNCHANGED <<call, byAPI, reporter, mustVisit, visited, snapshot, posted>>

\* getOrCreateProjectMetrics: LoadOrStore of a new object
LoadsOrStores(c) ==
    LET p == call[c].project
        actual == IF projects[p] = NoMetrics THEN c ELSE projects[p]
    IN  /\ pc[c] = "missed"
        /\ projects' = [projects EXCEPT ![p] = actual]
        /\ held' = [held EXCEPT ![c] = actual]
        /\ pc' = [pc EXCEPT ![c] = "holding"]
        /\ UNCHANGED <<call, byAPI, reporter, mustVisit, visited, snapshot, posted>>

\* The section of Record that holds the mutex of the object.
Accumulates(c) ==
    LET api == call[c].api
        agg == byAPI[held[c]][api]
    IN  /\ pc[c] = "holding"
        /\ byAPI' = [byAPI EXCEPT ![held[c]][api] =
               Accumulate(IF agg = NoAggregate THEN newAggregatedMetrics ELSE agg,
                          c, call[c].metrics)]
        /\ pc' = [pc EXCEPT ![c] = "recorded"]
        /\ held' = [held EXCEPT ![c] = NoMetrics]
        /\ UNCHANGED <<call, projects, reporter, mustVisit, visited, snapshot, posted>>

-----------------------------------------------------------------------------
(* report.                                                                 *)

Present == { p \in Projects : projects[p] # NoMetrics }

\* A tick: SnapshotAndReset begins to range over the projects.
SnapshotStarts ==
    /\ reporter = "waiting"
    /\ reporter' = "ranging"
    /\ mustVisit' = Present
    /\ UNCHANGED <<callVars, projects, byAPI, visited, snapshot, posted>>

\* Variant with a defect: a project without calls ends the range.
VisitsUntilEmpty(p) ==
    /\ reporter = "ranging"
    /\ p \in Present \ visited
    /\ visited' = visited \cup {p}
    /\ snapshot' = [snapshot EXCEPT ![p] = byAPI[projects[p]]]
    /\ byAPI' = [byAPI EXCEPT ![projects[p]] = NoAggregates]
    /\ mustVisit' = IF byAPI[projects[p]] = NoAggregates THEN {} ELSE mustVisit
    /\ UNCHANGED <<callVars, projects, reporter, posted>>

(***************************************************************************)
(* The callback of Range, which holds the mutex of the object.  Range      *)
(* reaches the projects in any order, and may reach one that was stored    *)
(* after it began.                                                         *)
(***************************************************************************)
Visits(p) ==
    /\ reporter = "ranging"
    /\ p \in Present \ visited
    /\ visited' = visited \cup {p}
    /\ snapshot' = [snapshot EXCEPT ![p] = byAPI[projects[p]]]
    /\ byAPI' = [byAPI EXCEPT ![projects[p]] = NoAggregates]
    /\ UNCHANGED <<callVars, projects, reporter, mustVisit, posted>>

SnapshotEnds ==
    /\ reporter = "ranging"
    /\ mustVisit \subseteq visited
    /\ reporter' = "posting"
    /\ mustVisit' = {}
    /\ visited' = {}
    /\ UNCHANGED <<callVars, projects, byAPI, snapshot, posted>>

\* One round of report's loop, in any order of the projects.
Posts(p) ==
    /\ reporter = "posting"
    /\ snapshot[p] # NoAggregates
    /\ posted' = [posted EXCEPT ![p] = [api \in APIs |-> @[api] \cup CallsIn(snapshot[p][api])]]
    /\ snapshot' = [snapshot EXCEPT ![p] = NoAggregates]
    /\ UNCHANGED <<callVars, projects, byAPI, reporter, mustVisit, visited>>

ReportEnds ==
    /\ reporter = "posting"
    /\ \A p \in Projects : snapshot[p] = NoAggregates
    /\ reporter' = "waiting"
    /\ UNCHANGED <<callVars, projects, byAPI, mustVisit, visited, snapshot, posted>>

ReporterStep ==
    \/ SnapshotStarts
    \/ \E p \in Projects : Visits(p)
    \/ SnapshotEnds
    \/ \E p \in Projects : Posts(p)
    \/ ReportEnds

Next ==
    \/ \E c \in Calls :
           \/ \E p \in Projects, api \in APIs :
                  \E m \in Outcomes[api] : Loads(c, p, api, m)
           \/ LoadsOrStores(c)
           \/ Accumulates(c)
    \/ ReporterStep

Spec == Init /\ [][Next]_vars

\* The reporter's goroutine runs; nothing is assumed of the requests.
FairSpec == Spec /\ WF_vars(ReporterStep)

-----------------------------------------------------------------------------
\* The calls of p to api that are in the collector, in the snapshot or posted.
CallsAt(place, p, api) ==
    CASE place = "collector" ->
             IF projects[p] = NoMetrics THEN {} ELSE CallsIn(byAPI[projects[p]][api])
      [] place = "snapshot" -> CallsIn(snapshot[p][api])
      [] place = "posted" -> posted[p][api]

Places(c) ==
    { x \in {"collector", "snapshot", "posted"} \X Projects \X APIs :
        c \in CallsAt(x[1], x[2], x[3]) }

(***************************************************************************)
(* A recorded call is in exactly one place, and under its own project and  *)
(* API: waiting in the collector, in the snapshot, or posted.  Neither the *)
(* race of two first requests of a project nor a Record that runs beside   *)
(* SnapshotAndReset loses or doubles it.                                   *)
(***************************************************************************)
EveryCallIsInOneWindow ==
    \A c \in Calls : pc[c] = "recorded" =>
        \E place \in {"collector", "snapshot", "posted"} :
            Places(c) = {<<place, call[c].project, call[c].api>>}

(***************************************************************************)
(* What a payload says of the calls of its window, computed from the       *)
(* metrics of the calls themselves: a function m from calls to metrics.    *)
(***************************************************************************)
MetricsOf(W) == [c \in W |-> call[c].metrics]
Hits(m) == Restrict(m, { c \in DOMAIN m : m[c].hit })
Misses(m) == Restrict(m, { c \in DOMAIN m : ~ m[c].hit })
Number(m) == Cardinality(DOMAIN m)
TotalDuration(m) == SumFunction([c \in DOMAIN m |-> m[c].duration])
TotalResultSize(m) == SumFunction([c \in DOMAIN m |-> m[c].resultSize])
TotalFiltered(m) == SumFunction([c \in DOMAIN m |-> m[c].filtered])
TotalCandidates(m) == SumFunction([c \in DOMAIN m |-> m[c].candidates])
AverageDuration(m) == IF DOMAIN m = {} THEN 0 ELSE TotalDuration(m) \div Number(m)
Durations(m) == { m[c].duration : c \in DOMAIN m }
LeastDuration(m) == IF DOMAIN m = {} THEN 0 ELSE Min(Durations(m))
GreatestDuration(m) == IF DOMAIN m = {} THEN 0 ELSE Max(Durations(m))
SnapshotAggregates ==
    { snapshot[p][api] : p \in Projects, api \in APIs } \ {NoAggregate}

(***************************************************************************)
(* A payload tells the truth about the calls of its window: the counts,    *)
(* the result sizes, what was filtered out of hits, and the durations.     *)
(***************************************************************************)
PayloadsDescribeTheirCalls ==
    \A agg \in SnapshotAggregates :
        LET payload == buildPayload(agg)
            A == MetricsOf(agg.calls)
            H == Hits(A)
            M == Misses(A)
        IN  /\ payload.hitCount = Number(H)
            /\ payload.missCount = Number(M)
            /\ payload.avgResultSize = Ratio(TotalResultSize(A), Number(A))
            /\ payload.avgHitFiltered = Ratio(TotalFiltered(H), Number(H))
            /\ <<payload.avgDuration, payload.avgHit, payload.avgMiss>> =
                   <<AverageDuration(A), AverageDuration(H), AverageDuration(M)>>
            /\ <<payload.minDuration, payload.minHit, payload.minMiss>> =
                   <<LeastDuration(A), LeastDuration(H), LeastDuration(M)>>
            /\ <<payload.maxDuration, payload.maxHit, payload.maxMiss>> =
                   <<GreatestDuration(A), GreatestDuration(H), GreatestDuration(M)>>

(***************************************************************************)
(* reporter_test.go: "(5+10+15)/3 hits".  avg_hit_candidates is the number *)
(* of candidates of a hit on average.  The code does not keep to it: the   *)
(* sum has the candidates of the misses of Check as well.                  *)
(***************************************************************************)
HitCandidatesAreOfHits ==
    \A agg \in SnapshotAggregates :
        LET H == Hits(MetricsOf(agg.calls))
        IN  buildPayload(agg).avgHitCandidates = Ratio(TotalCandidates(H), Number(H))

\* Every recorded call is posted in the end, by whatever order Range takes.
EveryCallIsPosted ==
    \A c \in Calls : pc[c] = "recorded" ~>
        \E p \in Projects, api \in APIs : c \in posted[p][api]

=============================================================================
