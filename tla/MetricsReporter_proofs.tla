----------------------- MODULE MetricsReporter_proofs -----------------------
(***************************************************************************)
(* Proofs about MetricsReporter: type correctness, that a recorded call is *)
(* always in exactly one place under its project and API, and that a       *)
(* payload describes the calls of its window.                              *)
(***************************************************************************)
EXTENDS MetricsReporter, FiniteSums

-----------------------------------------------------------------------------
(* Where a call is.                                                        *)

InCollector(c, p, api) == projects[p] # NoMetrics /\ c \in CallsIn(byAPI[projects[p]][api])
InSnapshot(c, p, api) == c \in CallsIn(snapshot[p][api])
InPosted(c, p, api) == c \in posted[p][api]

-----------------------------------------------------------------------------
(* The inductive invariant.                                                *)

\* A metrics object in the map was made by a call of its project.
ObjectsHaveMakers ==
    \A p \in Projects : projects[p] # NoMetrics =>
        /\ pc[projects[p]] \notin {"idle", "missed"}
        /\ call[projects[p]].project = p

\* Record goes on with the object in the map.
HeldIsMapped ==
    \A c \in Calls : pc[c] = "holding" => held[c] = projects[call[c].project]

\* An object that is not in the map holds nothing.
OthersAreEmpty ==
    \A o \in Calls : (\A p \in Projects : projects[p] # o) => byAPI[o] = NoAggregates

\* A snapshot is only taken over an empty one.
SnapshotIsFresh ==
    /\ reporter # "ranging" => visited = {}
    /\ reporter # "posting" =>
           \A p \in Projects \ visited : snapshot[p] = NoAggregates

CallsAreInPlace ==
    \A c \in Calls, p \in Projects, api \in APIs :
        /\ InCollector(c, p, api) \/ InSnapshot(c, p, api) \/ InPosted(c, p, api) =>
               pc[c] = "recorded" /\ call[c].project = p /\ call[c].api = api
        /\ ~ (InCollector(c, p, api) /\ InSnapshot(c, p, api))
        /\ ~ (InCollector(c, p, api) /\ InPosted(c, p, api))
        /\ ~ (InSnapshot(c, p, api) /\ InPosted(c, p, api))
        /\ pc[c] = "recorded" /\ call[c].project = p /\ call[c].api = api =>
               InCollector(c, p, api) \/ InSnapshot(c, p, api) \/ InPosted(c, p, api)

IInv ==
    /\ TypeOK
    /\ ObjectsHaveMakers
    /\ HeldIsMapped
    /\ OthersAreEmpty
    /\ SnapshotIsFresh
    /\ CallsAreInPlace

-----------------------------------------------------------------------------
(* Aggregates.                                                             *)

LEMMA MinMaxOfTwo ==
    ASSUME NEW a \in Nat, NEW b \in Nat
    PROVE  /\ Min({a, b}) = IF a <= b THEN a ELSE b
           /\ Max({a, b}) = IF a <= b THEN b ELSE a
<1>1. Min({a, b}) \in {a, b} /\ \A y \in {a, b} : Min({a, b}) <= y
  <2>1. \E x \in {a, b} : \A y \in {a, b} : x <= y
    BY a <= b \/ b <= a
  <2> QED
    BY <2>1 DEF Min
<1>2. Max({a, b}) \in {a, b} /\ \A y \in {a, b} : Max({a, b}) >= y
  <2>1. \E x \in {a, b} : \A y \in {a, b} : x >= y
    BY a >= b \/ b >= a
  <2> QED
    BY <2>1 DEF Max
<1> QED
  BY <1>1, <1>2

Stats == [count : Nat, sum : Nat, min : Nat, max : Nat]

LEMMA ObserveIsStats ==
    ASSUME NEW stats \in Stats, NEW duration \in Nat
    PROVE  Observe(stats, duration) \in Stats
<1>1. /\ Min({stats.min, duration}) \in Nat
      /\ Max({stats.max, duration}) \in Nat
  BY MinMaxOfTwo DEF Stats
<1> QED
  BY <1>1 DEF Stats, Observe

LEMMA AccumulateIsAggregate ==
    ASSUME NEW agg \in Aggregate, NEW c \in Calls, NEW m \in CallMetrics
    PROVE  /\ Accumulate(agg, c, m) \in Aggregate
           /\ Accumulate(agg, c, m).calls = agg.calls \cup {c}
<1>1. /\ agg.hits \in Stats /\ agg.misses \in Stats /\ m.duration \in Nat
      /\ agg.candidates \in Nat /\ agg.filtered \in Nat /\ agg.resultSize \in Nat
      /\ m.candidates \in Nat /\ m.filtered \in Nat /\ m.resultSize \in Nat
      /\ agg.calls \in SUBSET Calls
  BY DEF Aggregate, Stats, CallMetrics
<1>2. /\ Observe(agg.hits, m.duration) \in Stats
      /\ Observe(agg.misses, m.duration) \in Stats
  BY <1>1, ObserveIsStats
<1> QED
  BY <1>1, <1>2 DEF Accumulate, Aggregate, Stats

LEMMA NewIsAggregate ==
    /\ newAggregatedMetrics \in Aggregate
    /\ newAggregatedMetrics.calls = {}
BY MaxInt64Assumption DEF newAggregatedMetrics, EmptyStats, Aggregate

LEMMA NoAggregatesIsEmpty ==
    /\ NoAggregates \in Aggregates
    /\ \A api \in APIs : CallsIn(NoAggregates[api]) = {}
BY DEF NoAggregates, Aggregates, CallsIn

-----------------------------------------------------------------------------
LEMMA InitIsGood == Init => IInv
<1> SUFFICES ASSUME Init PROVE IInv
  OBVIOUS
<1>1. TypeOK
  BY NoAggregatesIsEmpty DEF Init, TypeOK
<1>2. ObjectsHaveMakers /\ HeldIsMapped /\ OthersAreEmpty /\ SnapshotIsFresh
  BY DEF Init, ObjectsHaveMakers, HeldIsMapped, OthersAreEmpty, SnapshotIsFresh
<1>3. ASSUME NEW c \in Calls, NEW p \in Projects, NEW api \in APIs
      PROVE  ~ InCollector(c, p, api) /\ ~ InSnapshot(c, p, api) /\ ~ InPosted(c, p, api)
  BY NoAggregatesIsEmpty DEF Init, InCollector, InSnapshot, InPosted
<1>4. \A c \in Calls : pc[c] = "idle"
  BY DEF Init
<1>5. CallsAreInPlace
  BY <1>3, <1>4 DEF CallsAreInPlace
<1> QED
  BY <1>1, <1>2, <1>5 DEF IInv

\* Two projects have different objects.
LEMMA ObjectsDiffer ==
    ASSUME ObjectsHaveMakers, NEW p \in Projects, NEW r \in Projects,
           projects[p] # NoMetrics, projects[p] = projects[r]
    PROVE  p = r
BY DEF ObjectsHaveMakers

LEMMA CallParts ==
    ASSUME TypeOK, NEW c \in Calls, pc[c] # "idle"
    PROVE  /\ call[c].project \in Projects /\ call[c].api \in APIs
           /\ call[c].metrics \in CallMetrics
<1>1. call[c] \in Call
  BY DEF TypeOK
<1>2. PICK api \in APIs :
          call[c] \in [project : Projects, api : {api}, metrics : Outcomes[api]]
  BY <1>1 DEF Call
<1> QED
  BY <1>2, OutcomesAssumption

LEMMA LoadsStep ==
    ASSUME IInv, NEW c \in Calls, NEW p \in Projects, NEW api \in APIs,
           NEW m \in Outcomes[api], Loads(c, p, api, m)
    PROVE  IInv'
<1> USE DEF IInv
<1>0. /\ pc[c] = "idle"
      /\ call' = [call EXCEPT ![c] = [project |-> p, api |-> api, metrics |-> m]]
      /\ pc' = [pc EXCEPT ![c] = IF projects[p] = NoMetrics THEN "missed" ELSE "holding"]
      /\ held' = [held EXCEPT ![c] = projects[p]]
      /\ UNCHANGED <<projects, byAPI, reporter, mustVisit, visited, snapshot, posted>>
  BY DEF Loads
<1>1. TypeOK'
  <2>1. [project |-> p, api |-> api, metrics |-> m] \in Call
    BY DEF Call
  <2> QED
    BY <1>0, <2>1 DEF TypeOK
<1>2. ObjectsHaveMakers'
  BY <1>0 DEF TypeOK, ObjectsHaveMakers
<1>3. HeldIsMapped'
  BY <1>0 DEF TypeOK, HeldIsMapped
<1>4. OthersAreEmpty' /\ SnapshotIsFresh'
  BY <1>0 DEF OthersAreEmpty, SnapshotIsFresh
<1>5. CallsAreInPlace'
  BY <1>0 DEF TypeOK, CallsAreInPlace, InCollector, InSnapshot, InPosted
<1> QED
  BY <1>1, <1>2, <1>3, <1>4, <1>5

LEMMA LoadsOrStoresStep ==
    ASSUME IInv, NEW c \in Calls, LoadsOrStores(c)
    PROVE  IInv'
<1> USE DEF IInv
<1> DEFINE p == call[c].project
           actual == IF projects[p] = NoMetrics THEN c ELSE projects[p]
<1>0. /\ pc[c] = "missed" /\ p \in Projects
      /\ projects' = [projects EXCEPT ![p] = actual]
      /\ held' = [held EXCEPT ![c] = actual]
      /\ pc' = [pc EXCEPT ![c] = "holding"]
      /\ actual \in Calls
      /\ UNCHANGED <<call, byAPI, reporter, mustVisit, visited, snapshot, posted>>
  BY CallParts DEF LoadsOrStores, TypeOK
<1>1. TypeOK'
  BY <1>0, NoMetricsAssumption DEF TypeOK
<1>2. \A r \in Projects : projects[r] # c
  BY <1>0, NoMetricsAssumption DEF ObjectsHaveMakers
<1>3. ObjectsHaveMakers'
  BY <1>0, <1>2 DEF TypeOK, ObjectsHaveMakers
<1>4. HeldIsMapped'
  BY <1>0, NoMetricsAssumption DEF TypeOK, HeldIsMapped
<1>5. OthersAreEmpty'
  BY <1>0, NoMetricsAssumption DEF TypeOK, OthersAreEmpty
<1>6. SnapshotIsFresh'
  BY <1>0 DEF SnapshotIsFresh
<1>7. ASSUME NEW x \in Calls, NEW r \in Projects, NEW api \in APIs
      PROVE  /\ InCollector(x, r, api)' <=> InCollector(x, r, api)
             /\ InSnapshot(x, r, api)' <=> InSnapshot(x, r, api)
             /\ InPosted(x, r, api)' <=> InPosted(x, r, api)
  <2>1. CASE projects'[r] = projects[r]
    BY <1>0, <2>1 DEF InCollector, InSnapshot, InPosted
  <2>2. CASE r = p /\ projects[p] = NoMetrics
    <3>1. byAPI[c] = NoAggregates /\ projects'[r] = c
      BY <1>0, <1>2, <2>2 DEF OthersAreEmpty, TypeOK
    <3> QED
      BY <1>0, <2>2, <3>1, NoAggregatesIsEmpty DEF InCollector, InSnapshot, InPosted
  <2> QED
    BY <1>0, <2>1, <2>2 DEF TypeOK
<1>8. CallsAreInPlace'
  BY <1>0, <1>7 DEF TypeOK, CallsAreInPlace
<1> QED
  BY <1>1, <1>3, <1>4, <1>5, <1>6, <1>8

LEMMA AccumulatesStep ==
    ASSUME IInv, NEW c \in Calls, Accumulates(c)
    PROVE  IInv'
<1> USE DEF IInv
<1> DEFINE p == call[c].project
           a == call[c].api
           o == held[c]
           agg == IF byAPI[o][a] = NoAggregate THEN newAggregatedMetrics ELSE byAPI[o][a]
           new == Accumulate(agg, c, call[c].metrics)
<1>0. /\ pc[c] = "holding" /\ p \in Projects /\ a \in APIs
      /\ o \in Calls /\ o = projects[p] /\ o # NoMetrics
      /\ byAPI' = [byAPI EXCEPT ![o][a] = new]
      /\ pc' = [pc EXCEPT ![c] = "recorded"]
      /\ held' = [held EXCEPT ![c] = NoMetrics]
      /\ UNCHANGED <<call, projects, reporter, mustVisit, visited, snapshot, posted>>
  <2>1. pc[c] = "holding"
    BY DEF Accumulates
  <2> QED
    BY <2>1, CallParts DEF Accumulates, TypeOK, HeldIsMapped
<1>1. /\ agg \in Aggregate /\ new \in Aggregate /\ new # NoAggregate
      /\ new.calls = CallsIn(byAPI[o][a]) \cup {c}
  <2>1. byAPI[o][a] \in Aggregate \cup {NoAggregate}
    BY <1>0 DEF TypeOK, Aggregates
  <2>2. agg \in Aggregate /\ agg.calls = CallsIn(byAPI[o][a])
    BY <2>1, NewIsAggregate DEF CallsIn
  <2> HIDE DEF agg
  <2> QED
    BY <1>0, <2>2, CallParts, AccumulateIsAggregate, NoAggregateAssumption
<1> HIDE DEF new, agg
<1>2. TypeOK'
  <2>1. byAPI' \in [Calls -> Aggregates]
    BY <1>0, <1>1 DEF TypeOK, Aggregates
  <2> QED
    BY <1>0, <2>1 DEF TypeOK
<1>3. ObjectsHaveMakers' /\ HeldIsMapped' /\ SnapshotIsFresh'
  BY <1>0 DEF TypeOK, ObjectsHaveMakers, HeldIsMapped, SnapshotIsFresh
<1>4. OthersAreEmpty'
  BY <1>0 DEF TypeOK, OthersAreEmpty
<1>5. ASSUME NEW x \in Calls, NEW r \in Projects, NEW api \in APIs
      PROVE  /\ InCollector(x, r, api)' <=>
                    InCollector(x, r, api) \/ (x = c /\ r = p /\ api = a)
             /\ InSnapshot(x, r, api)' <=> InSnapshot(x, r, api)
             /\ InPosted(x, r, api)' <=> InPosted(x, r, api)
  <2>1. InSnapshot(x, r, api)' <=> InSnapshot(x, r, api)
    BY <1>0 DEF InSnapshot
  <2>2. InPosted(x, r, api)' <=> InPosted(x, r, api)
    BY <1>0 DEF InPosted
  <2>3. CASE r = p /\ api = a
    <3>1. byAPI'[projects'[r]][api] = new
      BY <1>0, <2>3 DEF TypeOK, Aggregates
    <3> QED
      BY <1>0, <1>1, <2>1, <2>2, <2>3, <3>1 DEF InCollector, CallsIn
  <2>4. CASE ~ (r = p /\ api = a)
    <3>1. projects[r] # NoMetrics => byAPI'[projects[r]][api] = byAPI[projects[r]][api]
      BY <1>0, <2>4, ObjectsDiffer DEF TypeOK, Aggregates
    <3> QED
      BY <1>0, <2>1, <2>2, <2>4, <3>1 DEF InCollector
  <2> QED
    BY <2>3, <2>4
<1>6. CallsAreInPlace'
  BY <1>0, <1>5 DEF TypeOK, CallsAreInPlace
<1> QED
  BY <1>2, <1>3, <1>4, <1>6

-----------------------------------------------------------------------------
\* What the reporter does leaves the requests alone.
LEMMA SnapshotStartsStep == IInv /\ SnapshotStarts => IInv'
<1> SUFFICES ASSUME IInv, SnapshotStarts PROVE IInv'
  OBVIOUS
<1> USE DEF IInv, SnapshotStarts, callVars
<1>1. TypeOK'
  BY DEF TypeOK, Present
<1>2. ObjectsHaveMakers' /\ HeldIsMapped' /\ OthersAreEmpty' /\ SnapshotIsFresh'
  BY DEF ObjectsHaveMakers, HeldIsMapped, OthersAreEmpty, SnapshotIsFresh
<1>3. CallsAreInPlace'
  BY DEF CallsAreInPlace, InCollector, InSnapshot, InPosted
<1> QED
  BY <1>1, <1>2, <1>3

LEMMA VisitsStep ==
    ASSUME IInv, NEW p \in Projects, Visits(p)
    PROVE  IInv'
<1> USE DEF IInv
<1>0. /\ reporter = "ranging" /\ projects[p] # NoMetrics /\ projects[p] \in Calls
      /\ snapshot[p] = NoAggregates
      /\ visited' = visited \cup {p}
      /\ snapshot' = [snapshot EXCEPT ![p] = byAPI[projects[p]]]
      /\ byAPI' = [byAPI EXCEPT ![projects[p]] = NoAggregates]
      /\ UNCHANGED <<call, pc, held, projects, reporter, mustVisit, posted>>
  BY DEF Visits, Present, callVars, TypeOK, SnapshotIsFresh
<1>1. TypeOK'
  BY <1>0, NoAggregatesIsEmpty DEF TypeOK
<1>2. ObjectsHaveMakers' /\ HeldIsMapped'
  BY <1>0 DEF ObjectsHaveMakers, HeldIsMapped
<1>3. OthersAreEmpty'
  BY <1>0 DEF TypeOK, OthersAreEmpty
<1>4. SnapshotIsFresh'
  BY <1>0 DEF TypeOK, SnapshotIsFresh
<1>5. ASSUME NEW c \in Calls, NEW api \in APIs
      PROVE  /\ ~ InCollector(c, p, api)'
             /\ InSnapshot(c, p, api)' <=> InCollector(c, p, api)
             /\ ~ InSnapshot(c, p, api)
             /\ InPosted(c, p, api)' <=> InPosted(c, p, api)
  BY <1>0, NoAggregatesIsEmpty DEF TypeOK, InCollector, InSnapshot, InPosted
<1>6. ASSUME NEW c \in Calls, NEW r \in Projects \ {p}, NEW api \in APIs
      PROVE  /\ InCollector(c, r, api)' <=> InCollector(c, r, api)
             /\ InSnapshot(c, r, api)' <=> InSnapshot(c, r, api)
             /\ InPosted(c, r, api)' <=> InPosted(c, r, api)
  <2>1. projects[r] # NoMetrics => byAPI'[projects[r]] = byAPI[projects[r]]
    BY <1>0, ObjectsDiffer DEF TypeOK
  <2> QED
    BY <1>0, <2>1 DEF TypeOK, InCollector, InSnapshot, InPosted
<1>7. CallsAreInPlace'
  <2> SUFFICES ASSUME NEW c \in Calls, NEW r \in Projects, NEW api \in APIs
               PROVE  /\ InCollector(c, r, api)' \/ InSnapshot(c, r, api)' \/ InPosted(c, r, api)' =>
                             pc[c] = "recorded" /\ call[c].project = r /\ call[c].api = api
                      /\ ~ (InCollector(c, r, api)' /\ InSnapshot(c, r, api)')
                      /\ ~ (InCollector(c, r, api)' /\ InPosted(c, r, api)')
                      /\ ~ (InSnapshot(c, r, api)' /\ InPosted(c, r, api)')
                      /\ pc[c] = "recorded" /\ call[c].project = r /\ call[c].api = api =>
                             InCollector(c, r, api)' \/ InSnapshot(c, r, api)' \/ InPosted(c, r, api)'
    BY <1>0 DEF CallsAreInPlace
  <2>1. CASE r = p
    BY <1>5, <2>1 DEF CallsAreInPlace
  <2>2. CASE r # p
    BY <1>6, <2>2 DEF CallsAreInPlace
  <2> QED
    BY <2>1, <2>2
<1> QED
  BY <1>1, <1>2, <1>3, <1>4, <1>7

LEMMA SnapshotEndsStep == IInv /\ SnapshotEnds => IInv'
<1> SUFFICES ASSUME IInv, SnapshotEnds PROVE IInv'
  OBVIOUS
<1> USE DEF IInv, SnapshotEnds, callVars
<1>1. TypeOK'
  BY DEF TypeOK
<1>2. ObjectsHaveMakers' /\ HeldIsMapped' /\ OthersAreEmpty' /\ SnapshotIsFresh'
  BY DEF ObjectsHaveMakers, HeldIsMapped, OthersAreEmpty, SnapshotIsFresh
<1>3. CallsAreInPlace'
  BY DEF CallsAreInPlace, InCollector, InSnapshot, InPosted
<1> QED
  BY <1>1, <1>2, <1>3

LEMMA PostsStep ==
    ASSUME IInv, NEW p \in Projects, Posts(p)
    PROVE  IInv'
<1> USE DEF IInv
<1>0. /\ reporter = "posting"
      /\ posted' = [posted EXCEPT ![p] =
             [api \in APIs |-> posted[p][api] \cup CallsIn(snapshot[p][api])]]
      /\ snapshot' = [snapshot EXCEPT ![p] = NoAggregates]
      /\ UNCHANGED <<call, pc, held, projects, byAPI, reporter, mustVisit, visited>>
  BY DEF Posts, callVars
<1>1. TypeOK'
  <2>1. \A api \in APIs : CallsIn(snapshot[p][api]) \in SUBSET Calls
    BY DEF TypeOK, Aggregates, Aggregate, CallsIn
  <2> QED
    BY <1>0, <2>1, NoAggregatesIsEmpty DEF TypeOK
<1>2. ObjectsHaveMakers' /\ HeldIsMapped' /\ OthersAreEmpty' /\ SnapshotIsFresh'
  BY <1>0 DEF ObjectsHaveMakers, HeldIsMapped, OthersAreEmpty, SnapshotIsFresh
<1>3. ASSUME NEW c \in Calls, NEW r \in Projects, NEW api \in APIs
      PROVE  /\ InCollector(c, r, api)' <=> InCollector(c, r, api)
             /\ InSnapshot(c, r, api)' <=> InSnapshot(c, r, api) /\ r # p
             /\ InPosted(c, r, api)' <=>
                    InPosted(c, r, api) \/ (InSnapshot(c, r, api) /\ r = p)
  <2>1. CASE r = p
    BY <1>0, <2>1, NoAggregatesIsEmpty DEF TypeOK, InCollector, InSnapshot, InPosted
  <2>2. CASE r # p
    BY <1>0, <2>2 DEF TypeOK, InCollector, InSnapshot, InPosted
  <2> QED
    BY <2>1, <2>2
<1>4. CallsAreInPlace'
  BY <1>0, <1>3 DEF CallsAreInPlace
<1> QED
  BY <1>1, <1>2, <1>4

LEMMA ReportEndsStep == IInv /\ ReportEnds => IInv'
<1> SUFFICES ASSUME IInv, ReportEnds PROVE IInv'
  OBVIOUS
<1> USE DEF IInv, ReportEnds, callVars
<1>1. TypeOK'
  BY DEF TypeOK
<1>2. ObjectsHaveMakers' /\ HeldIsMapped' /\ OthersAreEmpty' /\ SnapshotIsFresh'
  BY DEF ObjectsHaveMakers, HeldIsMapped, OthersAreEmpty, SnapshotIsFresh
<1>3. CallsAreInPlace'
  BY DEF CallsAreInPlace, InCollector, InSnapshot, InPosted
<1> QED
  BY <1>1, <1>2, <1>3

LEMMA InductiveInvariant == Spec => []IInv
<1>1. IInv /\ [Next]_vars => IInv'
  <2> SUFFICES ASSUME IInv, [Next]_vars PROVE IInv'
    OBVIOUS
  <2>1. ASSUME NEW c \in Calls, NEW p \in Projects, NEW api \in APIs,
               NEW m \in Outcomes[api], Loads(c, p, api, m)
        PROVE  IInv'
    BY <2>1, LoadsStep
  <2>2. ASSUME NEW c \in Calls, LoadsOrStores(c) PROVE IInv'
    BY <2>2, LoadsOrStoresStep
  <2>3. ASSUME NEW c \in Calls, Accumulates(c) PROVE IInv'
    BY <2>3, AccumulatesStep
  <2>4. ASSUME NEW p \in Projects, Visits(p) PROVE IInv'
    BY <2>4, VisitsStep
  <2>5. ASSUME NEW p \in Projects, Posts(p) PROVE IInv'
    BY <2>5, PostsStep
  <2>6. CASE UNCHANGED vars
    <3>1. UNCHANGED <<call, pc, held, projects, byAPI, reporter, mustVisit, visited,
                      snapshot, posted>>
      BY <2>6 DEF vars, callVars
    <3> QED
      BY <3>1 DEF IInv, TypeOK, ObjectsHaveMakers, HeldIsMapped, OthersAreEmpty,
         SnapshotIsFresh, CallsAreInPlace, InCollector, InSnapshot, InPosted
  <2> QED
    BY <2>1, <2>2, <2>3, <2>4, <2>5, <2>6, SnapshotStartsStep, SnapshotEndsStep,
       ReportEndsStep DEF Next, ReporterStep
<1> QED
  BY InitIsGood, <1>1, PTL DEF Spec

-----------------------------------------------------------------------------
(***************************************************************************)
(* Type correctness of the collector and the reporter.                     *)
(***************************************************************************)
THEOREM TypeCorrect == Spec => []TypeOK
<1>1. IInv => TypeOK
  BY DEF IInv
<1> QED
  BY InductiveInvariant, <1>1, PTL

(***************************************************************************)
(* For any number of calls, projects and APIs, no recorded call is lost or *)
(* counted twice, whatever the requests and the reporter interleave.       *)
(***************************************************************************)
THEOREM CallsAreCountedOnce == Spec => []EveryCallIsInOneWindow
<1>1. IInv => EveryCallIsInOneWindow
  <2> SUFFICES ASSUME IInv, NEW c \in Calls, pc[c] = "recorded"
               PROVE  \E place \in {"collector", "snapshot", "posted"} :
                          Places(c) = {<<place, call[c].project, call[c].api>>}
    BY DEF EveryCallIsInOneWindow
  <2> DEFINE p == call[c].project
             api == call[c].api
  <2>0. p \in Projects /\ api \in APIs
    BY CallParts DEF IInv
  <2>1. \A x : x \in Places(c) <=>
            \E r \in Projects, a \in APIs :
                \/ x = <<"collector", r, a>> /\ InCollector(c, r, a)
                \/ x = <<"snapshot", r, a>> /\ InSnapshot(c, r, a)
                \/ x = <<"posted", r, a>> /\ InPosted(c, r, a)
    BY DEF Places, CallsAt, InCollector, InSnapshot, InPosted
  <2>2. \A r \in Projects, a \in APIs :
            InCollector(c, r, a) \/ InSnapshot(c, r, a) \/ InPosted(c, r, a)
            => r = p /\ a = api
    BY DEF IInv, CallsAreInPlace
  <2>3. \A x : x \in Places(c) <=>
            \/ x = <<"collector", p, api>> /\ InCollector(c, p, api)
            \/ x = <<"snapshot", p, api>> /\ InSnapshot(c, p, api)
            \/ x = <<"posted", p, api>> /\ InPosted(c, p, api)
    BY <2>0, <2>1, <2>2
  <2>4. /\ InCollector(c, p, api) \/ InSnapshot(c, p, api) \/ InPosted(c, p, api)
        /\ ~ (InCollector(c, p, api) /\ InSnapshot(c, p, api))
        /\ ~ (InCollector(c, p, api) /\ InPosted(c, p, api))
        /\ ~ (InSnapshot(c, p, api) /\ InPosted(c, p, api))
    BY <2>0 DEF IInv, CallsAreInPlace
  <2>5. CASE InCollector(c, p, api)
    <3>1. Places(c) = {<<"collector", p, api>>}
      BY <2>3, <2>4, <2>5
    <3> QED
      BY <3>1
  <2>6. CASE InSnapshot(c, p, api)
    <3>1. Places(c) = {<<"snapshot", p, api>>}
      BY <2>3, <2>4, <2>6
    <3> QED
      BY <3>1
  <2>7. CASE InPosted(c, p, api)
    <3>1. Places(c) = {<<"posted", p, api>>}
      BY <2>3, <2>4, <2>7
    <3> QED
      BY <3>1
  <2> QED
    BY <2>4, <2>5, <2>6, <2>7
<1> QED
  BY InductiveInvariant, <1>1, PTL

-----------------------------------------------------------------------------
(* What an aggregate says of its calls.                                    *)

IsLeast(n, D) == n \in D /\ \A d \in D : n <= d
IsGreatest(n, D) == n \in D /\ \A d \in D : d <= n

StatsDescribe(stats, m) ==
    /\ stats.count = Number(m)
    /\ stats.sum = TotalDuration(m)
    /\ DOMAIN m = {} => stats.min = MaxInt64 /\ stats.max = 0
    /\ DOMAIN m # {} => IsLeast(stats.min, Durations(m)) /\ IsGreatest(stats.max, Durations(m))

Describes(agg, m) ==
    /\ IsFiniteSet(DOMAIN m)
    /\ StatsDescribe(agg.hits, Hits(m))
    /\ StatsDescribe(agg.misses, Misses(m))
    /\ agg.resultSize = TotalResultSize(m)
    /\ agg.filtered = TotalFiltered(Hits(m))

AggregatesInUse ==
    ({ byAPI[o][api] : o \in Calls, api \in APIs }
     \cup { snapshot[p][api] : p \in Projects, api \in APIs }) \ {NoAggregate}

Recorded == { c \in Calls : pc[c] = "recorded" }

\* The aggregates are of recorded calls, and describe them.
AggregatesDescribeTheirCalls ==
    \A agg \in AggregatesInUse :
        agg.calls \subseteq Recorded /\ Describes(agg, MetricsOf(agg.calls))

-----------------------------------------------------------------------------
(* One call more.                                                          *)

\* What a call may record.
Recordable(n) ==
    n \in CallMetrics /\ n.duration < MaxInt64 /\ (~ n.hit => n.filtered = 0)

MetricsFunction(m) == IsFiniteSet(DOMAIN m) /\ \A c \in DOMAIN m : m[c] \in CallMetrics

\* m2 is m and the metrics n of a further call.
Adds(m2, m, c, n) ==
    /\ c \notin DOMAIN m /\ m2[c] = n
    /\ DOMAIN m2 = DOMAIN m \cup {c}
    /\ \A x \in DOMAIN m : m2[x] = m[x]

LEMMA AddsOne ==
    ASSUME NEW m, MetricsFunction(m), NEW n \in CallMetrics, NEW c, NEW m2, Adds(m2, m, c, n)
    PROVE  /\ Number(m2) = Number(m) + 1
           /\ TotalDuration(m2) = TotalDuration(m) + n.duration
           /\ TotalResultSize(m2) = TotalResultSize(m) + n.resultSize
           /\ TotalFiltered(m2) = TotalFiltered(m) + n.filtered
           /\ Durations(m2) = Durations(m) \cup {n.duration}
<1>0. /\ IsFiniteSet(DOMAIN m) /\ c \notin DOMAIN m /\ DOMAIN m2 = DOMAIN m \cup {c}
      /\ \A x \in DOMAIN m : m[x] \in CallMetrics /\ m2[x] = m[x]
      /\ m2[c] = n
  BY DEF Adds, MetricsFunction
<1>1. Number(m2) = Number(m) + 1
  BY <1>0, FS_AddElement DEF Number
<1>2. TotalDuration(m2) = TotalDuration(m) + n.duration
  <2> DEFINE f == [x \in DOMAIN m |-> m[x].duration]
             g == [x \in DOMAIN m2 |-> m2[x].duration]
  <2>1. /\ IsFiniteSet(DOMAIN f) /\ c \notin DOMAIN f /\ DOMAIN g = DOMAIN f \cup {c}
        /\ \A y \in DOMAIN f : f[y] \in Nat /\ g[y] = f[y]
        /\ g[c] = n.duration /\ n.duration \in Nat
    BY <1>0 DEF CallMetrics
  <2> HIDE DEF f, g
  <2>2. SumFunction(g) = SumFunction(f) + g[c]
    BY <2>1, SumExtends
  <2> QED
    BY <2>1, <2>2 DEF TotalDuration, f, g
<1>3. TotalResultSize(m2) = TotalResultSize(m) + n.resultSize
  <2> DEFINE f == [x \in DOMAIN m |-> m[x].resultSize]
             g == [x \in DOMAIN m2 |-> m2[x].resultSize]
  <2>1. /\ IsFiniteSet(DOMAIN f) /\ c \notin DOMAIN f /\ DOMAIN g = DOMAIN f \cup {c}
        /\ \A y \in DOMAIN f : f[y] \in Nat /\ g[y] = f[y]
        /\ g[c] = n.resultSize /\ n.resultSize \in Nat
    BY <1>0 DEF CallMetrics
  <2> HIDE DEF f, g
  <2>2. SumFunction(g) = SumFunction(f) + g[c]
    BY <2>1, SumExtends
  <2> QED
    BY <2>1, <2>2 DEF TotalResultSize, f, g
<1>4. TotalFiltered(m2) = TotalFiltered(m) + n.filtered
  <2> DEFINE f == [x \in DOMAIN m |-> m[x].filtered]
             g == [x \in DOMAIN m2 |-> m2[x].filtered]
  <2>1. /\ IsFiniteSet(DOMAIN f) /\ c \notin DOMAIN f /\ DOMAIN g = DOMAIN f \cup {c}
        /\ \A y \in DOMAIN f : f[y] \in Nat /\ g[y] = f[y]
        /\ g[c] = n.filtered /\ n.filtered \in Nat
    BY <1>0 DEF CallMetrics
  <2> HIDE DEF f, g
  <2>2. SumFunction(g) = SumFunction(f) + g[c]
    BY <2>1, SumExtends
  <2> QED
    BY <2>1, <2>2 DEF TotalFiltered, f, g
<1>5. Durations(m2) = Durations(m) \cup {n.duration}
  BY <1>0 DEF Durations
<1> QED
  BY <1>1, <1>2, <1>3, <1>4, <1>5

LEMMA PartsAreFinite ==
    ASSUME NEW m, MetricsFunction(m)
    PROVE  /\ MetricsFunction(Hits(m)) /\ MetricsFunction(Misses(m))
           /\ DOMAIN Hits(m) \subseteq DOMAIN m
           /\ DOMAIN Misses(m) = DOMAIN m \ DOMAIN Hits(m)
           /\ \A c \in DOMAIN Hits(m) : Hits(m)[c] = m[c]
           /\ \A c \in DOMAIN Misses(m) : Misses(m)[c] = m[c]
<1>1. /\ DOMAIN Hits(m) = { c \in DOMAIN m : m[c].hit }
      /\ DOMAIN Misses(m) = { c \in DOMAIN m : ~ m[c].hit }
      /\ \A c \in DOMAIN Hits(m) : Hits(m)[c] = m[c]
      /\ \A c \in DOMAIN Misses(m) : Misses(m)[c] = m[c]
  BY DEF Hits, Misses, Restrict
<1>2. IsFiniteSet(DOMAIN Hits(m)) /\ IsFiniteSet(DOMAIN Misses(m))
  BY <1>1, FS_Subset DEF MetricsFunction
<1> QED
  BY <1>1, <1>2 DEF MetricsFunction

LEMMA AddsToOnePart ==
    ASSUME NEW m, MetricsFunction(m), NEW n \in CallMetrics, NEW c, NEW m2, Adds(m2, m, c, n)
    PROVE  /\ n.hit => Adds(Hits(m2), Hits(m), c, n) /\ Misses(m2) = Misses(m)
           /\ ~ n.hit => Adds(Misses(m2), Misses(m), c, n) /\ Hits(m2) = Hits(m)
<1> DEFINE H(f) == { x \in DOMAIN f : f[x].hit }
           M(f) == { x \in DOMAIN f : ~ f[x].hit }
<1>1. /\ n.hit => H(m2) = H(m) \cup {c} /\ M(m2) = M(m)
      /\ ~ n.hit => M(m2) = M(m) \cup {c} /\ H(m2) = H(m)
      /\ \A x \in H(m) \cup M(m) : m2[x] = m[x]
      /\ c \notin H(m) \cup M(m) /\ m2[c] = n
  BY DEF Adds
<1> QED
  BY <1>1 DEF Adds, Hits, Misses, Restrict

LEMMA ObserveDescribes ==
    ASSUME NEW m, MetricsFunction(m), NEW stats \in Stats, StatsDescribe(stats, m),
           NEW n, Recordable(n), NEW c, NEW m2, Adds(m2, m, c, n)
    PROVE  StatsDescribe(Observe(stats, n.duration), m2)
<1> DEFINE d == n.duration
           new == Observe(stats, d)
<1>1. d \in Nat /\ d < MaxInt64 /\ n \in CallMetrics
  BY DEF Recordable, CallMetrics
<1>2. /\ stats.min \in Nat /\ stats.max \in Nat
      /\ Durations(m) \subseteq Nat
      /\ DOMAIN m = {} <=> Durations(m) = {}
  <2>1. \A x \in DOMAIN m : m[x].duration \in Nat
    BY DEF MetricsFunction, CallMetrics
  <2>2. Durations(m) \subseteq Nat /\ (DOMAIN m = {} <=> Durations(m) = {})
    BY <2>1 DEF Durations
  <2> QED
    BY <2>2 DEF Stats
<1>3. /\ Number(m2) = Number(m) + 1 /\ TotalDuration(m2) = TotalDuration(m) + d
      /\ Durations(m2) = Durations(m) \cup {d}
  BY <1>1, AddsOne
<1>4. /\ new.count = Number(m2) /\ new.sum = TotalDuration(m2)
      /\ new.min = IF stats.min <= d THEN stats.min ELSE d
      /\ new.max = IF stats.max <= d THEN d ELSE stats.max
  BY <1>1, <1>2, <1>3, MinMaxOfTwo DEF StatsDescribe, Observe
<1> HIDE DEF new, d
<1>5. IsLeast(new.min, Durations(m2)) /\ IsGreatest(new.max, Durations(m2))
  <2>1. CASE DOMAIN m = {}
    <3>1. stats.min = MaxInt64 /\ stats.max = 0 /\ Durations(m2) = {d}
      BY <1>2, <1>3, <2>1 DEF StatsDescribe
    <3>2. new.min = d /\ new.max = d
      BY <1>1, <1>4, <3>1, MaxInt64Assumption
    <3> QED
      BY <1>1, <3>1, <3>2 DEF IsLeast, IsGreatest
  <2>2. CASE DOMAIN m # {}
    <3>1. /\ stats.min \in Durations(m) /\ \A x \in Durations(m) : stats.min <= x
          /\ stats.max \in Durations(m) /\ \A x \in Durations(m) : x <= stats.max
      BY <2>2 DEF StatsDescribe, IsLeast, IsGreatest
    <3>2. new.min \in Durations(m2) /\ new.max \in Durations(m2)
      BY <1>3, <1>4, <3>1
    <3>3. \A x \in Durations(m2) : new.min <= x /\ x <= new.max
      BY <1>1, <1>2, <1>3, <1>4, <3>1
    <3> QED
      BY <3>2, <3>3 DEF IsLeast, IsGreatest
  <2> QED
    BY <2>1, <2>2
<1>6. DOMAIN m2 # {}
  BY DEF Adds
<1> QED
  BY <1>4, <1>5, <1>6 DEF StatsDescribe, new, d

LEMMA AccumulateDescribes ==
    ASSUME NEW agg \in Aggregate, NEW m, MetricsFunction(m), Describes(agg, m),
           NEW n, Recordable(n), NEW c, NEW m2, Adds(m2, m, c, n)
    PROVE  Describes(Accumulate(agg, c, n), m2)
<1> DEFINE new == Accumulate(agg, c, n)
<1>1. /\ n \in CallMetrics /\ n.filtered \in Nat /\ n.resultSize \in Nat /\ n.hit \in BOOLEAN
      /\ agg.hits \in Stats /\ agg.misses \in Stats
      /\ agg.filtered \in Nat /\ agg.resultSize \in Nat
  BY DEF Recordable, CallMetrics, Aggregate, Stats
<1>2. /\ MetricsFunction(Hits(m)) /\ MetricsFunction(Misses(m))
      /\ StatsDescribe(agg.hits, Hits(m)) /\ StatsDescribe(agg.misses, Misses(m))
      /\ agg.resultSize = TotalResultSize(m) /\ agg.filtered = TotalFiltered(Hits(m))
  BY PartsAreFinite DEF Describes
<1>3. IsFiniteSet(DOMAIN m2)
  BY FS_AddElement DEF Adds, MetricsFunction
<1>4. new.resultSize = TotalResultSize(m2)
  BY <1>1, <1>2, AddsOne DEF Accumulate
<1>5. /\ new.hits = IF n.hit THEN Observe(agg.hits, n.duration) ELSE agg.hits
      /\ new.misses = IF n.hit THEN agg.misses ELSE Observe(agg.misses, n.duration)
      /\ new.filtered = agg.filtered + n.filtered
  BY DEF Accumulate
<1> HIDE DEF new
<1>6. CASE n.hit
  <2>1. Adds(Hits(m2), Hits(m), c, n) /\ Misses(m2) = Misses(m)
    BY <1>1, <1>6, AddsToOnePart
  <2>2. StatsDescribe(Observe(agg.hits, n.duration), Hits(m2))
    BY <1>1, <1>2, <2>1, ObserveDescribes
  <2>3. TotalFiltered(Hits(m2)) = TotalFiltered(Hits(m)) + n.filtered
    BY <1>1, <1>2, <2>1, AddsOne
  <2>4. new.filtered = TotalFiltered(Hits(m2))
    BY <1>2, <1>5, <2>3
  <2>5. StatsDescribe(new.hits, Hits(m2)) /\ StatsDescribe(new.misses, Misses(m2))
    BY <1>2, <1>5, <1>6, <2>1, <2>2
  <2> QED
    BY <1>3, <1>4, <2>4, <2>5 DEF Describes, new
<1>7. CASE ~ n.hit
  <2>1. Adds(Misses(m2), Misses(m), c, n) /\ Hits(m2) = Hits(m)
    BY <1>1, <1>7, AddsToOnePart
  <2>2. StatsDescribe(Observe(agg.misses, n.duration), Misses(m2))
    BY <1>1, <1>2, <2>1, ObserveDescribes
  <2>3. n.filtered = 0
    BY <1>7 DEF Recordable
  <2>4. new.filtered = TotalFiltered(Hits(m2))
    BY <1>1, <1>2, <1>5, <2>1, <2>3
  <2>5. StatsDescribe(new.hits, Hits(m2)) /\ StatsDescribe(new.misses, Misses(m2))
    BY <1>2, <1>5, <1>7, <2>1, <2>2
  <2> QED
    BY <1>3, <1>4, <2>4, <2>5 DEF Describes, new
<1> QED
  BY <1>1, <1>6, <1>7

LEMMA NewDescribesNothing ==
    ASSUME NEW m, DOMAIN m = {}
    PROVE  Describes(newAggregatedMetrics, m)
<1>1. /\ IsFiniteSet({}) /\ Cardinality({}) = 0
  BY FS_EmptySet
<1>2. ASSUME NEW h, DOMAIN h = {}
      PROVE  Number(h) = 0 /\ TotalDuration(h) = 0 /\ TotalResultSize(h) = 0 /\ TotalFiltered(h) = 0
  BY <1>1, <1>2, SumOfNone DEF Number, TotalDuration, TotalResultSize, TotalFiltered, SumFunction
<1>3. DOMAIN Hits(m) = {} /\ DOMAIN Misses(m) = {}
  BY DEF Hits, Misses, Restrict
<1>4. StatsDescribe(EmptyStats, Hits(m)) /\ StatsDescribe(EmptyStats, Misses(m))
  BY <1>2, <1>3 DEF StatsDescribe, EmptyStats
<1> QED
  BY <1>1, <1>2, <1>3, <1>4 DEF Describes, newAggregatedMetrics

-----------------------------------------------------------------------------
(* The aggregates describe their calls in every step.                      *)

\* What a call has recorded stays as it was.
LEMMA RecordedCallsStay ==
    ASSUME IInv, [Next]_vars, NEW c \in Recorded
    PROVE  c \in Recorded' /\ call'[c] = call[c]
<1> USE DEF Recorded, IInv
<1>1. ASSUME NEW x \in Calls, NEW p \in Projects, NEW api \in APIs,
             NEW m \in Outcomes[api], Loads(x, p, api, m)
      PROVE  pc'[c] = pc[c] /\ call'[c] = call[c]
  BY <1>1 DEF Loads, TypeOK
<1>2. ASSUME NEW x \in Calls, LoadsOrStores(x)
      PROVE  pc'[c] = pc[c] /\ call'[c] = call[c]
  BY <1>2 DEF LoadsOrStores, TypeOK
<1>3. ASSUME NEW x \in Calls, Accumulates(x)
      PROVE  pc'[c] = pc[c] /\ call'[c] = call[c]
  BY <1>3 DEF Accumulates, TypeOK
<1>4. CASE ReporterStep
  BY <1>4 DEF ReporterStep, SnapshotStarts, Visits, SnapshotEnds, Posts, ReportEnds, callVars
<1>5. CASE UNCHANGED vars
  BY <1>5 DEF vars, callVars
<1> QED
  BY <1>1, <1>2, <1>3, <1>4, <1>5 DEF Next

LEMMA DescriptionsStay ==
    ASSUME IInv, AggregatesDescribeTheirCalls, [Next]_vars, NEW agg \in AggregatesInUse
    PROVE  agg.calls \subseteq Recorded' /\ Describes(agg, MetricsOf(agg.calls)')
<1>1. agg.calls \subseteq Recorded /\ Describes(agg, MetricsOf(agg.calls))
  BY DEF AggregatesDescribeTheirCalls
<1>2. \A c \in agg.calls : c \in Recorded' /\ call'[c] = call[c]
  BY <1>1, RecordedCallsStay
<1>3. MetricsOf(agg.calls)' = MetricsOf(agg.calls)
  BY <1>2 DEF MetricsOf
<1> QED
  BY <1>1, <1>2, <1>3

\* Only Accumulates makes an aggregate.
LEMMA AggregatesMove ==
    ASSUME IInv, [Next]_vars, \A c \in Calls : ~ Accumulates(c)
    PROVE  AggregatesInUse' \subseteq AggregatesInUse
<1> USE DEF IInv
<1>1. CASE UNCHANGED <<byAPI, snapshot>>
  BY <1>1 DEF AggregatesInUse
<1>2. ASSUME NEW p \in Projects, Visits(p)
      PROVE  AggregatesInUse' \subseteq AggregatesInUse
  <2>1. /\ projects[p] \in Calls
        /\ \A r \in Projects : snapshot'[r] = IF r = p THEN byAPI[projects[p]] ELSE snapshot[r]
        /\ \A o \in Calls : byAPI'[o] = IF o = projects[p] THEN NoAggregates ELSE byAPI[o]
    BY <1>2 DEF Visits, Present, TypeOK
  <2>2. \A api \in APIs : NoAggregates[api] = NoAggregate
    BY DEF NoAggregates
  <2> QED
    BY <2>1, <2>2 DEF AggregatesInUse
<1>3. ASSUME NEW p \in Projects, Posts(p)
      PROVE  AggregatesInUse' \subseteq AggregatesInUse
  <2>1. /\ \A r \in Projects : snapshot'[r] = IF r = p THEN NoAggregates ELSE snapshot[r]
        /\ byAPI' = byAPI
    BY <1>3 DEF Posts, TypeOK
  <2>2. \A api \in APIs : NoAggregates[api] = NoAggregate
    BY DEF NoAggregates
  <2> QED
    BY <2>1, <2>2 DEF AggregatesInUse
<1> QED
  BY <1>1, <1>2, <1>3 DEF Next, ReporterStep, Loads, LoadsOrStores, SnapshotStarts,
     SnapshotEnds, ReportEnds, vars

LEMMA RecordableCalls ==
    ASSUME TypeOK, NEW c \in Calls, pc[c] # "idle"
    PROVE  Recordable(call[c].metrics)
<1>1. call[c] \in Call
  BY DEF TypeOK
<1>2. PICK api \in APIs :
          call[c] \in [project : Projects, api : {api}, metrics : Outcomes[api]]
  BY <1>1 DEF Call
<1>3. call[c].metrics \in Outcomes[api]
  BY <1>2
<1> QED
  BY <1>3, OutcomesAssumption, FilteredAssumption DEF Recordable

LEMMA AccumulatesDescribes ==
    ASSUME IInv, AggregatesDescribeTheirCalls, NEW c \in Calls, Accumulates(c)
    PROVE  AggregatesDescribeTheirCalls'
<1> USE DEF IInv
<1> DEFINE a == call[c].api
           o == held[c]
           n == call[c].metrics
           agg == IF byAPI[o][a] = NoAggregate THEN newAggregatedMetrics ELSE byAPI[o][a]
           new == Accumulate(agg, c, n)
           W == agg.calls
<1>0. /\ pc[c] = "holding" /\ o \in Calls /\ a \in APIs
      /\ byAPI' = [byAPI EXCEPT ![o][a] = new]
      /\ pc' = [pc EXCEPT ![c] = "recorded"]
      /\ UNCHANGED <<call, snapshot>>
  <2>1. pc[c] = "holding"
    BY DEF Accumulates
  <2> QED
    BY <2>1, CallParts DEF Accumulates, TypeOK
<1>1. Recordable(n) /\ n \in CallMetrics
  BY <1>0, RecordableCalls DEF Recordable
<1>2. /\ agg \in Aggregate /\ W \subseteq Recorded /\ Describes(agg, MetricsOf(W))
  <2>1. CASE byAPI[o][a] = NoAggregate
    <3>1. agg = newAggregatedMetrics /\ W = {}
      BY <2>1, NewIsAggregate
    <3>2. DOMAIN MetricsOf(W) = {}
      BY <3>1 DEF MetricsOf
    <3>3. Describes(newAggregatedMetrics, MetricsOf(W))
      BY <3>2, NewDescribesNothing
    <3> HIDE DEF W
    <3> QED
      BY <3>1, <3>3, NewIsAggregate
  <2>2. CASE byAPI[o][a] # NoAggregate
    <3>1. agg = byAPI[o][a] /\ agg \in AggregatesInUse
      BY <1>0, <2>2 DEF AggregatesInUse
    <3>2. agg \in Aggregate
      BY <1>0, <2>2, <3>1 DEF TypeOK, Aggregates
    <3> HIDE DEF agg
    <3> QED
      BY <3>1, <3>2 DEF AggregatesDescribeTheirCalls
  <2> QED
    BY <2>1, <2>2
<1>3. /\ new \in Aggregate /\ new.calls = W \cup {c}
  <2> HIDE DEF agg
  <2> QED
    BY <1>1, <1>2, AccumulateIsAggregate
<1>4. c \notin W /\ W \cup {c} \subseteq Recorded'
  <2> HIDE DEF W
  <2> QED
    BY <1>0, <1>2 DEF Recorded, TypeOK
<1>5. Adds(MetricsOf(W \cup {c}), MetricsOf(W), c, n)
  <2> HIDE DEF W
  <2> QED
    BY <1>4 DEF Adds, MetricsOf
<1>6. MetricsFunction(MetricsOf(W))
  <2>1. IsFiniteSet(DOMAIN MetricsOf(W))
    BY <1>2 DEF Describes
  <2>2. \A x \in W : call[x].metrics \in CallMetrics
    <3> HIDE DEF W
    <3> QED
      BY <1>2, CallParts DEF Recorded
  <2> HIDE DEF W
  <2> QED
    BY <2>1, <2>2 DEF MetricsFunction, MetricsOf
<1>7. Describes(new, MetricsOf(W \cup {c}))
  <2> HIDE DEF agg, W
  <2> QED
    BY <1>1, <1>2, <1>5, <1>6, AccumulateDescribes
<1>8. ASSUME NEW x, x.calls = W \cup {c}
      PROVE  MetricsOf(x.calls)' = MetricsOf(W \cup {c})
  <2> HIDE DEF W
  <2> QED
    BY <1>0, <1>8 DEF MetricsOf
<1>9. AggregatesInUse' \subseteq AggregatesInUse \cup {new}
  <2> HIDE DEF new
  <2>1. \A x \in Calls, api \in APIs :
            byAPI'[x][api] = IF x = o /\ api = a THEN new ELSE byAPI[x][api]
    BY <1>0 DEF TypeOK, Aggregates
  <2>2. snapshot' = snapshot
    BY <1>0
  <2> HIDE DEF o, a
  <2> QED
    BY <2>1, <2>2 DEF AggregatesInUse
<1>10. ASSUME NEW x \in AggregatesInUse'
       PROVE  x.calls \subseteq Recorded' /\ Describes(x, MetricsOf(x.calls)')
  <2>1. CASE x \in AggregatesInUse
    <3>1. [Next]_vars
      BY DEF Next
    <3> QED
      BY <2>1, <3>1, DescriptionsStay
  <2>2. CASE x = new
    <3> HIDE DEF new, W
    <3> QED
      BY <1>3, <1>4, <1>7, <1>8, <2>2
  <2> HIDE DEF new
  <2> QED
    BY <1>9, <1>10, <2>1, <2>2
<1> QED
  BY <1>10 DEF AggregatesDescribeTheirCalls

LEMMA DescriptionInvariant == Spec => []AggregatesDescribeTheirCalls
<1>1. Init => AggregatesDescribeTheirCalls
  <2> SUFFICES ASSUME Init PROVE AggregatesInUse = {}
    BY DEF AggregatesDescribeTheirCalls
  <2> QED
    BY DEF Init, AggregatesInUse, NoAggregates
<1>2. IInv /\ AggregatesDescribeTheirCalls /\ [Next]_vars => AggregatesDescribeTheirCalls'
  <2> SUFFICES ASSUME IInv, AggregatesDescribeTheirCalls, [Next]_vars
               PROVE  AggregatesDescribeTheirCalls'
    OBVIOUS
  <2>1. ASSUME NEW c \in Calls, Accumulates(c)
        PROVE  AggregatesDescribeTheirCalls'
    BY <2>1, AccumulatesDescribes
  <2>2. CASE \A c \in Calls : ~ Accumulates(c)
    <3> SUFFICES ASSUME NEW agg \in AggregatesInUse'
                 PROVE  agg.calls \subseteq Recorded' /\ Describes(agg, MetricsOf(agg.calls)')
      BY DEF AggregatesDescribeTheirCalls
    <3>1. agg \in AggregatesInUse
      BY <2>2, AggregatesMove
    <3> QED
      BY <3>1, DescriptionsStay
  <2> QED
    BY <2>1, <2>2
<1> QED
  BY InductiveInvariant, <1>1, <1>2, PTL DEF Spec

-----------------------------------------------------------------------------
(* What the payload makes of an aggregate.                                 *)

LEMMA LeastIsMin ==
    ASSUME NEW D, D \subseteq Nat, NEW n
    PROVE  /\ IsLeast(n, D) => n = Min(D)
           /\ IsGreatest(n, D) => n = Max(D)
<1>1. ASSUME IsLeast(n, D) PROVE n = Min(D)
  <2>1. Min(D) \in D /\ \A y \in D : Min(D) <= y
    BY <1>1 DEF Min, IsLeast
  <2>2. n <= Min(D) /\ Min(D) <= n /\ n \in Nat /\ Min(D) \in Nat
    BY <1>1, <2>1 DEF IsLeast
  <2> QED
    BY <2>2
<1>2. ASSUME IsGreatest(n, D) PROVE n = Max(D)
  <2>1. Max(D) \in D /\ \A y \in D : Max(D) >= y
    BY <1>2 DEF Max, IsGreatest
  <2>2. n <= Max(D) /\ Max(D) <= n /\ n \in Nat /\ Max(D) \in Nat
    BY <1>2, <2>1 DEF IsGreatest
  <2> QED
    BY <2>2
<1> QED
  BY <1>1, <1>2

\* What the statistics of some calls say of them, in the words of the property.
LEMMA StatsAreRight ==
    ASSUME NEW m, MetricsFunction(m), NEW stats \in Stats, StatsDescribe(stats, m),
           \A c \in DOMAIN m : m[c].duration < MaxInt64
    PROVE  /\ stats.count = Number(m) /\ (stats.count = 0 <=> DOMAIN m = {})
           /\ MeanDuration(stats) = AverageDuration(m)
           /\ LeastDuration(m) = IF stats.count = 0 THEN 0 ELSE stats.min
           /\ GreatestDuration(m) = stats.max
           /\ stats.count # 0 => stats.min < MaxInt64
<1>1. Durations(m) \subseteq Nat /\ \A d \in Durations(m) : d < MaxInt64
  BY DEF Durations, MetricsFunction, CallMetrics
<1>2. stats.count = Number(m) /\ (stats.count = 0 <=> DOMAIN m = {})
  BY FS_EmptySet DEF StatsDescribe, Number, MetricsFunction
<1>3. MeanDuration(stats) = AverageDuration(m)
  BY <1>2 DEF MeanDuration, AverageDuration, StatsDescribe
<1>4. CASE DOMAIN m = {}
  BY <1>2, <1>3, <1>4 DEF StatsDescribe, LeastDuration, GreatestDuration
<1>5. CASE DOMAIN m # {}
  <2>1. IsLeast(stats.min, Durations(m)) /\ IsGreatest(stats.max, Durations(m))
    BY <1>5 DEF StatsDescribe
  <2>2. stats.min = Min(Durations(m)) /\ stats.max = Max(Durations(m))
    BY <1>1, <2>1, LeastIsMin
  <2>3. stats.min < MaxInt64
    BY <1>1, <2>1 DEF IsLeast
  <2> QED
    BY <1>2, <1>3, <1>5, <2>2, <2>3 DEF LeastDuration, GreatestDuration
<1> QED
  BY <1>4, <1>5

\* The whole window from its hits and its misses.
LEMMA WindowHasTwoParts ==
    ASSUME NEW m, MetricsFunction(m)
    PROVE  /\ Number(m) = Number(Hits(m)) + Number(Misses(m))
           /\ TotalDuration(m) = TotalDuration(Hits(m)) + TotalDuration(Misses(m))
           /\ Durations(m) = Durations(Hits(m)) \cup Durations(Misses(m))
<1> DEFINE D == DOMAIN m
           H == DOMAIN Hits(m)
           f == [c \in D |-> m[c].duration]
<1>1. /\ IsFiniteSet(D) /\ IsFiniteSet(H) /\ IsFiniteSet(D \ H) /\ H \subseteq D
      /\ DOMAIN Misses(m) = D \ H
      /\ \A c \in H : Hits(m)[c] = m[c]
      /\ \A c \in D \ H : Misses(m)[c] = m[c]
      /\ \A c \in D : f[c] \in Nat
  <2>1. /\ IsFiniteSet(D) /\ IsFiniteSet(H) /\ IsFiniteSet(DOMAIN Misses(m)) /\ H \subseteq D
        /\ DOMAIN Misses(m) = D \ H
        /\ \A c \in H : Hits(m)[c] = m[c]
        /\ \A c \in DOMAIN Misses(m) : Misses(m)[c] = m[c]
    BY PartsAreFinite DEF MetricsFunction
  <2>2. \A c \in D : f[c] \in Nat
    BY DEF MetricsFunction, CallMetrics
  <2> HIDE DEF D, H, f
  <2> QED
    BY <2>1, <2>2
<1>2. Number(m) = Number(Hits(m)) + Number(Misses(m))
  <2> HIDE DEF D, H
  <2>1. /\ H \cup (D \ H) = D /\ H \cap (D \ H) = {}
    BY <1>1
  <2>2. Cardinality(D) = Cardinality(H) + Cardinality(D \ H) - Cardinality({})
    BY <1>1, <2>1, FS_Union
  <2>3. Cardinality({}) = 0 /\ Cardinality(H) \in Nat /\ Cardinality(D \ H) \in Nat
    BY <1>1, FS_EmptySet, FS_CardinalityType
  <2>4. Cardinality(D) = Cardinality(H) + Cardinality(D \ H)
    BY <2>2, <2>3
  <2> QED
    BY <1>1, <2>4 DEF Number, D, H
<1>3. TotalDuration(m) = TotalDuration(Hits(m)) + TotalDuration(Misses(m))
  <2> DEFINE h == [c \in H |-> Hits(m)[c].duration]
             g == [c \in D \ H |-> Misses(m)[c].duration]
  <2>1. /\ \A c \in H : f[c] = h[c]
        /\ \A c \in D \ H : f[c] = g[c]
        /\ DOMAIN h = H /\ DOMAIN g = D \ H /\ DOMAIN f = D
    BY <1>1
  <2>2. TotalDuration(m) = SumFunctionOnSet(f, D)
    BY DEF TotalDuration, SumFunction
  <2>3. TotalDuration(Hits(m)) = SumFunctionOnSet(h, H)
    BY DEF TotalDuration, SumFunction
  <2>4. TotalDuration(Misses(m)) = SumFunctionOnSet(g, D \ H)
    <3>1. DOMAIN Misses(m) = D \ H
      BY <1>1
    <3> HIDE DEF D, H
    <3> QED
      BY <3>1 DEF TotalDuration, SumFunction
  <2> HIDE DEF f, g, h, D, H
  <2>5. SumFunctionOnSet(f, D) = SumFunctionOnSet(f, H) + SumFunctionOnSet(f, D \ H)
    BY <1>1, SumSplits
  <2>6. SumFunctionOnSet(f, H) = SumFunctionOnSet(h, H)
    BY <1>1, <2>1, SumOfEqual
  <2>7. SumFunctionOnSet(f, D \ H) = SumFunctionOnSet(g, D \ H)
    BY <1>1, <2>1, SumOfEqual
  <2> QED
    BY <2>2, <2>3, <2>4, <2>5, <2>6, <2>7
<1>4. Durations(m) = Durations(Hits(m)) \cup Durations(Misses(m))
  BY <1>1 DEF Durations
<1> QED
  BY <1>2, <1>3, <1>4

-----------------------------------------------------------------------------
(***************************************************************************)
(* However many calls, projects and APIs there are, and whatever the       *)
(* requests and the reporter interleave, a payload that buildPayload makes *)
(* of the snapshot says of its window what the calls of the window were.   *)
(***************************************************************************)
THEOREM PayloadsAreTrue == Spec => []PayloadsDescribeTheirCalls
<1>1. IInv /\ AggregatesDescribeTheirCalls => PayloadsDescribeTheirCalls
  <2> SUFFICES ASSUME IInv, AggregatesDescribeTheirCalls, NEW agg \in SnapshotAggregates
               PROVE  LET payload == buildPayload(agg)
                          A == MetricsOf(agg.calls)
                          H == Hits(A)
                          M == Misses(A)
                      IN  /\ payload.hitCount = Number(H)
                          /\ payload.missCount = Number(M)
                          /\ payload.avgResultSize = Ratio(TotalResultSize(A), Number(A))
                          /\ payload.avgHitFiltered = Ratio(TotalFiltered(H), Number(H))
                          /\ <<payload.avgDuration, payload.avgHit, payload.avgMiss>> =
                                 <<AverageDuration(A), AverageDuration(H), AverageDuration(M)>>
                          /\ <<payload.minDuration, payload.minHit, payload.minMiss>> =
                                 <<LeastDuration(A), LeastDuration(H), LeastDuration(M)>>
                          /\ <<payload.maxDuration, payload.maxHit, payload.maxMiss>> =
                                 <<GreatestDuration(A), GreatestDuration(H), GreatestDuration(M)>>
    BY DEF PayloadsDescribeTheirCalls
  <2> DEFINE payload == buildPayload(agg)
             A == MetricsOf(agg.calls)
             H == Hits(A)
             M == Misses(A)
             h == agg.hits
             s == agg.misses
             total == h.count + s.count
             lh == IF h.count = 0 THEN MaxInt64 ELSE h.min
             ls == IF s.count = 0 THEN MaxInt64 ELSE s.min
  <2>1. agg \in Aggregate /\ agg.calls \subseteq Recorded /\ Describes(agg, A)
    <3>1. agg \in AggregatesInUse
      BY DEF SnapshotAggregates, AggregatesInUse
    <3>2. agg \in Aggregate
      BY DEF SnapshotAggregates, IInv, TypeOK, Aggregates
    <3> QED
      BY <3>1, <3>2 DEF AggregatesDescribeTheirCalls
  <2>2. /\ h \in Stats /\ s \in Stats
        /\ h.count \in Nat /\ h.sum \in Nat /\ h.min \in Nat /\ h.max \in Nat
        /\ s.count \in Nat /\ s.sum \in Nat /\ s.min \in Nat /\ s.max \in Nat
    BY <2>1 DEF Aggregate, Stats
  <2>3. MetricsFunction(A) /\ \A c \in DOMAIN A : A[c].duration < MaxInt64
    <3>1. \A c \in agg.calls : Recordable(call[c].metrics)
      BY <2>1, RecordableCalls DEF Recorded, IInv
    <3> QED
      BY <2>1, <3>1 DEF MetricsFunction, MetricsOf, Recordable, Describes
  <2> HIDE DEF A
  <2>4. /\ MetricsFunction(H) /\ MetricsFunction(M)
        /\ \A c \in DOMAIN H : H[c].duration < MaxInt64
        /\ \A c \in DOMAIN M : M[c].duration < MaxInt64
    BY <2>3, PartsAreFinite
  <2> HIDE DEF H, M
  <2>5. /\ StatsDescribe(h, H) /\ StatsDescribe(s, M)
        /\ agg.resultSize = TotalResultSize(A) /\ agg.filtered = TotalFiltered(H)
    BY <2>1 DEF Describes, H, M
  <2>6. /\ Number(A) = Number(H) + Number(M)
        /\ TotalDuration(A) = TotalDuration(H) + TotalDuration(M)
        /\ Durations(A) = Durations(H) \cup Durations(M)
    BY <2>3, WindowHasTwoParts DEF H, M
  <2>7. /\ h.count = Number(H) /\ (h.count = 0 <=> DOMAIN H = {})
        /\ MeanDuration(h) = AverageDuration(H)
        /\ LeastDuration(H) = IF h.count = 0 THEN 0 ELSE h.min
        /\ GreatestDuration(H) = h.max
        /\ h.count # 0 => h.min < MaxInt64
    BY <2>2, <2>4, <2>5, StatsAreRight
  <2>8. /\ s.count = Number(M) /\ (s.count = 0 <=> DOMAIN M = {})
        /\ MeanDuration(s) = AverageDuration(M)
        /\ LeastDuration(M) = IF s.count = 0 THEN 0 ELSE s.min
        /\ GreatestDuration(M) = s.max
        /\ s.count # 0 => s.min < MaxInt64
    BY <2>2, <2>4, <2>5, StatsAreRight
  <2> HIDE DEF h, s
  <2>9. total = Number(A) /\ (total = 0 <=> DOMAIN A = {})
    <3>1. total = Number(A)
      BY <2>6, <2>7, <2>8
    <3>2. IsFiniteSet(DOMAIN A)
      BY <2>3 DEF MetricsFunction
    <3>3. Number(A) = 0 <=> DOMAIN A = {}
      BY <3>2, FS_EmptySet DEF Number
    <3> QED
      BY <3>1, <3>3
  <2>10. IF total = 0 THEN AverageDuration(A) = 0
         ELSE AverageDuration(A) = (h.sum + s.sum) \div total
    <3>1. TotalDuration(A) = h.sum + s.sum
      BY <2>5, <2>6 DEF StatsDescribe
    <3> QED
      BY <2>9, <3>1 DEF AverageDuration
  <2>11. LeastDuration(A) = IF Min({lh, ls}) = MaxInt64 THEN 0 ELSE Min({lh, ls})
    <3>1. lh \in Nat /\ ls \in Nat
      BY <2>2, MaxInt64Assumption
    <3>2. Min({lh, ls}) = IF lh <= ls THEN lh ELSE ls
      BY <3>1, MinMaxOfTwo
    <3>3. CASE total = 0
      <4>1. lh = MaxInt64 /\ ls = MaxInt64 /\ DOMAIN A = {}
        BY <2>2, <2>9, <3>3
      <4> QED
        BY <3>2, <4>1, MaxInt64Assumption DEF LeastDuration
    <3>4. CASE total # 0
      <4>1. h.count # 0 => IsLeast(h.min, Durations(H))
        BY <2>5, <2>7 DEF StatsDescribe
      <4>2. s.count # 0 => IsLeast(s.min, Durations(M))
        BY <2>5, <2>8 DEF StatsDescribe
      <4>3. /\ h.count = 0 => Durations(H) = {}
            /\ s.count = 0 => Durations(M) = {}
        BY <2>7, <2>8 DEF Durations
      <4>4. Durations(H) \subseteq Nat /\ Durations(M) \subseteq Nat
        BY <2>4 DEF Durations, MetricsFunction, CallMetrics
      <4>5. h.count # 0 \/ s.count # 0
        BY <2>2, <3>4
      <4>6. lh <= MaxInt64 /\ ls <= MaxInt64 /\ (lh < MaxInt64 \/ ls < MaxInt64)
        BY <2>2, <2>7, <2>8, <4>5, MaxInt64Assumption
      <4> DEFINE k == IF lh <= ls THEN lh ELSE ls
      <4>7. IsLeast(k, Durations(A)) /\ k # MaxInt64
        <5>1. CASE h.count # 0 /\ s.count # 0
          BY <2>2, <2>6, <2>7, <2>8, <4>1, <4>2, <4>4, <5>1, MaxInt64Assumption DEF IsLeast
        <5>2. CASE h.count = 0 /\ s.count # 0
          BY <2>2, <2>6, <2>8, <4>2, <4>3, <4>4, <5>2, MaxInt64Assumption DEF IsLeast
        <5>3. CASE h.count # 0 /\ s.count = 0
          BY <2>2, <2>6, <2>7, <4>1, <4>3, <4>4, <5>3, MaxInt64Assumption DEF IsLeast
        <5> QED
          BY <4>5, <5>1, <5>2, <5>3
      <4> HIDE DEF k
      <4>8. k = Min(Durations(A))
        BY <2>6, <4>4, <4>7, LeastIsMin
      <4>9. DOMAIN A # {}
        BY <2>9, <3>4
      <4> QED
        BY <3>2, <4>7, <4>8, <4>9 DEF LeastDuration, k
    <3> QED
      BY <3>3, <3>4
  <2>12. GreatestDuration(A) = Max({h.max, s.max})
    <3>1. Max({h.max, s.max}) = IF h.max <= s.max THEN s.max ELSE h.max
      BY <2>2, MinMaxOfTwo
    <3>2. Durations(H) \subseteq Nat /\ Durations(M) \subseteq Nat
      BY <2>4 DEF Durations, MetricsFunction, CallMetrics
    <3>3. /\ IF h.count = 0 THEN h.max = 0 /\ Durations(H) = {}
             ELSE IsGreatest(h.max, Durations(H))
          /\ IF s.count = 0 THEN s.max = 0 /\ Durations(M) = {}
             ELSE IsGreatest(s.max, Durations(M))
      BY <2>5, <2>7, <2>8 DEF StatsDescribe, Durations
    <3> DEFINE k == IF h.max <= s.max THEN s.max ELSE h.max
    <3>4. CASE total = 0
      <4>1. h.count = 0 /\ s.count = 0 /\ DOMAIN A = {}
        BY <2>2, <2>9, <3>4
      <4> QED
        BY <3>1, <3>3, <4>1 DEF GreatestDuration
    <3>5. CASE total # 0
      <4>1. h.count # 0 \/ s.count # 0
        BY <2>2, <3>5
      <4>2. IsGreatest(k, Durations(A))
        <5>1. CASE h.count # 0 /\ s.count # 0
          BY <2>2, <2>6, <3>2, <3>3, <5>1 DEF IsGreatest
        <5>2. CASE h.count = 0 /\ s.count # 0
          BY <2>2, <2>6, <3>2, <3>3, <5>2 DEF IsGreatest
        <5>3. CASE h.count # 0 /\ s.count = 0
          BY <2>2, <2>6, <3>2, <3>3, <5>3 DEF IsGreatest
        <5> QED
          BY <4>1, <5>1, <5>2, <5>3
      <4> HIDE DEF k
      <4>3. k = Max(Durations(A))
        BY <2>6, <3>2, <4>2, LeastIsMin
      <4>4. DOMAIN A # {}
        BY <2>9, <3>5
      <4> QED
        BY <3>1, <4>3, <4>4 DEF GreatestDuration, k
    <3> QED
      BY <3>4, <3>5
  <2>13. /\ payload.hitCount = h.count /\ payload.missCount = s.count
         /\ payload.avgResultSize = Ratio(agg.resultSize, total)
         /\ payload.avgHitFiltered = Ratio(agg.filtered, h.count)
         /\ payload.avgDuration = IF total = 0 THEN 0 ELSE (h.sum + s.sum) \div total
         /\ payload.avgHit = MeanDuration(h) /\ payload.avgMiss = MeanDuration(s)
         /\ payload.minHit = IF h.count = 0 THEN 0 ELSE h.min
         /\ payload.minMiss = IF s.count = 0 THEN 0 ELSE s.min
         /\ payload.minDuration = IF Min({lh, ls}) = MaxInt64 THEN 0 ELSE Min({lh, ls})
         /\ payload.maxHit = h.max /\ payload.maxMiss = s.max
         /\ payload.maxDuration = Max({h.max, s.max})
    BY DEF buildPayload, h, s
  <2> HIDE DEF payload, total, lh, ls
  <2>14. /\ payload.avgResultSize = Ratio(TotalResultSize(A), Number(A))
         /\ payload.avgHitFiltered = Ratio(TotalFiltered(H), Number(H))
    BY <2>5, <2>7, <2>9, <2>13
  <2>15. /\ payload.avgDuration = AverageDuration(A)
         /\ payload.avgHit = AverageDuration(H) /\ payload.avgMiss = AverageDuration(M)
    BY <2>7, <2>8, <2>10, <2>13
  <2>16. /\ payload.minDuration = LeastDuration(A)
         /\ payload.minHit = LeastDuration(H) /\ payload.minMiss = LeastDuration(M)
    BY <2>7, <2>8, <2>11, <2>13
  <2>17. /\ payload.maxDuration = GreatestDuration(A)
         /\ payload.maxHit = GreatestDuration(H) /\ payload.maxMiss = GreatestDuration(M)
    BY <2>7, <2>8, <2>12, <2>13
  <2>18. payload.hitCount = Number(H) /\ payload.missCount = Number(M)
    BY <2>7, <2>8, <2>13
  <2> QED
    BY <2>14, <2>15, <2>16, <2>17, <2>18 DEF payload, A, H, M
<1> QED
  BY InductiveInvariant, DescriptionInvariant, <1>1, PTL

=============================================================================
