----------------------- MODULE ProjectRegistry_proofs -----------------------
(***************************************************************************)
(* Proofs about ProjectRegistry: the cache of a project is polled, a       *)
(* project has no more pollers than there are requests at one time, and    *)
(* only a late answer leaves an outdated grant that no poll reports.       *)
(***************************************************************************)
EXTENDS ProjectRegistry, FiniteSetTheorems, TLAPS

(***************************************************************************)
(* f charges every cache of p to a request of its own, and to none that is *)
(* still going to create one.  As long as the map has no cache for p, it   *)
(* is the request that created the cache and has not stored it yet.        *)
(***************************************************************************)
Charges(f, p) ==
    /\ f \in [CachesOf(p) -> Requests]
    /\ \A c, d \in CachesOf(p) : f[c] = f[d] => c = d
    /\ \A c \in CachesOf(p) : ~ (pc[f[c]] = "creating" /\ project[f[c]] = p)
    /\ projects[p] = NoCache =>
           \A c \in CachesOf(p) :
               pc[f[c]] \in {"created", "started"} /\ cache[f[c]] = c

EveryCacheIsCharged == \A p \in Projects : \E f : Charges(f, p)

\* A request stores only what is polled.
StartedIsPolled == \A q \in Requests : pc[q] = "started" => cache[q] \in polled

\* Changes and polls lie in the past.
NoTimeAhead ==
    /\ \A p \in Projects : changed[p] <= now[p]
    /\ \A c \in Caches : lastPollTime[c] <= now[owner[c]]

IInv ==
    /\ TypeOK
    /\ NoTimeAhead
    /\ StartedIsPolled
    /\ RegisteredCacheIsPolled
    /\ EveryCacheIsCharged

-----------------------------------------------------------------------------
\* The caches, their grants and their poll times are in the same order.
LEMMA CachesInOrder ==
    ASSUME TypeOK
    PROVE  /\ Len(owner) \in Nat /\ owner \in [Caches -> Projects]
           /\ grant \in Seq(Nat \cup {NoGrant}) /\ Len(grant) = Len(owner)
           /\ lastPollTime \in Seq(Nat) /\ Len(lastPollTime) = Len(owner)
<1>1. owner \in Seq(Projects) /\ Len(owner) \in Nat
  BY DEF TypeOK
<1>2. owner \in [Caches -> Projects]
  BY <1>1 DEF Caches
<1>3. /\ grant \in [1 .. Len(owner) -> Nat \cup {NoGrant}]
      /\ lastPollTime \in [1 .. Len(owner) -> Nat]
  BY DEF TypeOK, Caches
<1>4. grant \in Seq(Nat \cup {NoGrant}) /\ Len(grant) = Len(owner)
  BY <1>1, <1>3
<1>5. lastPollTime \in Seq(Nat) /\ Len(lastPollTime) = Len(owner)
  BY <1>1, <1>3
<1> QED
  BY <1>1, <1>2, <1>4, <1>5

LEMMA InitIsGood == Init => IInv
<1> SUFFICES ASSUME Init PROVE IInv
  OBVIOUS
<1>0. Caches = {} /\ \A p \in Projects : CachesOf(p) = {}
  BY DEF Init, Caches, CachesOf
<1>1. TypeOK
  BY <1>0 DEF Init, TypeOK, PCs
<1>2. NoTimeAhead /\ StartedIsPolled /\ RegisteredCacheIsPolled
  BY <1>0 DEF Init, NoTimeAhead, StartedIsPolled, RegisteredCacheIsPolled
<1>3. ASSUME NEW p \in Projects PROVE Charges(<<>>, p)
  BY <1>0 DEF Charges
<1> QED
  BY <1>1, <1>2, <1>3 DEF IInv, EveryCacheIsCharged

(***************************************************************************)
(* A step of one request that creates no cache keeps every cache charged   *)
(* as it was, unless the map loses the project or the request that the     *)
(* cache is charged to before it is stored.                                *)
(***************************************************************************)
LEMMA ChargesStay ==
    ASSUME TypeOK, EveryCacheIsCharged, NEW q \in Requests, owner' = owner,
           \A r \in Requests \ {q} :
               pc'[r] = pc[r] /\ project'[r] = project[r] /\ cache'[r] = cache[r],
           \A p \in Projects :
               /\ projects'[p] = NoCache => projects[p] = NoCache
               /\ pc'[q] = "creating" /\ project'[q] = p =>
                      /\ projects'[p] = NoCache
                      /\ pc[q] \notin {"created", "started"}
               /\ projects'[p] = NoCache /\ pc[q] \in {"created", "started"}
                  /\ cache[q] \in CachesOf(p) =>
                      pc'[q] \in {"created", "started"} /\ cache'[q] = cache[q]
    PROVE  EveryCacheIsCharged'
<1> SUFFICES ASSUME NEW p \in Projects PROVE \E f : Charges(f, p)'
  BY DEF EveryCacheIsCharged
<1>1. PICK f : Charges(f, p)
  BY DEF EveryCacheIsCharged
<1>2. CachesOf(p)' = CachesOf(p)
  BY DEF CachesOf, Caches
<1>3. /\ f \in [CachesOf(p) -> Requests]
      /\ \A c, d \in CachesOf(p) : f[c] = f[d] => c = d
  BY <1>1 DEF Charges
<1>4. ASSUME NEW c \in CachesOf(p)
      PROVE  ~ (pc'[f[c]] = "creating" /\ project'[f[c]] = p)
  <2>1. f[c] \in Requests /\ ~ (pc[f[c]] = "creating" /\ project[f[c]] = p)
    BY <1>1 DEF Charges
  <2>2. CASE f[c] # q
    BY <2>1, <2>2
  <2>3. CASE f[c] = q
    <3> SUFFICES ASSUME pc'[q] = "creating" /\ project'[q] = p PROVE FALSE
      BY <2>3
    <3>1. projects[p] = NoCache /\ pc[q] \notin {"created", "started"}
      OBVIOUS
    <3> QED
      BY <3>1, <2>3, <1>1 DEF Charges
  <2> QED
    BY <2>2, <2>3
<1>5. ASSUME projects'[p] = NoCache, NEW c \in CachesOf(p)
      PROVE  pc'[f[c]] \in {"created", "started"} /\ cache'[f[c]] = c
  <2>1. /\ f[c] \in Requests
        /\ pc[f[c]] \in {"created", "started"} /\ cache[f[c]] = c
    BY <1>1, <1>5 DEF Charges
  <2>2. CASE f[c] # q
    BY <2>1, <2>2
  <2>3. CASE f[c] = q
    BY <2>1, <2>3, <1>5
  <2> QED
    BY <2>2, <2>3
<1>6. Charges(f, p)'
  BY <1>2, <1>3, <1>4, <1>5 DEF Charges
<1> QED
  BY <1>6

\* A request that has a cache has a project, whose cache it is.
LEMMA CacheIsOwn ==
    ASSUME TypeOK, NEW q \in Requests, pc[q] \notin {"idle", "creating"}
    PROVE  /\ cache[q] \in Caches /\ owner[cache[q]] = project[q]
           /\ project[q] \in Projects
<1>1. cache[q] \in Caches /\ owner[cache[q]] = project[q]
  BY DEF TypeOK, CachesOf
<1> QED
  BY <1>1, CachesInOrder

LEMMA LoadsStep ==
    ASSUME IInv, NEW q \in Requests, NEW p \in Projects, Loads(q, p)
    PROVE  IInv'
<1> USE DEF IInv, Loads, Goto, cacheVars, backendVars
<1>0. Caches' = Caches /\ \A r \in Projects : CachesOf(r)' = CachesOf(r)
  BY DEF Caches, CachesOf
<1>1. TypeOK'
  <2>1. projects[p] # NoCache => projects[p] \in CachesOf(p)
    BY DEF RegisteredCacheIsPolled, PollersOf
  <2> QED
    BY <2>1 DEF TypeOK, PCs, CachesOf, Caches
<1>2. StartedIsPolled' /\ RegisteredCacheIsPolled'
  BY <1>0 DEF TypeOK, StartedIsPolled, RegisteredCacheIsPolled, PollersOf
<1>3. EveryCacheIsCharged'
  BY ChargesStay DEF TypeOK
<1>4. NoTimeAhead'
  BY <1>0 DEF NoTimeAhead
<1> QED
  BY <1>1, <1>2, <1>3, <1>4

LEMMA LeavesStep ==
    ASSUME IInv, NEW q \in Requests,
           CreationFails(q) \/ Ends(q) \/ CachesAnswer(q) \/ UpdatesCache(q)
    PROVE  IInv'
<1>0. /\ pc[q] \in {"creating", "using", "answered", "wroteGrant", "wroteOther"}
      /\ pc' = [pc EXCEPT ![q] = "idle"]
      /\ project' = [project EXCEPT ![q] = EmptyProjectID]
      /\ cache' = [cache EXCEPT ![q] = NoCache]
      /\ answer' = [answer EXCEPT ![q] = NoGrant]
      /\ UNCHANGED <<projects, owner, lastPollTime, polled, now, changed>>
  BY DEF CreationFails, Ends, CachesAnswer, UpdatesCache, Leaves, Goto,
     cacheVars, backendVars
<1>1. Caches' = Caches /\ \A r \in Projects : CachesOf(r)' = CachesOf(r)
  BY <1>0 DEF Caches, CachesOf
<1>2. grant' \in [Caches -> Nat \cup {NoGrant}]
  <2>1. /\ grant \in [Caches -> Nat \cup {NoGrant}]
        /\ answer[q] \in Nat \cup {NoGrant}
    BY DEF IInv, TypeOK
  <2>2. CASE CreationFails(q) \/ Ends(q)
    BY <2>1, <2>2 DEF CreationFails, Ends, cacheVars
  <2>3. CASE CachesAnswer(q)
    <3>1. PICK g \in {answer[q], grant[cache[q]], NoGrant} :
              grant' = [grant EXCEPT ![cache[q]] = g]
      BY <2>3 DEF CachesAnswer
    <3>2. cache[q] \in Caches
      BY <2>3, CacheIsOwn DEF CachesAnswer, Leaves, Goto, IInv
    <3> QED
      BY <2>1, <3>1, <3>2
  <2>4. CASE UpdatesCache(q)
    <3>1. PICK g \in {grant[cache[q]], NoGrant} :
              grant' = [grant EXCEPT ![cache[q]] = g]
      BY <2>4 DEF UpdatesCache
    <3>2. cache[q] \in Caches
      BY <2>4, CacheIsOwn DEF UpdatesCache, Leaves, Goto, IInv
    <3> QED
      BY <2>1, <3>1, <3>2
  <2> QED
    BY <2>2, <2>3, <2>4
<1>3. TypeOK'
  <2>1. ASSUME NEW r \in Requests
        PROVE  /\ pc'[r] \notin {"idle", "creating"} =>
                      cache'[r] \in CachesOf(project'[r])
               /\ pc'[r] \in {"idle", "creating"} => cache'[r] = NoCache
    BY <1>0 DEF IInv, TypeOK
  <2>2. /\ pc' \in [Requests -> PCs]
        /\ project' \in [Requests -> Projects \cup {EmptyProjectID}]
        /\ cache' \in [Requests -> Caches \cup {NoCache}]
        /\ answer' \in [Requests -> Nat \cup {NoGrant}]
    BY <1>0 DEF IInv, TypeOK, PCs
  <2> QED
    BY <1>0, <1>2, <2>1, <2>2 DEF IInv, TypeOK, CachesOf, Caches
<1>4. NoTimeAhead' /\ StartedIsPolled' /\ RegisteredCacheIsPolled'
  BY <1>0, <1>1 DEF IInv, TypeOK, NoTimeAhead, StartedIsPolled,
     RegisteredCacheIsPolled, PollersOf
<1>5. EveryCacheIsCharged'
  BY <1>0, ChargesStay DEF IInv, TypeOK
<1> QED
  BY <1>3, <1>4, <1>5 DEF IInv

LEMMA CreatesStep ==
    ASSUME IInv, NEW q \in Requests, Creates(q)
    PROVE  IInv'
<1> PICK new, p : new = Len(owner) + 1 /\ p = project[q]
  OBVIOUS
<1>0. /\ pc[q] = "creating" /\ pc' = [pc EXCEPT ![q] = "created"]
      /\ p \in Projects
      /\ owner \in Seq(Projects) /\ Len(owner) \in Nat
      /\ owner' = Append(owner, p)
      /\ grant' = Append(grant, NoGrant)
      /\ cache' = [cache EXCEPT ![q] = new]
      /\ lastPollTime' = Append(lastPollTime, now[p])
      /\ UNCHANGED <<projects, polled, now, changed, project, answer>>
  BY DEF Creates, Goto, IInv, TypeOK, backendVars
<1>1. /\ Caches' = Caches \cup {new} /\ new \notin Caches /\ new \in Nat
      /\ owner'[new] = p
      /\ \A c \in Caches : owner'[c] = owner[c]
  BY <1>0 DEF Caches
<1>2. /\ CachesOf(p)' = CachesOf(p) \cup {new}
      /\ new \notin CachesOf(p)
      /\ \A r \in Projects \ {p} : CachesOf(r)' = CachesOf(r)
  BY <1>0, <1>1 DEF CachesOf
<1>3. TypeOK'
  <2>1. owner' \in Seq(Projects)
    BY <1>0
  <2>2. grant' \in [Caches' -> Nat \cup {NoGrant}]
    <3>2. grant \in Seq(Nat \cup {NoGrant}) /\ Len(grant) = Len(owner)
      BY CachesInOrder DEF IInv
    <3>3. /\ grant' \in Seq(Nat \cup {NoGrant})
          /\ Len(grant') = Len(owner) + 1
      BY <3>2, <1>0
    <3>4. Caches' = 1 .. Len(owner) + 1
      BY <1>0 DEF Caches
    <3> QED
      BY <3>3, <3>4
  <2>5. lastPollTime' \in [Caches' -> Nat]
    <3>1. now[p] \in Nat
      BY <1>0 DEF IInv, TypeOK
    <3>2. lastPollTime \in Seq(Nat) /\ Len(lastPollTime) = Len(owner)
      BY CachesInOrder DEF IInv
    <3>3. /\ lastPollTime' \in Seq(Nat)
          /\ Len(lastPollTime') = Len(owner) + 1
      BY <3>1, <3>2, <1>0
    <3>4. Caches' = 1 .. Len(owner) + 1
      BY <1>0 DEF Caches
    <3> QED
      BY <3>3, <3>4
  <2>3. ASSUME NEW r \in Requests
        PROVE  /\ cache'[r] \in Caches' \cup {NoCache}
               /\ pc'[r] \notin {"idle", "creating"} =>
                      cache'[r] \in Caches' /\ owner'[cache'[r]] = project'[r]
               /\ pc'[r] \in {"idle", "creating"} => cache'[r] = NoCache
    <3>1. CASE r = q
      <4>1. pc'[q] = "created" /\ cache'[q] = new /\ project'[q] = p
        BY <1>0 DEF IInv, TypeOK
      <4> QED
        BY <3>1, <4>1, <1>1
    <3>2. CASE r # q
      <4>1. /\ cache'[r] = cache[r] /\ pc'[r] = pc[r] /\ project'[r] = project[r]
        BY <3>2, <1>0 DEF IInv, TypeOK
      <4>2. pc[r] \notin {"idle", "creating"} =>
                cache[r] \in Caches /\ owner[cache[r]] = project[r]
        BY DEF IInv, TypeOK, CachesOf
      <4>3. pc[r] \notin {"idle", "creating"} =>
                cache[r] \in Caches' /\ owner'[cache[r]] = project[r]
        BY <4>2, <1>1
      <4> QED
        BY <4>1, <4>3, <1>1 DEF IInv, TypeOK
    <3> QED
      BY <3>1, <3>2
  <2>4. /\ projects' \in [Projects -> Caches' \cup {NoCache}]
        /\ polled' \subseteq Caches'
        /\ cache' \in [Requests -> Caches' \cup {NoCache}]
    BY <1>0, <1>1 DEF IInv, TypeOK
  <2> QED
    <3>1. /\ now' \in [Projects -> Nat] /\ changed' \in [Projects -> Nat]
          /\ answer' \in [Requests -> Nat \cup {NoGrant}]
          /\ pc' \in [Requests -> PCs]
          /\ project' \in [Requests -> Projects \cup {EmptyProjectID}]
      BY <1>0 DEF IInv, TypeOK, PCs
    <3> QED
      BY <2>1, <2>2, <2>3, <2>4, <2>5, <3>1 DEF TypeOK, CachesOf
<1>4. NoTimeAhead' /\ StartedIsPolled'
  <2>1. ASSUME NEW c \in Caches' PROVE lastPollTime'[c] <= now[owner'[c]]
    <3>1. lastPollTime \in Seq(Nat) /\ Len(lastPollTime) = Len(owner)
          /\ now[p] \in Nat
      BY <1>0, CachesInOrder DEF IInv, TypeOK
    <3>2. CASE c = new
      <4>1. new = Len(lastPollTime) + 1
        BY <3>1
      <4>2. lastPollTime'[new] = now[p]
        BY <4>1, <3>1, <1>0
      <4> QED
        BY <4>2, <3>1, <3>2, <1>1
    <3>3. CASE c # new
      <4>1. c \in Caches /\ lastPollTime'[c] = lastPollTime[c]
        BY <3>1, <3>3, <1>0, <1>1 DEF Caches
      <4> QED
        BY <4>1, <1>1 DEF IInv, NoTimeAhead
    <3> QED
      BY <3>2, <3>3
  <2> QED
    BY <1>0, <2>1 DEF IInv, TypeOK, NoTimeAhead, StartedIsPolled
<1>5. RegisteredCacheIsPolled'
  BY <1>0, <1>2 DEF IInv, RegisteredCacheIsPolled, PollersOf
<1>6. EveryCacheIsCharged'
  <2> SUFFICES ASSUME NEW r \in Projects PROVE \E f : Charges(f, r)'
    BY DEF EveryCacheIsCharged
  <2>1. PICK f : Charges(f, r)
    BY DEF IInv, EveryCacheIsCharged
  <2>2. CASE r = p
    <3> PICK g : g = [c \in CachesOf(p) \cup {new} |-> IF c = new THEN q ELSE f[c]]
      OBVIOUS
    <3>1. /\ f \in [CachesOf(p) -> Requests]
          /\ \A c, d \in CachesOf(p) : f[c] = f[d] => c = d
          /\ \A c \in CachesOf(p) : f[c] # q
      BY <2>1, <2>2, <1>0 DEF Charges
    <3>2. /\ g \in [CachesOf(p) \cup {new} -> Requests]
          /\ g[new] = q
          /\ \A c \in CachesOf(p) : g[c] = f[c]
      BY <3>1, <1>2
    <3>3. \A c, d \in CachesOf(p) \cup {new} : g[c] = g[d] => c = d
      BY <3>1, <3>2
    <3>4. \A c \in CachesOf(p) \cup {new} :
              ~ (pc'[g[c]] = "creating" /\ project'[g[c]] = p)
      BY <3>1, <3>2, <2>1, <2>2, <1>0 DEF Charges, IInv, TypeOK
    <3>5. projects[p] = NoCache =>
              \A c \in CachesOf(p) \cup {new} :
                  pc'[g[c]] \in {"created", "started"} /\ cache'[g[c]] = c
      BY <3>1, <3>2, <2>1, <2>2, <1>0 DEF Charges, IInv, TypeOK
    <3>6. CachesOf(r)' = CachesOf(p) \cup {new} /\ projects'[r] = projects[p]
      BY <2>2, <1>0, <1>2
    <3>7. /\ g \in [CachesOf(r)' -> Requests]
          /\ \A c, d \in CachesOf(r)' : g[c] = g[d] => c = d
      BY <3>2, <3>3, <3>6
    <3>8. \A c \in CachesOf(r)' :
              /\ ~ (pc'[g[c]] = "creating" /\ project'[g[c]] = r)
              /\ projects'[r] = NoCache =>
                     pc'[g[c]] \in {"created", "started"} /\ cache'[g[c]] = c
      BY <3>4, <3>5, <3>6, <2>2
    <3>9. Charges(g, r)'
      BY <3>7, <3>8 DEF Charges
    <3> QED
      BY <3>9
  <2>3. CASE r # p
    <3>1. /\ f \in [CachesOf(r) -> Requests]
          /\ \A c \in CachesOf(r) :
                 project[q] # r /\ (projects[r] = NoCache => f[c] # q)
      BY <2>1, <2>3, <1>0 DEF Charges
    <3>2. Charges(f, r)'
      BY <2>1, <2>3, <3>1, <1>0, <1>2 DEF Charges, IInv, TypeOK
    <3> QED
      BY <3>2
  <2> QED
    BY <2>2, <2>3
<1> QED
  BY <1>3, <1>4, <1>5, <1>6 DEF IInv

LEMMA StartsPollerStep ==
    ASSUME IInv, NEW q \in Requests, StartsPoller(q)
    PROVE  IInv'
<1> USE DEF IInv, StartsPoller, Goto, backendVars
<1>0. /\ Caches' = Caches /\ \A r \in Projects : CachesOf(r)' = CachesOf(r)
      /\ cache[q] \in CachesOf(project[q])
  BY DEF Caches, CachesOf, TypeOK
<1>1. TypeOK'
  BY <1>0 DEF TypeOK, PCs, CachesOf
<1>2. NoTimeAhead' /\ StartedIsPolled' /\ RegisteredCacheIsPolled'
  BY <1>0 DEF TypeOK, NoTimeAhead, StartedIsPolled, RegisteredCacheIsPolled,
     PollersOf
<1>3. EveryCacheIsCharged'
  BY ChargesStay DEF TypeOK
<1> QED
  BY <1>1, <1>2, <1>3

LEMMA StoresStep ==
    ASSUME IInv, NEW q \in Requests, Stores(q)
    PROVE  IInv'
<1> USE DEF IInv, Stores, Goto, cacheVars, backendVars
<1>1. /\ Caches' = Caches /\ \A r \in Projects : CachesOf(r)' = CachesOf(r)
      /\ cache[q] \in CachesOf(project[q]) /\ cache[q] \in Caches
      /\ cache[q] \in polled
  BY DEF Caches, CachesOf, TypeOK, StartedIsPolled
<1>2. project[q] \in Projects /\ cache[q] # NoCache
  BY <1>1, CacheIsOwn, AbsentAssumption DEF Caches
<1>3. TypeOK'
  BY <1>1, <1>2 DEF TypeOK, PCs, CachesOf
<1>4. NoTimeAhead' /\ StartedIsPolled'
  BY <1>1, <1>2 DEF TypeOK, NoTimeAhead, StartedIsPolled
<1>5. RegisteredCacheIsPolled'
  BY <1>1, <1>2 DEF TypeOK, RegisteredCacheIsPolled, PollersOf
<1>6. ASSUME NEW p \in Projects, cache[q] \in CachesOf(p)
      PROVE  projects'[p] # NoCache
  BY <1>1, <1>2, <1>6 DEF TypeOK, CachesOf
<1>7. EveryCacheIsCharged'
  BY <1>1, <1>2, <1>6, ChargesStay DEF TypeOK
<1> QED
  BY <1>3, <1>4, <1>5, <1>7

LEMMA BackendAnswersStep ==
    ASSUME IInv, NEW q \in Requests, BackendAnswers(q)
    PROVE  IInv'
<1> USE DEF IInv, BackendAnswers, Goto, cacheVars, backendVars
<1>0. Caches' = Caches /\ \A r \in Projects : CachesOf(r)' = CachesOf(r)
  BY DEF Caches, CachesOf
<1>1. now[project[q]] \in Nat
  BY CacheIsOwn DEF TypeOK
<1>2. TypeOK'
  BY <1>1 DEF TypeOK, PCs, CachesOf, Caches
<1>3. NoTimeAhead' /\ StartedIsPolled' /\ RegisteredCacheIsPolled'
  BY <1>0 DEF TypeOK, NoTimeAhead, StartedIsPolled, RegisteredCacheIsPolled,
     PollersOf
<1>4. EveryCacheIsCharged'
  BY ChargesStay DEF TypeOK
<1> QED
  BY <1>2, <1>3, <1>4

\* A change is the latest one of its project.
LEMMA ChangeKeepsTimes ==
    ASSUME TypeOK, NoTimeAhead, NEW p \in Projects, NEW ofGrant \in BOOLEAN,
           Change(p, ofGrant), UNCHANGED <<owner, lastPollTime>>
    PROVE  /\ now' \in [Projects -> Nat] /\ changed' \in [Projects -> Nat]
           /\ NoTimeAhead'
           /\ \A r \in Projects : changed'[r] = changed[r] \/ changed'[r] > now[r]
<1>1. now[p] \in Nat /\ now' = [now EXCEPT ![p] = now[p] + 1]
  BY DEF TypeOK, Change
<1>2. /\ now' \in [Projects -> Nat] /\ changed' \in [Projects -> Nat]
      /\ \A r \in Projects : /\ now[r] \in Nat /\ now'[r] \in Nat
                             /\ now[r] <= now'[r]
                             /\ changed[r] \in Nat /\ changed'[r] \in Nat
  BY <1>1 DEF TypeOK, Change
<1>3. \A r \in Projects :
          \/ changed'[r] = changed[r]
          \/ changed'[r] = now'[r] /\ changed'[r] > now[r]
  BY <1>1 DEF TypeOK, Change
<1>4. \A r \in Projects : changed'[r] <= now'[r]
  BY <1>2, <1>3 DEF NoTimeAhead
<1>5. ASSUME NEW c \in Caches PROVE lastPollTime[c] <= now'[owner[c]]
  <2>1. owner[c] \in Projects /\ lastPollTime[c] \in Nat
    BY CachesInOrder DEF TypeOK
  <2>2. /\ lastPollTime[c] <= now[owner[c]] /\ now[owner[c]] <= now'[owner[c]]
        /\ now[owner[c]] \in Nat /\ now'[owner[c]] \in Nat
    BY <2>1, <1>2 DEF NoTimeAhead
  <2> QED
    BY <2>1, <2>2
<1> QED
  BY <1>2, <1>3, <1>4, <1>5 DEF NoTimeAhead, Caches

LEMMA BackendWritesStep ==
    ASSUME IInv, NEW q \in Requests, BackendWrites(q)
    PROVE  IInv'
<1> PICK to \in {"wroteGrant", "wroteOther"}, ofGrant \in BOOLEAN :
        Goto(q, "using", to) /\ Change(project[q], ofGrant)
  BY DEF BackendWrites
<1> USE DEF IInv, Goto
<1>0. /\ Caches' = Caches /\ \A r \in Projects : CachesOf(r)' = CachesOf(r)
      /\ UNCHANGED <<projects, owner, grant, lastPollTime, polled>>
      /\ UNCHANGED <<project, cache, answer>>
  BY DEF Caches, CachesOf, BackendWrites, cacheVars
<1>1. project[q] \in Projects
  BY CacheIsOwn
<1>2. /\ now' \in [Projects -> Nat] /\ changed' \in [Projects -> Nat]
      /\ NoTimeAhead'
  BY <1>0, <1>1, ChangeKeepsTimes
<1>3. TypeOK'
  BY <1>0, <1>2 DEF TypeOK, PCs, CachesOf, Caches
<1>4. StartedIsPolled' /\ RegisteredCacheIsPolled'
  BY <1>0 DEF TypeOK, StartedIsPolled, RegisteredCacheIsPolled, PollersOf
<1>5. EveryCacheIsCharged'
  BY <1>0, ChargesStay DEF TypeOK
<1> QED
  BY <1>2, <1>3, <1>4, <1>5

\* Changes in the backend and polls leave the map and the requests alone.
LEMMA RegistryUnchanged ==
    ASSUME IInv, UNCHANGED <<projects, owner, polled, requestVars>>,
           now' \in [Projects -> Nat], changed' \in [Projects -> Nat],
           grant' \in [Caches -> Nat \cup {NoGrant}],
           lastPollTime' \in [Caches -> Nat], NoTimeAhead'
    PROVE  IInv'
<1> USE DEF requestVars, IInv
<1>0. Caches' = Caches /\ \A r : CachesOf(r)' = CachesOf(r)
  BY DEF Caches, CachesOf
<1>1. TypeOK'
  BY <1>0 DEF TypeOK, PCs
<1>2. StartedIsPolled' /\ RegisteredCacheIsPolled'
  BY <1>0 DEF StartedIsPolled, RegisteredCacheIsPolled, PollersOf
<1>3. EveryCacheIsCharged'
  <2> SUFFICES ASSUME NEW p \in Projects PROVE \E f : Charges(f, p)'
    BY DEF EveryCacheIsCharged
  <2>1. PICK f : Charges(f, p)
    BY DEF EveryCacheIsCharged
  <2>2. Charges(f, p)'
    BY <2>1, <1>0 DEF Charges
  <2> QED
    BY <2>2
<1> QED
  BY <1>1, <1>2, <1>3

LEMMA PollsStep ==
    ASSUME IInv, NEW c \in Caches, Polls(c)
    PROVE  IInv'
<1>1. /\ UNCHANGED <<projects, owner, polled, now, changed, requestVars>>
      /\ lastPollTime' = [lastPollTime EXCEPT ![c] = now[owner[c]]]
      /\ Caches' = Caches
  BY DEF Polls, backendVars, Caches
<1>2. owner[c] \in Projects /\ now[owner[c]] \in Nat
  BY DEF IInv, TypeOK, Caches
<1>3. lastPollTime' \in [Caches -> Nat] /\ NoTimeAhead'
  BY <1>1, <1>2 DEF IInv, TypeOK, NoTimeAhead
<1>4. grant' \in [Caches -> Nat \cup {NoGrant}]
  BY DEF Polls, IInv, TypeOK
<1>5. now' \in [Projects -> Nat] /\ changed' \in [Projects -> Nat]
  BY <1>1 DEF IInv, TypeOK
<1> QED
  BY <1>1, <1>3, <1>4, <1>5, RegistryUnchanged

LEMMA NextKeepsInvariant == IInv /\ [Next]_vars => IInv'
<1> SUFFICES ASSUME IInv, [Next]_vars PROVE IInv'
  OBVIOUS
<1>1. ASSUME NEW q \in Requests, NEW p \in Projects, Loads(q, p) PROVE IInv'
  BY <1>1, LoadsStep
<1>2. ASSUME NEW q \in Requests, Continues(q) PROVE IInv'
  BY <1>2, LeavesStep, CreatesStep, StartsPollerStep, StoresStep,
     BackendAnswersStep, BackendWritesStep DEF Continues
<1>3. ASSUME NEW p \in Projects, ChangeByOthers(p) PROVE IInv'
  <2>1. PICK ofGrant \in BOOLEAN : Change(p, ofGrant)
    BY <1>3 DEF ChangeByOthers
  <2>2. UNCHANGED <<projects, owner, grant, lastPollTime, polled, requestVars>>
    BY <1>3 DEF ChangeByOthers, cacheVars
  <2>3. /\ now' \in [Projects -> Nat] /\ changed' \in [Projects -> Nat]
        /\ NoTimeAhead'
    BY <2>1, <2>2, ChangeKeepsTimes DEF IInv
  <2> QED
    BY <2>2, <2>3, RegistryUnchanged DEF IInv, TypeOK
<1>4. ASSUME NEW c \in Caches, Polls(c) PROVE IInv'
  BY <1>4, PollsStep
<1>5. CASE UNCHANGED vars
  BY <1>5, RegistryUnchanged DEF vars, cacheVars, backendVars, IInv, TypeOK,
     NoTimeAhead, Caches
<1> QED
  BY <1>1, <1>2, <1>3, <1>4, <1>5 DEF Next

LEMMA InvariantHolds == Spec => []IInv
BY InitIsGood, NextKeepsInvariant, PTL DEF Spec

-----------------------------------------------------------------------------
(***************************************************************************)
(* Type correctness: a request works with a cache of its own project.      *)
(***************************************************************************)
THEOREM TypeCorrect == Spec => []TypeOK
BY InvariantHolds, PTL DEF IInv

(***************************************************************************)
(* Whichever first request stores last, its cache has a poller.            *)
(***************************************************************************)
THEOREM RegisteredCachesArePolled == Spec => []RegisteredCacheIsPolled
BY InvariantHolds, PTL DEF IInv

(***************************************************************************)
(* For any number of projects and requests: every poller of a project can  *)
(* be charged to a request of its own.                                     *)
(***************************************************************************)
THEOREM FewPollers == Spec => []PollersAreBounded
<1>1. IInv => PollersAreBounded
  <2> SUFFICES ASSUME IInv, NEW p \in Projects
               PROVE  Cardinality(PollersOf(p)) <= Cardinality(Requests)
    BY DEF PollersAreBounded
  <2>1. PICK f : Charges(f, p)
    BY DEF IInv, EveryCacheIsCharged
  <2> PICK g : g = [c \in PollersOf(p) |-> f[c]]
    OBVIOUS
  <2>2. g \in Injection(PollersOf(p), Requests)
    BY <2>1 DEF Charges, PollersOf, Injection, IsInjective
  <2> QED
    BY <2>2, FS_Injection, RequestsAssumption
<1> QED
  BY <1>1, InvariantHolds, PTL

-----------------------------------------------------------------------------
\* A request that caches no answer adds no grant.
LEMMA RequestsAddNoGrant ==
    ASSUME IInv, NEW q \in Requests, Continues(q), ~ CachesAnswer(q), NEW c \in Caches
    PROVE  grant'[c] = grant[c] \/ grant'[c] = NoGrant
<1>1. grant \in [Caches -> Nat \cup {NoGrant}]
  BY DEF IInv, TypeOK
<1>2. CASE Creates(q)
  <2>1. grant \in Seq(Nat \cup {NoGrant}) /\ Len(grant) = Len(owner)
    BY CachesInOrder DEF IInv
  <2> QED
    BY <1>2, <2>1 DEF Creates, Caches
<1>3. CASE UpdatesCache(q)
  <2>1. PICK g \in {grant[cache[q]], NoGrant} :
            grant' = [grant EXCEPT ![cache[q]] = g]
    BY <1>3 DEF UpdatesCache
  <2> QED
    BY <1>1, <2>1
<1>4. CASE ~ Creates(q) /\ ~ UpdatesCache(q)
  BY <1>4 DEF Continues, CreationFails, StartsPoller, Stores, Ends,
     BackendAnswers, BackendWrites, cacheVars
<1> QED
  BY <1>2, <1>3, <1>4

\* A request leaves the poll times and the owners of the caches alone.
LEMMA RequestsDoNotPoll ==
    ASSUME IInv, NEW q \in Requests, Continues(q), NEW c \in Caches
    PROVE  lastPollTime'[c] = lastPollTime[c] /\ owner'[c] = owner[c]
<1>1. CASE Creates(q)
  <2>1. /\ lastPollTime \in Seq(Nat) /\ Len(lastPollTime) = Len(owner)
        /\ owner \in Seq(Projects)
    BY CachesInOrder DEF IInv, TypeOK
  <2>2. c \in 1 .. Len(owner) /\ Len(owner) \in Nat
    BY <2>1 DEF Caches
  <2>3. \A t \in Nat : Append(lastPollTime, t)[c] = lastPollTime[c]
    BY <2>1, <2>2
  <2>4. \A p \in Projects : Append(owner, p)[c] = owner[c]
    BY <2>1, <2>2
  <2>5. project[q] \in Projects /\ now[project[q]] \in Nat
    BY <1>1 DEF Creates, IInv, TypeOK
  <2> QED
    BY <1>1, <2>3, <2>4, <2>5 DEF Creates
<1>2. CASE ~ Creates(q)
  BY <1>2 DEF Continues, CreationFails, StartsPoller, Stores, Ends,
     BackendAnswers, CachesAnswer, BackendWrites, UpdatesCache, cacheVars
<1> QED
  BY <1>1, <1>2

\* What a step does to the time of the last change of a project.
LEMMA ChangesAreNew ==
    ASSUME IInv, Next, NEW p \in Projects
    PROVE  changed'[p] = changed[p] \/ changed'[p] > now[p]
<1>1. ASSUME NEW r \in Projects, NEW ofGrant \in BOOLEAN, Change(r, ofGrant)
      PROVE  changed'[p] = changed[p] \/ changed'[p] > now[p]
  BY <1>1 DEF Change, IInv, TypeOK
<1>2. ASSUME NEW q \in Requests, BackendWrites(q)
      PROVE  changed'[p] = changed[p] \/ changed'[p] > now[p]
  <2>1. project[q] \in Projects
    BY <1>2, CacheIsOwn DEF BackendWrites, Goto, IInv
  <2> QED
    BY <2>1, <1>1, <1>2 DEF BackendWrites
<1>3. ASSUME NEW q \in Requests, Continues(q), ~ BackendWrites(q)
      PROVE  changed' = changed
  BY <1>3 DEF Continues, CreationFails, Creates, StartsPoller, Stores, Ends,
     BackendAnswers, CachesAnswer, UpdatesCache, backendVars
<1>4. ASSUME NEW r \in Projects, ChangeByOthers(r)
      PROVE  changed'[p] = changed[p] \/ changed'[p] > now[p]
  BY <1>4, <1>1 DEF ChangeByOthers
<1> QED
  BY <1>2, <1>3, <1>4 DEF Next, Loads, Polls, backendVars

(***************************************************************************)
(* For any number of projects, requests and changes: an outdated grant of  *)
(* a cache escapes the cache's polls only if a Check caches an answer that *)
(* is older than the last of them.                                         *)
(***************************************************************************)
THEOREM OnlyLateAnswers == Spec => OnlyLateAnswersGoUnnoticed
<1>1. ASSUME IInv, Next, NEW c \in Caches, ~ Unnoticed(c), Unnoticed(c)'
      PROVE  \E q \in Requests : /\ pc[q] = "answered" /\ cache[q] = c
                                 /\ answer[q] < lastPollTime[c]
  <2>1. /\ owner[c] \in Projects /\ lastPollTime[c] \in Nat
        /\ now[owner[c]] \in Nat /\ lastPollTime[c] <= now[owner[c]]
        /\ changed[owner[c]] \in Nat /\ grant[c] \in Nat \cup {NoGrant}
    BY <1>1 DEF IInv, TypeOK, NoTimeAhead, Caches
  <2>2. /\ grant'[c] # NoGrant /\ grant'[c] < changed'[owner'[c]]
        /\ changed'[owner'[c]] <= lastPollTime'[c]
    BY <1>1 DEF Unnoticed, Outdated
  <2>3. changed'[owner[c]] = changed[owner[c]] \/ changed'[owner[c]] > now[owner[c]]
    BY <1>1, <2>1, ChangesAreNew
  <2>4. IInv'
    BY <1>1, NextKeepsInvariant
  <2>5. changed'[owner[c]] \in Nat
    BY <2>1, <2>4 DEF IInv, TypeOK
  <2>6. ASSUME owner'[c] = owner[c], lastPollTime'[c] = lastPollTime[c]
        PROVE  /\ changed'[owner[c]] = changed[owner[c]]
               /\ grant'[c] # grant[c]
    <3>1. changed'[owner[c]] = changed[owner[c]]
      BY <2>1, <2>2, <2>3, <2>5, <2>6
    <3> QED
      BY <1>1, <2>2, <2>6, <3>1 DEF Unnoticed, Outdated
  <2>7. CASE \E q \in Requests, p \in Projects : Loads(q, p)
    BY <2>6, <2>7 DEF Loads, cacheVars
  <2>8. CASE \E p \in Projects : ChangeByOthers(p)
    BY <2>6, <2>8 DEF ChangeByOthers, cacheVars
  <2>9. ASSUME NEW d \in Caches, Polls(d) PROVE FALSE
    <3>1. /\ owner' = owner /\ changed' = changed
          /\ lastPollTime' = [lastPollTime EXCEPT ![d] = now[owner[d]]]
          /\ \/ grant' = [grant EXCEPT ![d] = NoGrant]
             \/ changed[owner[d]] <= lastPollTime[d] /\ UNCHANGED grant
      BY <2>9 DEF Polls, backendVars
    <3>2. grant \in [Caches -> Nat \cup {NoGrant}] /\ lastPollTime \in [Caches -> Nat]
      BY <1>1 DEF IInv, TypeOK
    <3>3. CASE d # c
      BY <3>1, <3>2, <3>3, <2>2, <2>6
    <3>4. CASE d = c
      <4>1. grant' = grant /\ changed[owner[c]] <= lastPollTime[c]
        BY <3>1, <3>2, <3>4, <2>2
      <4> QED
        BY <4>1, <3>1, <1>1, <2>2 DEF Unnoticed, Outdated
    <3> QED
      BY <3>3, <3>4
  <2>10. ASSUME NEW q \in Requests, Continues(q)
         PROVE  /\ pc[q] = "answered" /\ cache[q] = c
                /\ answer[q] < lastPollTime[c]
    <3>1. owner'[c] = owner[c] /\ lastPollTime'[c] = lastPollTime[c]
      BY <1>1, <2>10, RequestsDoNotPoll
    <3>2. CachesAnswer(q)
      BY <1>1, <2>2, <2>6, <2>10, <3>1, RequestsAddNoGrant
    <3>3. PICK g \in {answer[q], grant[cache[q]], NoGrant} :
              grant' = [grant EXCEPT ![cache[q]] = g]
      BY <3>2 DEF CachesAnswer
    <3>4. grant \in [Caches -> Nat \cup {NoGrant}]
      BY <1>1 DEF IInv, TypeOK
    <3>5. cache[q] = c /\ g = answer[q]
      BY <2>2, <2>6, <3>1, <3>3, <3>4
    <3>6. grant'[c] = answer[q] /\ answer[q] \in Nat
      BY <1>1, <2>2, <3>3, <3>4, <3>5 DEF IInv, TypeOK
    <3>7. pc[q] = "answered"
      BY <3>2 DEF CachesAnswer, Leaves, Goto
    <3> QED
      BY <2>1, <2>2, <2>5, <3>1, <3>5, <3>6, <3>7
  <2> QED
    BY <1>1, <2>7, <2>8, <2>9, <2>10 DEF Next
<1>2. IInv /\ [Next]_vars =>
          [\A c \in Caches : ~ Unnoticed(c) /\ Unnoticed(c)' =>
               \E q \in Requests :
                   /\ pc[q] = "answered" /\ cache[q] = c
                   /\ answer[q] < lastPollTime[c]]_vars
  BY <1>1
<1> QED
  BY <1>2, InvariantHolds, PTL DEF Spec, OnlyLateAnswersGoUnnoticed

=============================================================================
