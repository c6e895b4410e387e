--------------------------- MODULE ProjectRegistry ---------------------------
(***************************************************************************)
(* The map from projects to their caches (getOrCreateProjectCache in       *)
(* internal/services/authz.go).  The map is a sync.Map that is read and    *)
(* stored to without a lock around both: requests that find no cache at    *)
(* the same time create one each, start a poller for each, and the last    *)
(* one to store wins.  The others keep running: each is used by the        *)
(* requests that already have it, and polled for as long as the service    *)
(* runs.                                                                   *)
(*                                                                         *)
(* Of what the caches hold, one grant of each project is followed: the     *)
(* time of the backend's answer, which is a step of its own before the     *)
(* answer is cached, and the cache's own lastPollTime, which decides what  *)
(* the next poll of this cache reports.  A poll is one step here, as it    *)
(* holds the cache's mutex; a clock that differs from the backend's, and   *)
(* the changes that fall between the two ends of a poll, are left to       *)
(* AuthzCacheService.                                                      *)
(***************************************************************************)
EXTENDS Naturals, Sequences, FiniteSets

CONSTANTS
    Projects,       \* the project IDs of the requests
    EmptyProjectID, \* the project ID of a request without one
    Requests,       \* the requests in flight at one time
    MaxChanges,     \* bound of the model: backend changes of a project
    NoCache,        \* the map does not hold the project
    NoGrant         \* the cache does not hold the grant

ASSUME RequestsAssumption == IsFiniteSet(Requests)
ASSUME MaxChangesAssumption == MaxChanges \in Nat
ASSUME AbsentAssumption == NoCache \notin Nat /\ NoGrant \notin Nat

VARIABLES
    projects,   \* project -> the cache in the map, or NoCache
    owner,      \* the caches in the order of their creation: the project of each
    grant,      \* cache -> when its grant was decided, or NoGrant
    lastPollTime, \* cache -> the time after which its next poll asks
    polled,     \* the caches that have a poller
    now,        \* project -> the number of its changes in the backend
    changed,    \* project -> the time of the last change that concerns the grant
    pc,         \* where each request is
    project,    \* the project of the request, EmptyProjectID between requests
    cache,      \* the cache that the request works with
    answer      \* when the backend answered the request, NoGrant before

cacheVars == <<owner, grant, lastPollTime, polled>>
backendVars == <<now, changed>>
requestVars == <<pc, project, cache, answer>>
vars == <<projects, cacheVars, backendVars, requestVars>>

Caches == 1 .. Len(owner)
CachesOf(p) == { c \in Caches : owner[c] = p }
PollersOf(p) == CachesOf(p) \cap polled

PCs == {"idle", "creating", "created", "started", "using", "answered",
        "wroteGrant", "wroteOther"}

TypeOK ==
    /\ owner \in Seq(Projects)
    /\ projects \in [Projects -> Caches \cup {NoCache}]
    /\ grant \in [Caches -> Nat \cup {NoGrant}]
    /\ lastPollTime \in [Caches -> Nat]
    /\ polled \subseteq Caches
    /\ now \in [Projects -> Nat]
    /\ changed \in [Projects -> Nat]
    /\ pc \in [Requests -> PCs]
    /\ project \in [Requests -> Projects \cup {EmptyProjectID}]
    /\ cache \in [Requests -> Caches \cup {NoCache}]
    /\ answer \in [Requests -> Nat \cup {NoGrant}]
    /\ \A q \in Requests :
           /\ pc[q] \notin {"idle", "creating"} => cache[q] \in CachesOf(project[q])
           /\ pc[q] \in {"idle", "creating"} => cache[q] = NoCache

Init ==
    /\ projects = [p \in Projects |-> NoCache]
    /\ owner = <<>>
    /\ grant = <<>>
    /\ lastPollTime = <<>>
    /\ polled = {}
    /\ now = [p \in Projects |-> 0]
    /\ changed = [p \in Projects |-> 0]
    /\ pc = [q \in Requests |-> "idle"]
    /\ project = [q \in Requests |-> EmptyProjectID]
    /\ cache = [q \in Requests |-> NoCache]
    /\ answer = [q \in Requests |-> NoGrant]

Goto(q, from, to) ==
    /\ pc[q] = from
    /\ pc' = [pc EXCEPT ![q] = to]

Leaves(q, from) ==
    /\ Goto(q, from, "idle")
    /\ project' = [project EXCEPT ![q] = EmptyProjectID]
    /\ cache' = [cache EXCEPT ![q] = NoCache]
    /\ answer' = [answer EXCEPT ![q] = NoGrant]

-----------------------------------------------------------------------------
(* getOrCreateProjectCache                                                 *)

Loads(q, p) ==
    /\ Goto(q, "idle", IF projects[p] = NoCache THEN "creating" ELSE "using")
    /\ project' = [project EXCEPT ![q] = p]
    /\ cache' = [cache EXCEPT ![q] = projects[p]]
    /\ UNCHANGED <<projects, cacheVars, backendVars, answer>>

\* Variant with a defect: the request goes on without a cache.
CreationFailsUnnoticed(q) ==
    /\ Goto(q, "creating", "created")
    /\ UNCHANGED <<projects, cacheVars, backendVars, project, cache, answer>>

\* Variant with a defect: a cache that another request stored is removed.
CreationFailsAndDeletes(q) ==
    /\ projects' = [projects EXCEPT ![project[q]] = NoCache]
    /\ Leaves(q, "creating")
    /\ UNCHANGED <<cacheVars, backendVars>>

\* The remote client or the cache cannot be created: the request fails.
CreationFails(q) ==
    /\ Leaves(q, "creating")
    /\ UNCHANGED <<projects, cacheVars, backendVars>>

(***************************************************************************)
(* There is no remote client for a request that names no project.  The new *)
(* cache is empty, and its first poll asks for what changes from now on.   *)
(***************************************************************************)
Creates(q) ==
    /\ Goto(q, "creating", "created")
    /\ project[q] # EmptyProjectID
    /\ owner' = Append(owner, project[q])
    /\ grant' = Append(grant, NoGrant)
    /\ lastPollTime' = Append(lastPollTime, now[project[q]])
    /\ cache' = [cache EXCEPT ![q] = Len(owner) + 1]
    /\ UNCHANGED <<projects, polled, backendVars, project, answer>>

\* Variant with a defect: a project that has a poller does not get another.
StartsFirstPoller(q) ==
    /\ Goto(q, "created", "started")
    /\ polled' = IF PollersOf(project[q]) = {} THEN polled \cup {cache[q]}
                 ELSE polled
    /\ UNCHANGED <<projects, owner, grant, lastPollTime, backendVars>>
    /\ UNCHANGED <<project, cache, answer>>

StartsPoller(q) ==
    /\ Goto(q, "created", "started")
    /\ polled' = polled \cup {cache[q]}
    /\ UNCHANGED <<projects, owner, grant, lastPollTime, backendVars>>
    /\ UNCHANGED <<project, cache, answer>>

Stores(q) ==
    /\ Goto(q, "started", "using")
    /\ projects' = [projects EXCEPT ![project[q]] = cache[q]]
    /\ UNCHANGED <<cacheVars, backendVars, project, cache, answer>>

-----------------------------------------------------------------------------
(* The requests with the cache that they got.                              *)

\* Served from the cache, or the backend call fails: the cache is as it was.
Ends(q) ==
    /\ Leaves(q, "using")
    /\ UNCHANGED <<projects, cacheVars, backendVars>>

\* A conditional grant may be asked for again although the cache holds it.
BackendAnswers(q) ==
    /\ Goto(q, "using", "answered")
    /\ answer' = [answer EXCEPT ![q] = now[project[q]]]
    /\ UNCHANGED <<projects, cacheVars, backendVars, project, cache>>

\* The answer is cached, or is not cacheable, or another one evicts the grant.
CachesAnswer(q) ==
    /\ Leaves(q, "answered")
    /\ \E g \in {answer[q], grant[cache[q]], NoGrant} :
           grant' = [grant EXCEPT ![cache[q]] = g]
    /\ UNCHANGED <<projects, owner, lastPollTime, polled, backendVars>>

\* A change of project p, of what the grant depends on or of something else.
Change(p, ofGrant) ==
    /\ now[p] < MaxChanges
    /\ now' = [now EXCEPT ![p] = @ + 1]
    /\ changed' = IF ofGrant THEN [changed EXCEPT ![p] = now[p] + 1] ELSE changed

BackendWrites(q) ==
    /\ \/ Goto(q, "using", "wroteGrant") /\ Change(project[q], TRUE)
       \/ Goto(q, "using", "wroteOther") /\ Change(project[q], FALSE)
    /\ UNCHANGED <<projects, cacheVars, project, cache, answer>>

\* Variant with a defect: a write counts as a poll of the cache.
UpdatesCacheAndPollTime(q) ==
    /\ \/ /\ Leaves(q, "wroteGrant")
          /\ grant' = [grant EXCEPT ![cache[q]] = NoGrant]
       \/ /\ Leaves(q, "wroteOther")
          /\ \E g \in {grant[cache[q]], NoGrant} :
                 grant' = [grant EXCEPT ![cache[q]] = g]
    /\ lastPollTime' = [lastPollTime EXCEPT ![cache[q]] = now[project[q]]]
    /\ UNCHANGED <<projects, owner, polled, backendVars>>

(***************************************************************************)
(* The writer's own cache forgets what the write concerns, and maybe more: *)
(* a write of relations purges all indirect grants, one of a schema purges *)
(* all.  What the next poll asks for stays as it is.                       *)
(***************************************************************************)
UpdatesCache(q) ==
    /\ \/ /\ Leaves(q, "wroteGrant")
          /\ grant' = [grant EXCEPT ![cache[q]] = NoGrant]
       \/ /\ Leaves(q, "wroteOther")
          /\ \E g \in {grant[cache[q]], NoGrant} :
                 grant' = [grant EXCEPT ![cache[q]] = g]
    /\ UNCHANGED <<projects, owner, lastPollTime, polled, backendVars>>

\* Or by a write whose call fails although it took effect.  The backend has no
\* project of the empty ID.
ChangeByOthers(p) ==
    /\ p # EmptyProjectID
    /\ \E ofGrant \in BOOLEAN : Change(p, ofGrant)
    /\ UNCHANGED <<projects, cacheVars, requestVars>>

(***************************************************************************)
(* A poll of the cache asks for the changes after lastPollTime, and drops  *)
(* the grant if they concern it.  It drops it as well when all is purged:  *)
(* for another change if the grant is indirect, for one of the schema, or  *)
(* because polls fail.  An empty cache only moves lastPollTime.            *)
(***************************************************************************)
Polls(c) ==
    /\ c \in polled
    /\ \/ grant' = [grant EXCEPT ![c] = NoGrant]
       \/ changed[owner[c]] <= lastPollTime[c] /\ UNCHANGED grant
    /\ lastPollTime' = [lastPollTime EXCEPT ![c] = now[owner[c]]]
    /\ UNCHANGED <<projects, owner, polled, backendVars, requestVars>>

-----------------------------------------------------------------------------
\* A step of a request that has begun.
Continues(q) ==
    \/ CreationFails(q)
    \/ Creates(q)
    \/ StartsPoller(q)
    \/ Stores(q)
    \/ Ends(q)
    \/ BackendAnswers(q)
    \/ CachesAnswer(q)
    \/ BackendWrites(q)
    \/ UpdatesCache(q)

Next ==
    \/ \E q \in Requests, p \in Projects : Loads(q, p)
    \/ \E q \in Requests : Continues(q)
    \/ \E p \in Projects : ChangeByOthers(p)
    \/ \E c \in Caches : Polls(c)

Spec == Init /\ [][Next]_vars

-----------------------------------------------------------------------------
(***************************************************************************)
(* The cache that a project ends up with is polled, whichever of several   *)
(* first requests stored it: no cache serves without hearing of changes.   *)
(***************************************************************************)
RegisteredCacheIsPolled ==
    \A p \in Projects : projects[p] # NoCache => projects[p] \in PollersOf(p)

(***************************************************************************)
(* Racing first requests leave pollers behind that nothing stops, but only *)
(* once: a project never has more of them than there were requests in      *)
(* flight at one time.                                                     *)
(***************************************************************************)
PollersAreBounded ==
    \A p \in Projects : Cardinality(PollersOf(p)) <= Cardinality(Requests)

Outdated(c) == grant[c] # NoGrant /\ grant[c] < changed[owner[c]]

\* No poll of the cache will report the change that has outdated its grant.
Unnoticed(c) == Outdated(c) /\ changed[owner[c]] <= lastPollTime[c]

(***************************************************************************)
(* A cache that several requests write and poll keeps an outdated grant    *)
(* beyond its next poll in one way only: a Check caches an answer that is  *)
(* older than the last poll (authz.go 120-128).  No write through this or  *)
(* another cache of the project, no poll of another cache and no racing    *)
(* first request makes it miss the change.                                 *)
(***************************************************************************)
OnlyLateAnswersGoUnnoticed ==
    [][\A c \in Caches : ~ Unnoticed(c) /\ Unnoticed(c)' =>
           \E q \in Requests :
               /\ pc[q] = "answered" /\ cache[q] = c
               /\ answer[q] < lastPollTime[c]]_vars

=============================================================================
