--------------------------- MODULE BenchmarkCache ---------------------------
(***************************************************************************)
(* The benchmark query cache of one server process,                        *)
(* packages/server/benchmark-query-cache.js, with its users: the two       *)
(* queries of graphql/query-service.js that load through it, and the       *)
(* ingest handlers that invalidate it after their commit.                  *)
(*                                                                         *)
(* One project: the keys of different projects differ.  What a query       *)
(* returns is abstracted to the oldest database version among its reads    *)
(* and the time of its oldest read.                                        *)
(***************************************************************************)
EXTENDS Integers, FiniteSets

CONSTANTS Queries,             \* GraphQL requests
          Asked,               \* Asked[q]: what request q asks for
          Publications,        \* ingest transactions of the project
          LocalPublications,   \* those the same process ingests (SERVER_ROLE "all")
          InvalidationScopes,  \* the sets of keys an invalidation names
          Ttl,                 \* ttlMs
          MaxLoad,             \* bound: the longest a load runs
          MaxNow,              \* bound: the end of time
          None

Kinds == {"summary", "catalog"}
Keys == {"project-id", "project-key"}
Promises == Queries \X Kinds   \* the promise that call <<q, k>> may create

ASSUME CacheAssumption ==
    /\ Asked \in [Queries -> Kinds]
    /\ IsFiniteSet(Publications) /\ LocalPublications \subseteq Publications
    /\ InvalidationScopes \subseteq (SUBSET Keys) \ {{}}
    /\ Ttl \in Nat \ {0} /\ MaxLoad \in Nat /\ MaxNow \in Nat
    /\ None \notin [version : 0..Cardinality(Publications), readAt : 0..MaxNow]

VARIABLES
    now,          \* Date.now()
    version,      \* the number of committed publications
    publication,  \* publication[i]: "idle", "committed" or "responded"
    invalidated,  \* the newest version this process has been told of
    entries,      \* entries[k][key]: the cached entry, or None
    pending,      \* pending[k][key]: the promise of the load in flight, or None
    call,         \* call[t]: the state of a call, a request's own or a loader's nested one
    awaits,       \* awaits[t]: the promise a waiting call joined or created
    answer,       \* answer[t]: the value a call returned, or None
    stage,        \* stage[p]: how far the load of promise p has come
    loaded,       \* loaded[p]: what the load has read so far, or None
    startedAt     \* startedAt[p]: when the load began

cacheVars == <<entries, pending>>
callVars == <<call, awaits, answer>>
loadVars == <<stage, loaded, startedAt>>
worldVars == <<now, version, publication, invalidated>>
vars == <<worldVars, cacheVars, callVars, loadVars>>

NoKeys == [key \in Keys |-> None]
Running == {"start", "catalog", "trends", "overviews", "rows", "read"}

Least(m, n) == IF m < n THEN m ELSE n

(* A read of the database now, added to what was read before. *)
ReadNow(value) ==
    IF value = None THEN [version |-> version, readAt |-> now]
    ELSE [version |-> Least(value.version, version), readAt |-> Least(value.readAt, now)]

-----------------------------------------------------------------------------
(* The cache.                                                               *)

(* Faulty variant: an entry lives through the tick it expires at. *)
PruneLate(cached) ==
    [key \in Keys |-> IF cached[key] # None /\ cached[key].expiresAt < now
                      THEN None ELSE cached[key]]

(* readCacheEntry: expired entries are deleted, then the first key with an  *)
(* entry answers.                                                          *)
Prune(cached) ==
    [key \in Keys |-> IF cached[key] # None /\ cached[key].expiresAt <= now
                      THEN None ELSE cached[key]]

Hits(cached) == {cached[key] : key \in Keys} \ {None}

(* writeCacheEntry: one entry under every key of the scope. *)
Entry(value) == [value |-> value, expiresAt |-> now + Ttl]
WriteEntry(value) == [key \in Keys |-> Entry(value)]

(* Faulty variant: only the keys of the scope are deleted. *)
InvalidateNamedKeys(cached, scope) ==
    [key \in Keys |-> IF key \in scope THEN None ELSE cached[key]]

(* invalidateCacheEntries: a matched entry is deleted under all its keys;   *)
(* every writer names both keys.                                           *)
InvalidateEntries(cached, scope) ==
    IF \E key \in scope : cached[key] # None THEN NoKeys ELSE cached

(* invalidatePendingEntries: a matched promise is forgotten under all keys. *)
InvalidatePending(waiting, scope) ==
    [key \in Keys |-> IF waiting[key] \in {waiting[k] : k \in scope}
                      THEN None ELSE waiting[key]]

-----------------------------------------------------------------------------
(* A call: listBenchmarkCatalog or getBenchmarkSummary of one project.      *)

(* The cached entry answers. *)
Hit(t) ==
    \E entry \in Hits(Prune(entries[t[2]])) :
        /\ entries' = [entries EXCEPT ![t[2]] = Prune(@)]
        /\ answer' = [answer EXCEPT ![t] = entry.value]
        /\ call' = [call EXCEPT ![t] = "answered"]
        /\ UNCHANGED <<pending, awaits, startedAt>>

(* A miss that finds a load in flight waits for it. *)
Join(t) ==
    /\ Hits(Prune(entries[t[2]])) = {}
    /\ \E key \in Keys :
          /\ pending[t[2]][key] # None
          /\ awaits' = [awaits EXCEPT ![t] = pending[t[2]][key]]
    /\ entries' = [entries EXCEPT ![t[2]] = NoKeys]
    /\ call' = [call EXCEPT ![t] = "waiting"]
    /\ UNCHANGED <<pending, answer, startedAt>>

(* Faulty variant: the load is registered before its promise exists. *)
LoadUnderNoKey(t) ==
    /\ Hits(Prune(entries[t[2]])) = {}
    /\ pending[t[2]] = NoKeys
    /\ pending' = [pending EXCEPT ![t[2]] = [key \in Keys |-> "undefined"]]
    /\ awaits' = [awaits EXCEPT ![t] = t]
    /\ startedAt' = [startedAt EXCEPT ![t] = now]
    /\ entries' = [entries EXCEPT ![t[2]] = NoKeys]
    /\ call' = [call EXCEPT ![t] = "waiting"]
    /\ UNCHANGED answer

(* A miss without one starts a load and registers it under every key. *)
Load(t) ==
    /\ Hits(Prune(entries[t[2]])) = {}
    /\ pending[t[2]] = NoKeys
    /\ pending' = [pending EXCEPT ![t[2]] = [key \in Keys |-> t]]
    /\ awaits' = [awaits EXCEPT ![t] = t]
    /\ startedAt' = [startedAt EXCEPT ![t] = now]
    /\ entries' = [entries EXCEPT ![t[2]] = NoKeys]
    /\ call' = [call EXCEPT ![t] = "waiting"]
    /\ UNCHANGED answer

Ask(q) ==
    LET t == <<q, Asked[q]>> IN
    /\ call[t] = "idle"
    /\ \/ (Hit(t) \/ Join(t)) /\ UNCHANGED stage
       \/ Load(t) /\ stage' = [stage EXCEPT ![t] = IF Asked[q] = "summary" THEN "start" ELSE "rows"]
    /\ UNCHANGED <<worldVars, loaded>>

-----------------------------------------------------------------------------
(* The loaders.                                                             *)

(* Faulty variant: the loader does not bypass the cache and joins itself. *)
CallCachedSummary(q) ==
    LET p == <<q, "summary">>
        t == <<q, "catalog">>
    IN
    /\ stage[p] = "start"
    /\ awaits' = [awaits EXCEPT ![t] = p]
    /\ call' = [call EXCEPT ![t] = "waiting"]
    /\ stage' = [stage EXCEPT ![p] = "catalog"]
    /\ UNCHANGED <<worldVars, cacheVars, answer, loaded, startedAt>>

(* The loader of a summary repeats getBenchmarkSummary past the cache; its  *)
(* own call of listBenchmarkCatalog goes through the cache.                *)
CallCatalog(q) ==
    LET p == <<q, "summary">>
        t == <<q, "catalog">>
    IN
    /\ stage[p] = "start"
    /\ \/ (Hit(t) \/ Join(t)) /\ stage' = [stage EXCEPT ![p] = "catalog"]
       \/ Load(t) /\ stage' = [stage EXCEPT ![p] = "catalog", ![t] = "rows"]
    /\ UNCHANGED <<worldVars, loaded>>

TakeCatalog(q) ==
    LET p == <<q, "summary">> IN
    /\ stage[p] = "catalog" /\ call[<<q, "catalog">>] = "answered"
    /\ loaded' = [loaded EXCEPT ![p] = answer[<<q, "catalog">>]]
    /\ stage' = [stage EXCEPT ![p] = "trends"]
    /\ UNCHANGED <<worldVars, cacheVars, callVars, startedAt>>

(* The trends of the catalog's metrics; an empty catalog has none. *)
ReadTrends(p) ==
    /\ stage[p] = "trends"
    /\ \E metrics \in BOOLEAN :
          loaded' = [loaded EXCEPT ![p] = IF metrics THEN ReadNow(@) ELSE @]
    /\ stage' = [stage EXCEPT ![p] = "overviews"]
    /\ UNCHANGED <<worldVars, cacheVars, callVars, startedAt>>

(* The last query of a summary, the only one of a catalog. *)
ReadRows(p) ==
    /\ stage[p] \in {"overviews", "rows"}
    /\ loaded' = [loaded EXCEPT ![p] = ReadNow(@)]
    /\ stage' = [stage EXCEPT ![p] = "read"]
    /\ UNCHANGED <<worldVars, cacheVars, callVars, startedAt>>

(* finally: the promise is forgotten under the keys that still name it. *)
Forget(p) ==
    pending' = [pending EXCEPT ![p[2]] =
                  [key \in Keys |-> IF @[key] = p THEN None ELSE @[key]]]

Waiters(p) == {t \in Promises : call[t] = "waiting" /\ awaits[t] = p}

(* What an ended load and its callers held is garbage. *)
EndLoad(p) ==
    /\ awaits' = [t \in Promises |-> IF t \in Waiters(p) THEN None ELSE awaits[t]]
    /\ stage' = [stage EXCEPT ![p] = "settled"]
    /\ loaded' = [loaded EXCEPT ![p] = None]
    /\ startedAt' = [startedAt EXCEPT ![p] = 0]

(* The loader itself writes its value before it returns.  loadCoalescedEntry *)
(* then writes the same entry if the promise is still registered, and every  *)
(* caller gets the value.                                                    *)
Settle(p) ==
    /\ stage[p] = "read"
    /\ entries' = [entries EXCEPT ![p[2]] = WriteEntry(loaded[p])]
    /\ Forget(p)
    /\ call' = [t \in Promises |-> IF t \in Waiters(p) THEN "answered" ELSE call[t]]
    /\ answer' = [t \in Promises |-> IF t \in Waiters(p) THEN loaded[p] ELSE answer[t]]
    /\ EndLoad(p)
    /\ UNCHANGED worldVars

(* A query fails, or the nested catalog call did: every caller fails. *)
Reject(p) ==
    /\ \/ stage[p] \in {"trends", "overviews", "rows"}
       \/ stage[p] = "catalog" /\ call[<<p[1], "catalog">>] = "failed"
    /\ Forget(p)
    /\ call' = [t \in Promises |-> IF t \in Waiters(p) THEN "failed" ELSE call[t]]
    /\ EndLoad(p)
    /\ UNCHANGED <<worldVars, entries, answer>>

-----------------------------------------------------------------------------
(* Ingestion and time.                                                      *)

CommitPublication(i) ==
    /\ publication[i] = "idle"
    /\ version' = version + 1
    /\ publication' = [publication EXCEPT ![i] = "committed"]
    /\ UNCHANGED <<now, invalidated, cacheVars, callVars, loadVars>>

(* invalidateProject; whatever this process read before is out of date. *)
InvalidateProject(i) ==
    /\ i \in LocalPublications /\ publication[i] = "committed"
    /\ \E scope \in InvalidationScopes :
          /\ entries' = [k \in Kinds |-> InvalidateEntries(entries[k], scope)]
          /\ pending' = [k \in Kinds |-> InvalidatePending(pending[k], scope)]
    /\ invalidated' = version
    /\ publication' = [publication EXCEPT ![i] = "responded"]
    /\ UNCHANGED <<now, version, callVars, loadVars>>

Tick ==
    /\ now < MaxNow
    /\ \A p \in Promises : stage[p] \in Running => now < startedAt[p] + MaxLoad
    /\ now' = now + 1
    /\ UNCHANGED <<version, publication, invalidated, cacheVars, callVars, loadVars>>

Init ==
    /\ now = 0 /\ version = 0 /\ invalidated = 0
    /\ publication = [i \in Publications |-> "idle"]
    /\ entries = [k \in Kinds |-> NoKeys]
    /\ pending = [k \in Kinds |-> NoKeys]
    /\ call = [t \in Promises |-> "idle"]
    /\ awaits = [t \in Promises |-> None]
    /\ answer = [t \in Promises |-> None]
    /\ stage = [p \in Promises |-> "none"]
    /\ loaded = [p \in Promises |-> None]
    /\ startedAt = [p \in Promises |-> 0]

Advance(p) == ReadTrends(p) \/ ReadRows(p) \/ Settle(p) \/ Reject(p)

Next == \/ \E q \in Queries : Ask(q) \/ CallCatalog(q) \/ TakeCatalog(q)
        \/ \E p \in Promises : Advance(p)
        \/ \E i \in Publications : CommitPublication(i) \/ InvalidateProject(i)
        \/ Tick

Spec == Init /\ [][Next]_vars

(* The event loop runs callbacks, and a query returns or fails. *)
FairSpec ==
    /\ Spec
    /\ \A q \in Queries : WF_vars(CallCatalog(q) \/ TakeCatalog(q))
    /\ \A p \in Promises : WF_vars(Advance(p))
-----------------------------------------------------------------------------
ValueType == [version : 0..Cardinality(Publications), readAt : 0..MaxNow]
EntryType == [value : ValueType, expiresAt : Nat]

(* Every variable holds a value of its type. *)
TypeOK ==
    /\ now \in 0..MaxNow
    /\ version \in 0..Cardinality(Publications)
    /\ invalidated \in 0..Cardinality(Publications)
    /\ publication \in [Publications -> {"idle", "committed", "responded"}]
    /\ entries \in [Kinds -> [Keys -> EntryType \union {None}]]
    /\ pending \in [Kinds -> [Keys -> Promises \union {None}]]
    /\ call \in [Promises -> {"idle", "waiting", "answered", "failed"}]
    /\ awaits \in [Promises -> Promises \union {None}]
    /\ answer \in [Promises -> ValueType \union {None}]
    /\ stage \in [Promises -> Running \union {"none", "settled"}]
    /\ loaded \in [Promises -> ValueType \union {None}]
    /\ startedAt \in [Promises -> 0..MaxNow]

(* The two keys of the project never disagree, neither on the entry nor on  *)
(* the load in flight, whichever key an invalidation names.                *)
AliasesAgree ==
    \A k \in Kinds, a, b \in Keys :
        entries[k][a] = entries[k][b] /\ pending[k][a] = pending[k][b]

(* A load registered as in flight is in flight: no query joins a promise    *)
(* that ended, after whatever order of failures and invalidations.         *)
PendingRuns ==
    \A k \in Kinds, key \in Keys :
        pending[k][key] # None => stage[pending[k][key]] \in Running

(* A query that arrives after an invalidation does not join a catalog load  *)
(* that read the database before the publication.                          *)
InvalidatedLoadNotJoined ==
    \A key \in Keys :
        LET p == pending["catalog"][key] IN
        p # None /\ loaded[p] # None => loaded[p].version >= invalidated

(* The two keys of a project are one place, a load in flight is one that    *)
(* runs, and none is joined that read what a publication has changed.       *)
CacheSound == AliasesAgree /\ PendingRuns /\ InvalidatedLoadNotJoined

(* No answer is older than twice the life of an entry and twice that of a   *)
(* load: a summary is built from a cached catalog and cached again, and     *)
(* nothing else adds to its age.                                           *)
AnswerAgeBounded ==
    [][\A t \in Promises :
          call'[t] = "answered" /\ call[t] # "answered"
          => now - answer'[t].readAt <= 2 * (Ttl - 1) + 2 * MaxLoad]_vars

(* Every query is answered or fails: no load waits, through the calls it    *)
(* nests and the loads those join, for itself.                             *)
EveryCallAnswered ==
    \A t \in Promises : call[t] = "waiting" ~> call[t] \in {"answered", "failed"}

-----------------------------------------------------------------------------
(* What the repository's documents and tests say of the cache.              *)

(* "coalesces concurrent misses and does not restore invalidated work"      *)
InvalidatedWorkNotRestored ==
    \A k \in Kinds, key \in Keys :
        entries[k][key] # None => entries[k][key].value.version >= invalidated
=============================================================================
