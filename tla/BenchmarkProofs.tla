--------------------------- MODULE BenchmarkProofs ---------------------------
(***************************************************************************)
(* The cache (BenchmarkCache), for all queries, publications, lifetimes and *)
(* lengths of a load: the two keys of a project are one place, no query     *)
(* joins a load that has ended or that read what a publication has changed, *)
(* and no answer is older than two lives of an entry and two loads.         *)
(*                                                                         *)
(* The measurements (Benchmarks), for all runs, points, metrics and limits: *)
(* the bounded reads tell of the changes of the whole history, every page   *)
(* tells of them alike, and the effects of the explorer settle in one pass. *)
(***************************************************************************)
EXTENDS BenchmarkCache, Benchmarks, FiniteSetTheorems, TLAPS

-----------------------------------------------------------------------------
(* The cache.                                                               *)

(* What a value may be older than the load that returns it: the catalog of  *)
(* a summary comes from an entry of the cache.                              *)
Inherited(k) == IF k = "summary" THEN Ttl - 1 + MaxLoad ELSE 0

Committed == {i \in Publications : publication[i] # "idle"}

Typed ==
    /\ TypeOK
    /\ version = Cardinality(Committed)
    /\ invalidated <= version

(* A promise is registered under the keys of its kind, and runs.            *)
PendingOK(k, key) ==
    pending[k][key] # None => /\ pending[k][key] \in Promises
                              /\ pending[k][key][2] = k
                              /\ stage[pending[k][key]] \in Running

CallOK(t) ==
    /\ call[t] = "idle" => stage[t] = "none"
    /\ call[t] = "waiting" => awaits[t] \in Promises /\ awaits[t][2] = t[2]
    /\ call[t] = "answered" => answer[t] \in ValueType

(* A load holds a value when it settles, no older than it may be.           *)
LoadOK(p) ==
    /\ stage[p] \in Running => startedAt[p] <= now /\ now <= startedAt[p] + MaxLoad
    /\ stage[p] \notin Running => loaded[p] = None
    /\ stage[p] \in {"trends", "overviews", "read"} => loaded[p] \in ValueType
    /\ loaded[p] # None => loaded[p].readAt >= startedAt[p] - Inherited(p[2])

(* The catalog of a summary is asked for once, by the summary's load.       *)
NestedOK(q) ==
    LET p == <<q, "summary">>
        t == <<q, "catalog">>
    IN  /\ Asked[q] = "summary" /\ stage[p] \in {"none", "start"} => call[t] = "idle"
        /\ stage[p] # "none" => Asked[q] = "summary"
        /\ stage[p] = "catalog" /\ call[t] = "answered"
           => answer[t].readAt >= startedAt[p] - (Ttl - 1 + MaxLoad)

EntryOK(k, key) ==
    entries[k][key] # None
    => entries[k][key].value.readAt >= entries[k][key].expiresAt - Ttl - MaxLoad - Inherited(k)

Loads == /\ \A t \in Promises : CallOK(t) /\ LoadOK(t)
         /\ \A q \in Queries : NestedOK(q)
Cached == \A k \in Kinds, key \in Keys : PendingOK(k, key) /\ EntryOK(k, key)

IInv == Typed /\ Loads /\ Cached /\ AliasesAgree /\ InvalidatedLoadNotJoined

(* What a look at the cache does to it: entries go, under both keys.        *)
Shrunk ==
    /\ entries' \in [Kinds -> [Keys -> EntryType \union {None}]]
    /\ \A k \in Kinds, key \in Keys : entries'[k][key] \in {entries[k][key], None}
    /\ \A k \in Kinds, a, b \in Keys : entries'[k][a] = entries'[k][b]

-----------------------------------------------------------------------------
LEMMA Numbers == Ttl \in Nat \ {0} /\ MaxLoad \in Nat /\ MaxNow \in Nat /\ Cardinality(Publications) \in Nat
  BY CacheAssumption, FS_CardinalityType DEF CacheAssumption

LEMMA NoneApart == None \notin ValueType
  BY CacheAssumption DEF CacheAssumption, ValueType

LEMMA InheritedNat == \A k : Inherited(k) \in Nat
  BY Numbers DEF Inherited

LEMMA ReadNowType ==
    ASSUME Typed, NEW value \in ValueType \union {None}
    PROVE  /\ ReadNow(value) \in ValueType
           /\ \A m \in Nat : m <= version /\ (value # None => value.version >= m) => ReadNow(value).version >= m
           /\ \A m \in Int : m <= now /\ (value # None => value.readAt >= m) => ReadNow(value).readAt >= m
<1>1. now \in 0..MaxNow /\ version \in 0..Cardinality(Publications) BY DEF Typed, TypeOK
<1>2. CASE value = None BY <1>1, <1>2, Numbers DEF ReadNow, ValueType
<1>3. CASE value # None
  <2>1. value \in ValueType BY <1>3
  <2>2. Least(value.version, version) \in {value.version, version} /\ Least(value.readAt, now) \in {value.readAt, now}
    BY DEF Least
  <2>3. /\ ReadNow(value) = [version |-> Least(value.version, version), readAt |-> Least(value.readAt, now)]
        /\ value.version \in 0..Cardinality(Publications) /\ value.readAt \in 0..MaxNow
    BY <1>3, <2>1 DEF ReadNow, ValueType
  <2> QED BY <1>1, <1>3, <2>2, <2>3 DEF ValueType
<1> QED BY <1>2, <1>3

LEMMA PruneType ==
    ASSUME IInv, NEW k \in Kinds, NEW pruned, pruned = Prune(entries[k])
    PROVE  /\ pruned \in [Keys -> EntryType \union {None}]
           /\ \A key \in Keys : pruned[key] # None => pruned[key] = entries[k][key]
           /\ \A key \in Keys : pruned[key] # None => pruned[key].expiresAt > now
           /\ \A a, b \in Keys : pruned[a] = pruned[b]
<1>1. entries[k] \in [Keys -> EntryType \union {None}] /\ now \in Nat BY Numbers DEF IInv, Typed, TypeOK
<1>2. \A key \in Keys : entries[k][key] # None => entries[k][key].expiresAt \in Nat BY <1>1 DEF EntryType
<1>3. \A a, b \in Keys : entries[k][a] = entries[k][b] BY DEF IInv, AliasesAgree
<1> QED BY <1>1, <1>2, <1>3 DEF Prune

(* A hit answers with an entry that has not expired. *)
LEMMA HitType ==
    ASSUME IInv, NEW t \in Promises, Hit(t)
    PROVE  /\ Shrunk /\ UNCHANGED <<pending, awaits, startedAt>>
           /\ call' = [call EXCEPT ![t] = "answered"]
           /\ answer'[t] \in ValueType /\ answer' = [answer EXCEPT ![t] = answer'[t]]
           /\ answer'[t].readAt >= now + 1 - Ttl - MaxLoad - Inherited(t[2])
<1>0. PICK k \in Kinds : k = t[2] BY DEF Promises
<1>1. PICK pruned : pruned = Prune(entries[k]) OBVIOUS
<1>10. /\ pruned \in [Keys -> EntryType \union {None}]
       /\ \A key \in Keys : pruned[key] # None => pruned[key] = entries[k][key]
       /\ \A key \in Keys : pruned[key] # None => pruned[key].expiresAt > now
       /\ \A a, b \in Keys : pruned[a] = pruned[b]
  BY <1>0, <1>1, PruneType
<1>2. PICK entry \in Hits(pruned) :
        /\ entries' = [entries EXCEPT ![k] = pruned]
        /\ answer' = [answer EXCEPT ![t] = entry.value]
        /\ call' = [call EXCEPT ![t] = "answered"]
        /\ UNCHANGED <<pending, awaits, startedAt>>
  BY <1>0, <1>1 DEF Hit
<1>3. PICK key \in Keys : entry = pruned[key] /\ entry # None BY <1>2 DEF Hits
<1>4. entry = entries[k][key] /\ entry \in EntryType /\ entry.expiresAt > now
  BY <1>3, <1>10
<1>5. entry.value \in ValueType /\ entry.value.readAt \in Nat /\ entry.expiresAt \in Nat /\ now \in Nat
  BY <1>4, Numbers DEF EntryType, ValueType, IInv, Typed, TypeOK
<1>6. entry.value.readAt >= entry.expiresAt - Ttl - MaxLoad - Inherited(k)
  BY <1>0, <1>3, <1>4 DEF IInv, Cached, EntryOK
<1>7. entry.value.readAt >= now + 1 - Ttl - MaxLoad - Inherited(k)
  BY <1>4, <1>5, <1>6, Numbers, InheritedNat
<1>8. answer \in [Promises -> ValueType \union {None}] BY DEF IInv, Typed, TypeOK
<1>9. Shrunk
  <2>1. entries \in [Kinds -> [Keys -> EntryType \union {None}]] BY DEF IInv, Typed, TypeOK
  <2>2. entries' \in [Kinds -> [Keys -> EntryType \union {None}]] BY <1>0, <1>10, <1>2, <2>1
  <2>3. ASSUME NEW j \in Kinds, NEW a \in Keys, NEW b \in Keys
        PROVE  entries'[j][a] \in {entries[j][a], None} /\ entries'[j][a] = entries'[j][b]
    <3>1. pruned[a] \in {entries[k][a], None} /\ pruned[a] = pruned[b] BY <1>10
    <3>2. entries[j][a] = entries[j][b] BY DEF IInv, AliasesAgree
    <3>3. entries'[j] = IF j = k THEN pruned ELSE entries[j] BY <1>2, <2>1
    <3> QED BY <3>1, <3>2, <3>3
  <2> QED BY <2>2, <2>3 DEF Shrunk
<1> QED BY <1>2, <1>5, <1>7, <1>8, <1>9, <1>0

LEMMA MissType ==
    ASSUME IInv, NEW t \in Promises, entries' = [entries EXCEPT ![t[2]] = NoKeys]
    PROVE  Shrunk
<1>1. t[2] \in Kinds BY DEF Promises
<1>2. entries \in [Kinds -> [Keys -> EntryType \union {None}]] BY DEF IInv, Typed, TypeOK
<1> QED BY <1>1, <1>2 DEF Shrunk, NoKeys, IInv, AliasesAgree

(* A caller joins a load of the kind it asks for, one that runs. *)
LEMMA JoinType ==
    ASSUME IInv, NEW t \in Promises, Join(t)
    PROVE  /\ Shrunk /\ UNCHANGED <<pending, answer, startedAt>>
           /\ call' = [call EXCEPT ![t] = "waiting"]
           /\ awaits'[t] \in Promises /\ awaits'[t][2] = t[2] /\ awaits' = [awaits EXCEPT ![t] = awaits'[t]]
<1>1. t[2] \in Kinds BY DEF Promises
<1>2. PICK key \in Keys : pending[t[2]][key] # None /\ awaits' = [awaits EXCEPT ![t] = pending[t[2]][key]]
  BY DEF Join
<1>3. pending[t[2]][key] \in Promises /\ pending[t[2]][key][2] = t[2]
  BY <1>1, <1>2 DEF IInv, Cached, PendingOK
<1>4. awaits \in [Promises -> Promises \union {None}] BY DEF IInv, Typed, TypeOK
<1> QED BY <1>2, <1>3, <1>4, MissType DEF Join

LEMMA LoadType ==
    ASSUME IInv, NEW t \in Promises, Load(t)
    PROVE  /\ Shrunk /\ answer' = answer
           /\ pending[t[2]] = NoKeys /\ pending' = [pending EXCEPT ![t[2]] = [key \in Keys |-> t]]
           /\ awaits' = [awaits EXCEPT ![t] = t] /\ startedAt' = [startedAt EXCEPT ![t] = now]
           /\ call' = [call EXCEPT ![t] = "waiting"]
  BY MissType DEF Load

-----------------------------------------------------------------------------
(* What the steps leave as it was. *)

LEMMA EntriesStay == ASSUME IInv, Shrunk, UNCHANGED now PROVE \A k \in Kinds, key \in Keys : EntryOK(k, key)'
  BY DEF Shrunk, IInv, Cached, EntryOK

LEMMA WorldStays ==
    ASSUME IInv, UNCHANGED worldVars
    PROVE  /\ now' \in 0..MaxNow /\ version' \in 0..Cardinality(Publications)
           /\ invalidated' \in 0..Cardinality(Publications) /\ invalidated' <= version'
           /\ publication' \in [Publications -> {"idle", "committed", "responded"}]
           /\ version' = Cardinality(Committed')
<1>1. Committed' = Committed BY DEF worldVars, Committed
<1> QED BY <1>1 DEF worldVars, IInv, Typed, TypeOK

(* Other loads may have asked for their catalog.                            *)
StageMoves(t) ==
    /\ stage' \in [Promises -> Running \union {"none", "settled"}]
    /\ \A u \in Promises : u # t => stage'[u] = stage[u] \/ (stage[u] = "start" /\ stage'[u] = "catalog")

-----------------------------------------------------------------------------
(* The steps. *)

LEMMA InitOK == Init => IInv
<1> SUFFICES ASSUME Init PROVE IInv OBVIOUS
<1> USE DEF Init
<1>1. Committed = {} BY DEF Committed
<1>2. Cardinality(Committed) = 0 BY <1>1, FS_EmptySet
<1>3. NoKeys \in [Keys -> {None}] BY DEF NoKeys
<1>4. TypeOK BY <1>3, Numbers DEF TypeOK
<1>5. \A k \in Kinds, key \in Keys : entries[k][key] = None /\ pending[k][key] = None BY DEF NoKeys
<1>6. Cached BY <1>5 DEF Cached, PendingOK, EntryOK
<1>7. \A t \in Promises : CallOK(t) /\ LoadOK(t) BY DEF CallOK, LoadOK, Running
<1>8. \A q \in Queries : NestedOK(q) BY DEF NestedOK, Promises, Kinds
<1>9. AliasesAgree BY <1>5 DEF AliasesAgree
<1>10. InvalidatedLoadNotJoined BY <1>5 DEF InvalidatedLoadNotJoined, Kinds
<1> QED BY <1>2, <1>4, <1>6, <1>7, <1>8, <1>9, <1>10 DEF IInv, Typed, Loads

(* A call that hits, joins or loads. *)
LEMMA CalledOK ==
    ASSUME IInv, NEW t \in Promises, call[t] = "idle", StageMoves(t), UNCHANGED <<worldVars, loaded>>,
           \/ (Hit(t) \/ Join(t)) /\ stage'[t] = stage[t]
           \/ Load(t) /\ stage'[t] \in {"start", "rows"}
    PROVE  /\ Typed' /\ Cached' /\ AliasesAgree' /\ InvalidatedLoadNotJoined'
           /\ \A u \in Promises : CallOK(u)' /\ LoadOK(u)'
<1>1. TypeOK /\ t[2] \in Kinds BY DEF IInv, Typed, Promises
<1>2. stage[t] = "none" /\ loaded[t] = None /\ stage[t] \notin Running BY DEF IInv, Loads, CallOK, LoadOK, Running
<1>3. Shrunk BY HitType, JoinType, LoadType
<1>4. /\ call' \in [Promises -> {"idle", "waiting", "answered", "failed"}]
      /\ awaits' \in [Promises -> Promises \union {None}]
      /\ answer' \in [Promises -> ValueType \union {None}]
      /\ \A u \in Promises : u # t => call'[u] = call[u] /\ awaits'[u] = awaits[u] /\ answer'[u] = answer[u]
      /\ call'[t] # "idle"
      /\ call'[t] = "waiting" => awaits'[t] \in Promises /\ awaits'[t][2] = t[2]
      /\ call'[t] = "answered" => answer'[t] \in ValueType
  <2>1. CASE Hit(t) BY <1>1, <2>1, HitType DEF TypeOK
  <2>2. CASE Join(t)
    <3>1. PICK w \in Promises : w[2] = t[2] /\ awaits' = [awaits EXCEPT ![t] = w] BY <2>2, JoinType
    <3>2. call' = [call EXCEPT ![t] = "waiting"] /\ answer' = answer BY <2>2, JoinType
    <3> QED BY <1>1, <3>1, <3>2 DEF TypeOK
  <2>3. CASE Load(t) BY <1>1, <2>3, LoadType DEF TypeOK
  <2> QED BY <2>1, <2>2, <2>3
<1>5. CASE (Hit(t) \/ Join(t)) /\ stage'[t] = stage[t]
  <2>1. UNCHANGED <<pending, startedAt, loaded, now, invalidated>> BY <1>5, HitType, JoinType DEF worldVars
  <2>2. \A u \in Promises : stage'[u] = stage[u] \/ (stage[u] = "start" /\ stage'[u] = "catalog")
    BY <1>5 DEF StageMoves
  <2>3. TypeOK' BY <1>1, <1>3, <1>4, <2>1, WorldStays DEF TypeOK, Shrunk, StageMoves
  <2>4. Typed' BY <2>3, WorldStays DEF Typed
  <2>5. ASSUME NEW k \in Kinds, NEW key \in Keys PROVE PendingOK(k, key)'
    <3>1. PendingOK(k, key) BY DEF IInv, Cached
    <3> QED BY <2>1, <2>2, <3>1 DEF PendingOK, Running
  <2>6. Cached' BY <1>3, <2>1, <2>5, EntriesStay DEF Cached
  <2>7. AliasesAgree'
    <3>1. AliasesAgree /\ pending' = pending BY <2>1 DEF IInv
    <3> QED BY <1>3, <3>1 DEF AliasesAgree, Shrunk
  <2>8. InvalidatedLoadNotJoined' BY <2>1 DEF InvalidatedLoadNotJoined, IInv
  <2>9. ASSUME NEW u \in Promises PROVE CallOK(u)' /\ LoadOK(u)'
    <3>1. CallOK(u) /\ LoadOK(u) BY DEF IInv, Loads
    <3>2. LoadOK(u)' BY <2>1, <2>2, <3>1 DEF LoadOK, Running
    <3>3. CallOK(u)' BY <1>4, <2>2, <3>1 DEF CallOK
    <3> QED BY <3>2, <3>3
  <2> QED BY <2>4, <2>6, <2>7, <2>8, <2>9
<1>6. CASE Load(t) /\ stage'[t] \in {"start", "rows"}
  <2>1. UNCHANGED <<loaded, now, invalidated>> BY DEF worldVars
  <2>2. /\ startedAt' = [startedAt EXCEPT ![t] = now] /\ now \in 0..MaxNow
        /\ pending' = [pending EXCEPT ![t[2]] = [key \in Keys |-> t]] /\ pending[t[2]] = NoKeys
    BY <1>1, <1>6, LoadType DEF TypeOK
  <2>3. /\ pending' \in [Kinds -> [Keys -> Promises \union {None}]]
        /\ \A k \in Kinds, key \in Keys : pending'[k][key] = IF k = t[2] THEN t ELSE pending[k][key]
        /\ startedAt' \in [Promises -> 0..MaxNow]
        /\ \A u \in Promises : startedAt'[u] = IF u = t THEN now ELSE startedAt[u]
    BY <1>1, <2>2 DEF TypeOK
  <2>4. TypeOK' BY <1>1, <1>3, <1>4, <2>1, <2>3, WorldStays DEF TypeOK, Shrunk, StageMoves
  <2>5. Typed' BY <2>4, WorldStays DEF Typed
  <2>6. ASSUME NEW k \in Kinds, NEW key \in Keys PROVE PendingOK(k, key)'
    <3>1. PendingOK(k, key) BY DEF IInv, Cached
    <3>2. CASE k = t[2] BY <1>6, <2>3, <3>2 DEF PendingOK, Running
    <3>3. CASE k # t[2]
      <4>1. pending'[k][key] = pending[k][key] BY <2>3, <3>3
      <4> QED BY <1>2, <3>1, <4>1 DEF PendingOK, StageMoves, Running
    <3> QED BY <3>2, <3>3
  <2>7. Cached' BY <1>3, <2>1, <2>6, EntriesStay DEF Cached
  <2>8. AliasesAgree' BY <1>3, <2>3 DEF AliasesAgree, Shrunk, IInv
  <2>9. InvalidatedLoadNotJoined' BY <1>2, <2>1, <2>3 DEF InvalidatedLoadNotJoined, IInv, Kinds
  <2>10. ASSUME NEW u \in Promises PROVE CallOK(u)' /\ LoadOK(u)'
    <3>1. CallOK(u) /\ LoadOK(u) BY DEF IInv, Loads
    <3>2. LoadOK(u)'
      <4>1. CASE u = t
        <5>1. loaded'[t] = None /\ startedAt'[t] = now /\ now' = now /\ now \in Nat /\ stage'[t] \in {"start", "rows"}
          BY <1>2, <1>6, <2>1, <2>2, <2>3, Numbers
        <5> QED BY <4>1, <5>1, Numbers DEF LoadOK, Running
      <4>2. CASE u # t
        <5>1. startedAt'[u] = startedAt[u] BY <2>3, <4>2
        <5> QED BY <2>1, <3>1, <4>2, <5>1 DEF LoadOK, Running, StageMoves
      <4> QED BY <4>1, <4>2
    <3>3. CallOK(u)' BY <1>4, <3>1 DEF CallOK, StageMoves
    <3> QED BY <3>2, <3>3
  <2> QED BY <2>5, <2>7, <2>8, <2>9, <2>10
<1> QED BY <1>5, <1>6
LEMMA AskOK == ASSUME IInv, NEW q \in Queries, Ask(q) PROVE IInv'
<1>1. PICK t \in Promises : t = <<q, Asked[q]>> BY CacheAssumption DEF CacheAssumption, Promises
<1>2. /\ call[t] = "idle" /\ UNCHANGED <<worldVars, loaded>>
      /\ \/ (Hit(t) \/ Join(t)) /\ UNCHANGED stage
         \/ Load(t) /\ stage' = [stage EXCEPT ![t] = IF Asked[q] = "summary" THEN "start" ELSE "rows"]
  BY <1>1 DEF Ask
<1>3. stage \in [Promises -> Running \union {"none", "settled"}] BY DEF IInv, Typed, TypeOK
<1>4. /\ StageMoves(t) /\ \A u \in Promises : u # t => stage'[u] = stage[u]
      /\ \/ (Hit(t) \/ Join(t)) /\ stage'[t] = stage[t]
         \/ Load(t) /\ stage'[t] \in {"start", "rows"}
  BY <1>2, <1>3 DEF StageMoves, Running
<1>5. /\ Typed' /\ Cached' /\ AliasesAgree' /\ InvalidatedLoadNotJoined'
      /\ \A u \in Promises : CallOK(u)' /\ LoadOK(u)'
  BY <1>2, <1>4, CalledOK
<1>6. /\ \A u \in Promises : u # t => /\ call'[u] = call[u] /\ answer'[u] = answer[u]
                                     /\ startedAt'[u] = startedAt[u]
      /\ stage[t] = "none" /\ stage'[t] \in {"none", "start", "rows"}
  <2>1. TypeOK BY DEF IInv, Typed
  <2>2. stage[t] = "none" BY <1>2 DEF IInv, Loads, CallOK
  <2> QED BY <1>4, <2>1, <2>2, HitType, JoinType, LoadType DEF TypeOK
<1>7. ASSUME NEW r \in Queries PROVE NestedOK(r)'
  <2>1. PICK p \in Promises, c \in Promises : p = <<r, "summary">> /\ c = <<r, "catalog">> BY DEF Promises, Kinds
  <2>2. NestedOK(r) BY DEF IInv, Loads
  <2>3. p = t => Asked[r] = "summary" BY <1>1, <2>1
  <2>4. c = t => Asked[r] = "catalog" BY <1>1, <2>1
  <2> QED BY <1>4, <1>6, <2>1, <2>2, <2>3, <2>4 DEF NestedOK
<1> QED BY <1>5, <1>7 DEF IInv, Loads

LEMMA CallCatalogOK == ASSUME IInv, NEW q \in Queries, CallCatalog(q) PROVE IInv'
<1>1. PICK p \in Promises, t \in Promises : p = <<q, "summary">> /\ t = <<q, "catalog">> BY DEF Promises, Kinds
<1>2. /\ stage[p] = "start" /\ UNCHANGED <<worldVars, loaded>>
      /\ \/ (Hit(t) \/ Join(t)) /\ stage' = [stage EXCEPT ![p] = "catalog"]
         \/ Load(t) /\ stage' = [stage EXCEPT ![p] = "catalog", ![t] = "rows"]
  BY <1>1 DEF CallCatalog
<1>3. NestedOK(q) /\ CallOK(p) /\ LoadOK(p) BY DEF IInv, Loads
<1>4. call[t] = "idle" /\ Asked[q] = "summary" BY <1>1, <1>2, <1>3 DEF NestedOK
<1>5. stage \in [Promises -> Running \union {"none", "settled"}] /\ p # t /\ t[2] = "catalog"
  BY <1>1 DEF IInv, Typed, TypeOK
<1>6. /\ StageMoves(t) /\ \A u \in Promises : u \notin {p, t} => stage'[u] = stage[u]
      /\ stage'[p] = "catalog"
      /\ \/ (Hit(t) \/ Join(t)) /\ stage'[t] = stage[t]
         \/ Load(t) /\ stage'[t] \in {"start", "rows"}
  BY <1>2, <1>5 DEF StageMoves, Running
<1>7. /\ Typed' /\ Cached' /\ AliasesAgree' /\ InvalidatedLoadNotJoined'
      /\ \A u \in Promises : CallOK(u)' /\ LoadOK(u)'
  BY <1>2, <1>4, <1>6, CalledOK
<1>8. /\ \A u \in Promises : u # t => /\ call'[u] = call[u] /\ answer'[u] = answer[u]
                                     /\ startedAt'[u] = startedAt[u]
      /\ call'[t] = "answered" => answer'[t] \in ValueType /\ answer'[t].readAt >= now + 1 - Ttl - MaxLoad
  <2>1. TypeOK BY DEF IInv, Typed
  <2>2. Inherited(t[2]) = 0 BY <1>5 DEF Inherited
  <2>3. CASE Hit(t)
    <3>1. answer'[t].readAt >= now + 1 - Ttl - MaxLoad - 0 BY <2>2, <2>3, HitType
    <3>2. now \in Int /\ answer'[t] \in ValueType BY <2>1, <2>3, HitType DEF TypeOK
    <3>3. answer'[t].readAt >= now + 1 - Ttl - MaxLoad BY <3>1, <3>2, Numbers
    <3> QED BY <2>1, <2>3, <3>2, <3>3, HitType DEF TypeOK
  <2>4. CASE Join(t) BY <2>1, <2>4, JoinType DEF TypeOK
  <2>5. CASE Load(t) BY <2>1, <2>5, LoadType DEF TypeOK
  <2> QED BY <1>6, <2>3, <2>4, <2>5
<1>9. ASSUME NEW r \in Queries PROVE NestedOK(r)'
  <2>1. PICK o \in Promises, c \in Promises : o = <<r, "summary">> /\ c = <<r, "catalog">> BY DEF Promises, Kinds
  <2>2. NestedOK(r) BY DEF IInv, Loads
  <2>3. CASE r = q
    <3>1. o = p /\ c = t BY <1>1, <2>1, <2>3
    <3>2. ASSUME call'[t] = "answered" PROVE answer'[t].readAt >= startedAt'[p] - (Ttl - 1 + MaxLoad)
      <4>1. startedAt'[p] = startedAt[p] /\ startedAt[p] <= now BY <1>2, <1>3, <1>5, <1>8 DEF LoadOK, Running
      <4>2. answer'[t].readAt >= now + 1 - Ttl - MaxLoad /\ answer'[t].readAt \in Nat
        BY <1>8, <3>2, Numbers DEF ValueType
      <4>3. startedAt[p] \in Nat /\ now \in Nat BY Numbers DEF IInv, Typed, TypeOK
      <4> QED BY <4>1, <4>2, <4>3, Numbers
    <3> QED BY <1>4, <1>6, <2>1, <2>3, <3>1, <3>2 DEF NestedOK
  <2>4. CASE r # q
    <3>1. {o, c} \intersect {p, t} = {} BY <1>1, <2>1, <2>4
    <3> QED BY <1>6, <1>8, <2>1, <2>2, <3>1 DEF NestedOK
  <2> QED BY <2>3, <2>4
<1> QED BY <1>7, <1>9 DEF IInv, Loads

(* A load that reads on. *)
LEMMA AdvancedOK ==
    ASSUME IInv, NEW p \in Promises, stage[p] \in Running, UNCHANGED <<worldVars, cacheVars, callVars, startedAt>>,
           NEW s \in {"trends", "overviews", "read"}, stage' = [stage EXCEPT ![p] = s],
           NEW value \in ValueType, loaded' = [loaded EXCEPT ![p] = value],
           value.readAt >= startedAt[p] - Inherited(p[2]),
           \A key \in Keys : pending["catalog"][key] = p /\ p # None => value.version >= invalidated
    PROVE  IInv'
<1>1. TypeOK BY DEF IInv, Typed
<1>2. UNCHANGED <<now, invalidated, entries, pending, call, awaits, answer, startedAt>>
  BY DEF worldVars, cacheVars, callVars
<1>3. /\ stage' \in [Promises -> Running \union {"none", "settled"}] /\ stage'[p] = s
      /\ \A u \in Promises : u # p => stage'[u] = stage[u] /\ loaded'[u] = loaded[u]
      /\ loaded' \in [Promises -> ValueType \union {None}] /\ loaded'[p] = value
  BY <1>1 DEF TypeOK, Running
<1>4. TypeOK' BY <1>1, <1>2, <1>3, WorldStays DEF TypeOK
<1>5. Typed' BY <1>4, WorldStays DEF Typed
<1>6. ASSUME NEW k \in Kinds, NEW key \in Keys PROVE PendingOK(k, key)' /\ EntryOK(k, key)'
  <2>1. PendingOK(k, key) /\ EntryOK(k, key) BY DEF IInv, Cached
  <2>2. EntryOK(k, key)' BY <1>2, <2>1 DEF EntryOK
  <2>3. PendingOK(k, key)' BY <1>2, <1>3, <2>1 DEF PendingOK, Running
  <2> QED BY <2>2, <2>3
<1>7. AliasesAgree' BY <1>2 DEF IInv, AliasesAgree
<1>8. InvalidatedLoadNotJoined'
  <2> SUFFICES ASSUME NEW key \in Keys, pending["catalog"][key] # None, loaded'[pending["catalog"][key]] # None
               PROVE  loaded'[pending["catalog"][key]].version >= invalidated
    BY <1>2 DEF InvalidatedLoadNotJoined
  <2>1. pending["catalog"][key] \in Promises BY DEF IInv, Cached, PendingOK, Kinds
  <2>2. CASE pending["catalog"][key] = p BY <1>3, <2>2
  <2>3. CASE pending["catalog"][key] # p BY <1>3, <2>1, <2>3 DEF IInv, InvalidatedLoadNotJoined
  <2> QED BY <2>2, <2>3
<1>9. ASSUME NEW u \in Promises PROVE CallOK(u)' /\ LoadOK(u)'
  <2>1. CallOK(u) /\ LoadOK(u) BY DEF IInv, Loads
  <2>2. CASE u = p BY <1>2, <1>3, <2>1, <2>2 DEF CallOK, LoadOK, Running
  <2>3. CASE u # p BY <1>2, <1>3, <2>1, <2>3 DEF CallOK, LoadOK
  <2> QED BY <2>2, <2>3
<1>10. ASSUME NEW q \in Queries PROVE NestedOK(q)'
  <2>1. PICK o \in Promises, c \in Promises : o = <<q, "summary">> /\ c = <<q, "catalog">> BY DEF Promises, Kinds
  <2>2. NestedOK(q) BY DEF IInv, Loads
  <2> QED BY <1>2, <1>3, <2>1, <2>2 DEF NestedOK, Running
<1> QED BY <1>5, <1>6, <1>7, <1>8, <1>9, <1>10 DEF IInv, Loads, Cached

LEMMA TakeCatalogOK == ASSUME IInv, NEW q \in Queries, TakeCatalog(q) PROVE IInv'
<1>1. PICK p \in Promises, t \in Promises : p = <<q, "summary">> /\ t = <<q, "catalog">> BY DEF Promises, Kinds
<1>2. /\ stage[p] = "catalog" /\ call[t] = "answered" /\ loaded' = [loaded EXCEPT ![p] = answer[t]]
      /\ stage' = [stage EXCEPT ![p] = "trends"] /\ UNCHANGED <<worldVars, cacheVars, callVars, startedAt>>
  BY <1>1 DEF TakeCatalog
<1>3. answer[t] \in ValueType BY <1>2 DEF IInv, Loads, CallOK
<1>4. answer[t].readAt >= startedAt[p] - Inherited(p[2])
  <2>1. NestedOK(q) BY DEF IInv, Loads
  <2> QED BY <1>1, <1>2, <2>1 DEF NestedOK, Inherited
<1>5. \A key \in Keys : pending["catalog"][key] = p => p = None
  <2>1. \A key \in Keys : PendingOK("catalog", key) BY DEF IInv, Cached, Kinds
  <2> QED BY <1>1, <2>1 DEF PendingOK
<1>6. stage[p] \in Running BY <1>2 DEF Running
<1> QED BY <1>2, <1>3, <1>4, <1>5, <1>6, AdvancedOK

LEMMA ReadOK == ASSUME IInv, NEW p \in Promises, ReadTrends(p) \/ ReadRows(p) PROVE IInv'
<1>1. LoadOK(p) /\ p[2] \in Kinds BY DEF IInv, Loads, Promises
<1>2. /\ stage[p] \in Running /\ UNCHANGED <<worldVars, cacheVars, callVars, startedAt>>
      /\ loaded[p] \in ValueType \union {None} /\ startedAt[p] \in Nat /\ now \in Nat
      /\ invalidated \in Nat /\ invalidated <= version
  BY Numbers DEF ReadTrends, ReadRows, Running, IInv, Typed, TypeOK
<1>3. startedAt[p] <= now /\ (loaded[p] # None => loaded[p].readAt >= startedAt[p] - Inherited(p[2]))
  BY <1>1, <1>2 DEF LoadOK
<1>4. PICK least \in Int : least = startedAt[p] - Inherited(p[2]) BY <1>2, InheritedNat
<1>5. least <= now BY <1>2, <1>3, <1>4, InheritedNat
<1>6. ASSUME NEW key \in Keys, pending["catalog"][key] = p, p # None, loaded[p] # None
      PROVE  loaded[p].version >= invalidated
  BY <1>6 DEF IInv, InvalidatedLoadNotJoined
<1>7. PICK read \in ValueType : read = ReadNow(loaded[p])
  BY <1>2, ReadNowType DEF IInv
<1>8. read.readAt >= least BY <1>2, <1>3, <1>4, <1>5, <1>7, ReadNowType DEF IInv
<1>9. \A key \in Keys : pending["catalog"][key] = p /\ p # None => read.version >= invalidated
  BY <1>2, <1>6, <1>7, ReadNowType DEF IInv
<1>10. CASE ReadRows(p)
  <2>1. loaded' = [loaded EXCEPT ![p] = read] /\ stage' = [stage EXCEPT ![p] = "read"]
    BY <1>7, <1>10 DEF ReadRows
  <2> QED BY <1>2, <1>4, <1>8, <1>9, <2>1, AdvancedOK
<1>11. CASE ReadTrends(p)
  <2>1. stage[p] = "trends" /\ stage' = [stage EXCEPT ![p] = "overviews"] BY <1>11 DEF ReadTrends
  <2>2. PICK old \in ValueType : old = loaded[p] BY <1>1, <2>1 DEF LoadOK
  <2>3. old # None BY NoneApart
  <2>4. old.readAt >= least BY <1>3, <1>4, <2>2, <2>3
  <2>5. \A key \in Keys : pending["catalog"][key] = p /\ p # None => old.version >= invalidated
    BY <1>6, <2>2, <2>3
  <2>6. CASE loaded' = [loaded EXCEPT ![p] = read] BY <1>2, <1>4, <1>8, <1>9, <2>1, <2>6, AdvancedOK
  <2>7. CASE loaded' = [loaded EXCEPT ![p] = old] BY <1>2, <1>4, <2>1, <2>4, <2>5, <2>7, AdvancedOK
  <2> QED BY <1>7, <1>11, <2>2, <2>6, <2>7 DEF ReadTrends
<1> QED BY <1>10, <1>11
(* A load that ends, with a value or without: it is registered nowhere, and *)
(* whoever waits for it is answered or fails.                               *)
LEMMA EndedOK ==
    ASSUME IInv, NEW p \in Promises, stage[p] \in Running, Forget(p), EndLoad(p), UNCHANGED worldVars,
           NEW end \in {"answered", "failed"},
           call' = [t \in Promises |-> IF t \in Waiters(p) THEN end ELSE call[t]],
           answer' \in [Promises -> ValueType \union {None}],
           \A t \in Promises : t \notin Waiters(p) => answer'[t] = answer[t],
           end = "answered" => \A t \in Waiters(p) : answer'[t] \in ValueType,
           end = "answered" /\ p[2] = "catalog" => \A t \in Waiters(p) : answer'[t].readAt >= now - MaxLoad,
           entries' \in [Kinds -> [Keys -> EntryType \union {None}]],
           \A k \in Kinds, a, b \in Keys : entries'[k][a] = entries'[k][b],
           \A k \in Kinds, key \in Keys : EntryOK(k, key)'
    PROVE  IInv'
<1>1. TypeOK /\ p[2] \in Kinds BY DEF IInv, Typed, Promises
<1>2. now' = now /\ invalidated' = invalidated BY DEF worldVars
<1>3. /\ stage' \in [Promises -> Running \union {"none", "settled"}] /\ stage'[p] = "settled"
      /\ loaded' \in [Promises -> ValueType \union {None}] /\ loaded'[p] = None
      /\ startedAt' \in [Promises -> 0..MaxNow]
      /\ \A u \in Promises : u # p => /\ stage'[u] = stage[u] /\ loaded'[u] = loaded[u]
                                     /\ startedAt'[u] = startedAt[u]
  BY <1>1, Numbers DEF TypeOK, EndLoad
<1>4. /\ awaits' \in [Promises -> Promises \union {None}]
      /\ \A t \in Promises : t \notin Waiters(p) => awaits'[t] = awaits[t] /\ call'[t] = call[t]
      /\ \A t \in Promises : t \in Waiters(p) => call'[t] = end /\ call[t] = "waiting" /\ awaits[t] = p
      /\ call' \in [Promises -> {"idle", "waiting", "answered", "failed"}]
  BY <1>1 DEF TypeOK, EndLoad, Waiters
<1>5. /\ pending' \in [Kinds -> [Keys -> Promises \union {None}]]
      /\ \A k \in Kinds, key \in Keys :
            pending'[k][key] = IF k = p[2] /\ pending[k][key] = p THEN None ELSE pending[k][key]
  BY <1>1 DEF TypeOK, Forget
<1>6. Typed'
  <2>1. TypeOK' BY <1>3, <1>4, <1>5, WorldStays DEF TypeOK
  <2> QED BY <2>1, WorldStays DEF Typed
<1>7. ASSUME NEW k \in Kinds, NEW key \in Keys, pending'[k][key] # None
      PROVE  /\ pending'[k][key] = pending[k][key] /\ pending[k][key] # p
             /\ pending[k][key] \in Promises /\ pending[k][key][2] = k /\ stage[pending[k][key]] \in Running
  <2>1. pending'[k][key] = pending[k][key] /\ ~(k = p[2] /\ pending[k][key] = p) BY <1>5, <1>7
  <2> QED BY <1>7, <2>1 DEF IInv, Cached, PendingOK
<1>8. ASSUME NEW k \in Kinds, NEW key \in Keys PROVE PendingOK(k, key)'
  BY <1>3, <1>7 DEF PendingOK
<1>9. AliasesAgree' BY <1>5 DEF IInv, AliasesAgree
<1>10. InvalidatedLoadNotJoined'
  <2> SUFFICES ASSUME NEW key \in Keys, pending'["catalog"][key] # None, loaded'[pending'["catalog"][key]] # None
               PROVE  loaded'[pending'["catalog"][key]].version >= invalidated
    BY <1>2 DEF InvalidatedLoadNotJoined
  <2>1. /\ pending'["catalog"][key] = pending["catalog"][key] /\ pending["catalog"][key] # p
        /\ pending["catalog"][key] \in Promises
    BY <1>7 DEF Kinds
  <2> QED BY <1>3, <2>1 DEF IInv, InvalidatedLoadNotJoined
<1>11. ASSUME NEW u \in Promises PROVE CallOK(u)' /\ LoadOK(u)'
  <2>1. CallOK(u) /\ LoadOK(u) BY DEF IInv, Loads
  <2>2. LoadOK(u)'
    <3>1. CASE u = p BY <1>3, <3>1 DEF LoadOK, Running
    <3>2. CASE u # p BY <1>2, <1>3, <2>1, <3>2 DEF LoadOK
    <3> QED BY <3>1, <3>2
  <2>3. CallOK(u)'
    <3>1. CASE u \in Waiters(p) BY <1>4, <3>1 DEF CallOK
    <3>2. CASE u \notin Waiters(p)
      <4>1. stage[p] # "none" BY DEF Running
      <4> QED BY <1>3, <1>4, <2>1, <3>2, <4>1 DEF CallOK
    <3> QED BY <3>1, <3>2
  <2> QED BY <2>2, <2>3
<1>12. ASSUME NEW q \in Queries PROVE NestedOK(q)'
  <2>1. PICK o \in Promises, c \in Promises : o = <<q, "summary">> /\ c = <<q, "catalog">> BY DEF Promises, Kinds
  <2>2. NestedOK(q) /\ LoadOK(o) /\ CallOK(c) BY DEF IInv, Loads
  <2>3. stage'[o] \in {"none", "start"} => stage'[o] = stage[o] BY <1>3
  <2>4. stage'[o] # "none" => stage[o] # "none" BY <1>3 DEF Running
  <2>5. ASSUME stage'[o] = "catalog", call'[c] = "answered"
        PROVE  answer'[c].readAt >= startedAt'[o] - (Ttl - 1 + MaxLoad)
    <3>1. o # p /\ stage[o] = "catalog" /\ startedAt'[o] = startedAt[o] BY <1>3, <2>5
    <3>2. CASE c \in Waiters(p)
      <4>1. p[2] = "catalog" /\ end = "answered" BY <1>4, <2>1, <2>2, <2>5, <3>2 DEF CallOK
      <4>2. answer'[c].readAt >= now - MaxLoad /\ answer'[c].readAt \in Nat
        BY <3>2, <4>1, Numbers DEF ValueType
      <4>3. startedAt[o] <= now /\ startedAt[o] \in Nat /\ now \in Nat
        BY <1>1, <2>2, <3>1, Numbers DEF LoadOK, Running, TypeOK
      <4> QED BY <3>1, <4>2, <4>3, Numbers
    <3>3. CASE c \notin Waiters(p) BY <1>4, <2>1, <2>2, <2>5, <3>1, <3>3 DEF NestedOK
    <3> QED BY <3>2, <3>3
  <2>6. Asked[q] = "summary" /\ stage'[o] \in {"none", "start"} => call'[c] = "idle"
    BY <1>4, <2>1, <2>2, <2>3 DEF NestedOK, Waiters
  <2> QED BY <2>1, <2>2, <2>4, <2>5, <2>6 DEF NestedOK
<1> QED BY <1>6, <1>8, <1>9, <1>10, <1>11, <1>12 DEF IInv, Loads, Cached

LEMMA RejectOK == ASSUME IInv, NEW p \in Promises, Reject(p) PROVE IInv'
<1>1. stage[p] \in Running BY DEF Reject, Running
<1>2. UNCHANGED <<worldVars, entries, answer>> /\ UNCHANGED now BY DEF Reject, worldVars
<1>3. /\ answer' \in [Promises -> ValueType \union {None}]
      /\ entries' \in [Kinds -> [Keys -> EntryType \union {None}]]
  BY <1>2 DEF IInv, Typed, TypeOK
<1>4. \A k \in Kinds, a, b \in Keys : entries'[k][a] = entries'[k][b] BY <1>2 DEF IInv, AliasesAgree
<1>5. \A k \in Kinds, key \in Keys : EntryOK(k, key)' BY <1>2 DEF IInv, Cached, EntryOK
<1>6. /\ Forget(p) /\ EndLoad(p)
      /\ call' = [t \in Promises |-> IF t \in Waiters(p) THEN "failed" ELSE call[t]]
  BY DEF Reject
<1> DEFINE end == "failed"
<1>7. end \in {"answered", "failed"} /\ end # "answered" OBVIOUS
<1> QED BY <1>1, <1>2, <1>3, <1>4, <1>5, <1>6, <1>7, EndedOK

LEMMA SettleOK ==
    ASSUME IInv, NEW p \in Promises, Settle(p)
    PROVE  /\ IInv' /\ loaded[p] \in ValueType
           /\ loaded[p].readAt >= now - MaxLoad - Inherited(p[2])
<1>1. stage[p] = "read" /\ stage[p] \in Running /\ p[2] \in Kinds /\ LoadOK(p)
  BY DEF Settle, Running, Promises, IInv, Loads
<1>2. PICK value \in ValueType : value = loaded[p] BY <1>1 DEF LoadOK
<1>3. /\ now \in Nat /\ startedAt[p] \in Nat /\ value.readAt \in Nat /\ UNCHANGED worldVars /\ now' = now
  BY Numbers DEF IInv, Typed, TypeOK, ValueType, Settle, worldVars
<1>4. value.readAt >= startedAt[p] - Inherited(p[2]) /\ now <= startedAt[p] + MaxLoad
  BY <1>1, <1>2, NoneApart DEF LoadOK
<1>5. value.readAt >= now - MaxLoad - Inherited(p[2]) BY <1>3, <1>4, Numbers, InheritedNat
<1>6. PICK entry \in EntryType : entry = [value |-> value, expiresAt |-> now + Ttl]
  <2>1. PICK end \in Nat : end = now + Ttl BY <1>3, Numbers
  <2>2. [value |-> value, expiresAt |-> end] \in EntryType BY DEF EntryType
  <2> QED BY <2>1, <2>2
<1>7. entries' = [entries EXCEPT ![p[2]] = [key \in Keys |-> entry]]
  BY <1>2, <1>6 DEF Settle, WriteEntry, Entry
<1>8. entries \in [Kinds -> [Keys -> EntryType \union {None}]] /\ answer \in [Promises -> ValueType \union {None}]
  BY DEF IInv, Typed, TypeOK
<1>9. /\ entries' \in [Kinds -> [Keys -> EntryType \union {None}]]
      /\ \A k \in Kinds, key \in Keys : entries'[k][key] = IF k = p[2] THEN entry ELSE entries[k][key]
  BY <1>1, <1>7, <1>8
<1>10. \A k \in Kinds, a, b \in Keys : entries'[k][a] = entries'[k][b]
  BY <1>9 DEF IInv, AliasesAgree
<1>11. ASSUME NEW k \in Kinds, NEW key \in Keys PROVE EntryOK(k, key)'
  <2>1. CASE k = p[2]
    <3>1. entries'[k][key] = entry BY <1>9, <2>1
    <3>2. entry.value.readAt >= entry.expiresAt - Ttl - MaxLoad - Inherited(k)
      BY <1>3, <1>5, <1>6, <2>1, Numbers, InheritedNat
    <3> QED BY <3>1, <3>2 DEF EntryOK
  <2>2. CASE k # p[2]
    <3>1. entries'[k][key] = entries[k][key] BY <1>9, <2>2
    <3> QED BY <3>1 DEF EntryOK, IInv, Cached
  <2> QED BY <2>1, <2>2
<1>12. answer' = [t \in Promises |-> IF t \in Waiters(p) THEN value ELSE answer[t]] BY <1>2 DEF Settle
<1>13. /\ answer' \in [Promises -> ValueType \union {None}]
       /\ \A t \in Promises : t \notin Waiters(p) => answer'[t] = answer[t]
       /\ \A t \in Waiters(p) : answer'[t] = value
  BY <1>8, <1>12 DEF Waiters
<1>14. p[2] = "catalog" => value.readAt >= now - MaxLoad BY <1>3, <1>5, Numbers DEF Inherited
<1>15. /\ Forget(p) /\ EndLoad(p)
       /\ call' = [t \in Promises |-> IF t \in Waiters(p) THEN "answered" ELSE call[t]]
  BY DEF Settle
<1>16. IInv' BY <1>1, <1>3, <1>9, <1>10, <1>11, <1>13, <1>14, <1>15, EndedOK
<1> QED BY <1>2, <1>5, <1>16

(* The steps in which nothing of the cache happens. *)
CacheStays == UNCHANGED <<cacheVars, callVars, loadVars>>

LEMMA CommitOK == ASSUME IInv, NEW i \in Publications, CommitPublication(i) PROVE IInv'
<1>1. /\ publication[i] = "idle" /\ version' = version + 1 /\ CacheStays /\ UNCHANGED <<now, invalidated>>
      /\ publication' = [publication EXCEPT ![i] = "committed"]
  BY DEF CommitPublication, CacheStays
<1>2. TypeOK /\ version = Cardinality(Committed) /\ invalidated <= version BY DEF IInv, Typed
<1>3. IsFiniteSet(Publications) /\ Committed \subseteq Publications
  BY CacheAssumption DEF CacheAssumption, Committed
<1>4. IsFiniteSet(Committed) BY <1>3, FS_Subset
<1>5. Committed' = Committed \union {i} /\ i \notin Committed BY <1>1, <1>2 DEF Committed, TypeOK
<1>6. Cardinality(Committed') = Cardinality(Committed) + 1 BY <1>4, <1>5, FS_AddElement
<1>7. Cardinality(Committed') <= Cardinality(Publications)
  <2>1. Committed' \in SUBSET Publications BY <1>3, <1>5
  <2> QED BY <1>3, <2>1, FS_Subset
<1>8. Typed'
  <2>1. version' \in 0..Cardinality(Publications) /\ invalidated' <= version' /\ version' = Cardinality(Committed')
    BY <1>1, <1>2, <1>6, <1>7, Numbers DEF TypeOK
  <2>2. publication' \in [Publications -> {"idle", "committed", "responded"}] BY <1>1, <1>2 DEF TypeOK
  <2>3. UNCHANGED <<now, invalidated, entries, pending, call, awaits, answer, stage, loaded, startedAt>>
    BY <1>1 DEF CacheStays, cacheVars, callVars, loadVars
  <2>4. TypeOK' BY <1>2, <2>1, <2>2, <2>3 DEF TypeOK
  <2> QED BY <2>1, <2>4 DEF Typed
<1>9. UNCHANGED <<now, invalidated, entries, pending, call, awaits, answer, stage, loaded, startedAt>>
  BY <1>1 DEF CacheStays, cacheVars, callVars, loadVars
<1>10. Loads' BY <1>9 DEF IInv, Loads, CallOK, LoadOK, NestedOK
<1>11. Cached' BY <1>9 DEF IInv, Cached, PendingOK, EntryOK
<1>12. AliasesAgree' /\ InvalidatedLoadNotJoined' BY <1>9 DEF IInv, AliasesAgree, InvalidatedLoadNotJoined
<1> QED BY <1>8, <1>10, <1>11, <1>12 DEF IInv

(* Whichever keys are named, both lose their entry, and their load. *)
LEMMA InvalidateOK == ASSUME IInv, NEW i \in Publications, InvalidateProject(i) PROVE IInv'
<1>1. PICK scope \in InvalidationScopes :
        /\ entries' = [k \in Kinds |-> InvalidateEntries(entries[k], scope)]
        /\ pending' = [k \in Kinds |-> InvalidatePending(pending[k], scope)]
  BY DEF InvalidateProject
<1>2. /\ publication[i] = "committed" /\ publication' = [publication EXCEPT ![i] = "responded"]
      /\ invalidated' = version /\ UNCHANGED <<now, version, call, awaits, answer, stage, loaded, startedAt>>
  BY DEF InvalidateProject, callVars, loadVars
<1>3. TypeOK /\ version = Cardinality(Committed) BY DEF IInv, Typed
<1>4. PICK named \in Keys : named \in scope BY CacheAssumption DEF CacheAssumption
<1>5. scope \subseteq Keys BY CacheAssumption DEF CacheAssumption
<1>6. ASSUME NEW k \in Kinds, NEW key \in Keys PROVE entries'[k][key] = None /\ pending'[k][key] = None
  <2>1. entries[k][key] = entries[k][named] /\ pending[k][key] = pending[k][named] BY DEF IInv, AliasesAgree
  <2>2. \A a \in Keys : entries[k][a] = entries[k][named] BY DEF IInv, AliasesAgree
  <2>3. entries'[k][key] = None
    <3>1. CASE entries[k][named] # None BY <1>1, <1>4, <3>1 DEF InvalidateEntries, NoKeys
    <3>2. CASE entries[k][named] = None BY <1>1, <1>5, <2>2, <3>2 DEF InvalidateEntries, NoKeys
    <3> QED BY <3>1, <3>2
  <2>4. pending'[k][key] = None BY <1>1, <1>4, <2>1 DEF InvalidatePending
  <2> QED BY <2>3, <2>4
<1>7. /\ entries' \in [Kinds -> [Keys -> EntryType \union {None}]]
      /\ pending' \in [Kinds -> [Keys -> Promises \union {None}]]
  <2>1. ASSUME NEW k \in Kinds PROVE entries'[k] \in [Keys -> EntryType \union {None}]
    BY <1>1, <1>3 DEF TypeOK, InvalidateEntries, NoKeys
  <2>2. ASSUME NEW k \in Kinds PROVE pending'[k] \in [Keys -> Promises \union {None}]
    BY <1>1, <1>3 DEF TypeOK, InvalidatePending
  <2> QED BY <1>1, <2>1, <2>2
<1>8. Typed'
  <2>1. publication' \in [Publications -> {"idle", "committed", "responded"}] /\ Committed' = Committed
    BY <1>2, <1>3 DEF TypeOK, Committed
  <2>2. TypeOK' BY <1>2, <1>3, <1>7, <2>1 DEF TypeOK
  <2>3. invalidated' <= version' BY <1>2, <1>3, Numbers DEF TypeOK
  <2> QED BY <1>2, <1>3, <2>1, <2>2, <2>3 DEF Typed
<1>9. Cached' BY <1>6 DEF Cached, PendingOK, EntryOK
<1>10. AliasesAgree' BY <1>6 DEF AliasesAgree
<1>11. InvalidatedLoadNotJoined' BY <1>6 DEF InvalidatedLoadNotJoined, Kinds
<1>12. Loads' BY <1>2 DEF IInv, Loads, CallOK, LoadOK, NestedOK
<1> QED BY <1>8, <1>9, <1>10, <1>11, <1>12 DEF IInv

LEMMA TickOK == ASSUME IInv, Tick PROVE IInv'
<1>1. /\ now < MaxNow /\ now' = now + 1 /\ UNCHANGED <<version, publication, invalidated>>
      /\ \A p \in Promises : stage[p] \in Running => now < startedAt[p] + MaxLoad
      /\ UNCHANGED <<entries, pending, call, awaits, answer, stage, loaded, startedAt>>
  BY DEF Tick, cacheVars, callVars, loadVars
<1>2. TypeOK /\ version = Cardinality(Committed) /\ invalidated <= version BY DEF IInv, Typed
<1>3. Committed' = Committed BY <1>1 DEF Committed
<1>4. Typed'
  <2>1. now' \in 0..MaxNow BY <1>1, <1>2, Numbers DEF TypeOK
  <2>2. TypeOK' BY <1>1, <1>2, <2>1 DEF TypeOK
  <2> QED BY <1>1, <1>2, <1>3, <2>2 DEF Typed
<1>5. Cached' BY <1>1 DEF IInv, Cached, PendingOK, EntryOK
<1>6. AliasesAgree' /\ InvalidatedLoadNotJoined' BY <1>1 DEF IInv, AliasesAgree, InvalidatedLoadNotJoined
<1>7. ASSUME NEW u \in Promises PROVE LoadOK(u)'
  <2>1. LoadOK(u) BY DEF IInv, Loads
  <2>2. startedAt[u] \in Nat /\ now \in Nat BY <1>2, Numbers DEF TypeOK
  <2> QED BY <1>1, <2>1, <2>2, Numbers DEF LoadOK
<1>8. Loads' BY <1>1, <1>7 DEF IInv, Loads, CallOK, NestedOK
<1> QED BY <1>4, <1>5, <1>6, <1>8 DEF IInv

LEMMA StutterOK == ASSUME IInv, UNCHANGED vars PROVE IInv'
<1>1. /\ UNCHANGED <<now, version, publication, invalidated>>
      /\ UNCHANGED <<entries, pending, call, awaits, answer, stage, loaded, startedAt>>
  BY DEF vars, worldVars, cacheVars, callVars, loadVars
<1>2. Committed' = Committed BY <1>1 DEF Committed
<1>3. Typed' BY <1>1, <1>2 DEF IInv, Typed, TypeOK
<1>4. Cached' BY <1>1 DEF IInv, Cached, PendingOK, EntryOK
<1>5. AliasesAgree' /\ InvalidatedLoadNotJoined' BY <1>1 DEF IInv, AliasesAgree, InvalidatedLoadNotJoined
<1>6. Loads' BY <1>1 DEF IInv, Loads, CallOK, LoadOK, NestedOK
<1> QED BY <1>3, <1>4, <1>5, <1>6 DEF IInv

THEOREM NextOK == IInv /\ [Next]_vars => IInv'
<1> SUFFICES ASSUME IInv, [Next]_vars PROVE IInv' OBVIOUS
<1>1. CASE UNCHANGED vars BY <1>1, StutterOK
<1>2. ASSUME NEW q \in Queries, Ask(q) \/ CallCatalog(q) \/ TakeCatalog(q) PROVE IInv'
  BY <1>2, AskOK, CallCatalogOK, TakeCatalogOK
<1>3. ASSUME NEW p \in Promises, Advance(p) PROVE IInv'
  BY <1>3, ReadOK, SettleOK, RejectOK DEF Advance
<1>4. ASSUME NEW i \in Publications, CommitPublication(i) \/ InvalidateProject(i) PROVE IInv'
  BY <1>4, CommitOK, InvalidateOK
<1>5. CASE Tick BY <1>5, TickOK
<1> QED BY <1>1, <1>2, <1>3, <1>4, <1>5 DEF Next

-----------------------------------------------------------------------------

(* Every variable of the cache keeps its type. *)
THEOREM TypeCorrect == Spec => []TypeOK
<1>1. IInv => TypeOK BY DEF IInv, Typed
<1> QED BY <1>1, InitOK, NextOK, PTL DEF Spec

(* The two keys of a project are one place, a load in flight runs, and none *)
(* is joined that read what a publication has changed                       *)
(* (loadCoalescedEntry, invalidateProject).                                 *)
THEOREM CacheIsSound == Spec => []CacheSound
<1>1. IInv => CacheSound
  <2>1. IInv => PendingRuns BY DEF IInv, Cached, PendingOK, PendingRuns
  <2> QED BY <2>1 DEF IInv, CacheSound
<1> QED BY <1>1, InitOK, NextOK, PTL DEF Spec

(* No answer is older than two lives of an entry and two loads: a summary  *)
(* is built from a cached catalog and cached again (getBenchmarkSummary,    *)
(* listBenchmarkCatalog).                                                   *)
THEOREM AnswersBounded == Spec => AnswerAgeBounded
<1> DEFINE Bounded == \A t \in Promises :
                         call'[t] = "answered" /\ call[t] # "answered"
                         => now - answer'[t].readAt <= 2 * (Ttl - 1) + 2 * MaxLoad
<1>1. IInv /\ Next => Bounded
  <2> SUFFICES ASSUME IInv, Next, NEW t \in Promises, call'[t] = "answered", call[t] # "answered"
               PROVE  now - answer'[t].readAt <= 2 * (Ttl - 1) + 2 * MaxLoad
    OBVIOUS
  <2>1. TypeOK /\ now \in Nat /\ t[2] \in Kinds BY Numbers DEF IInv, Typed, TypeOK, Promises
  <2>2. ASSUME NEW value \in ValueType, NEW k, value.readAt >= now + 1 - Ttl - MaxLoad - Inherited(k),
               answer'[t] = value
        PROVE  now - answer'[t].readAt <= 2 * (Ttl - 1) + 2 * MaxLoad
    <3>1. value.readAt \in Nat BY Numbers DEF ValueType
    <3> QED BY <2>1, <2>2, <3>1, Numbers DEF Inherited
  <2>3. ASSUME NEW u \in Promises, Hit(u) PROVE now - answer'[t].readAt <= 2 * (Ttl - 1) + 2 * MaxLoad
    <3>1. t = u BY <2>1, <2>3, HitType DEF TypeOK
    <3> QED BY <2>2, <2>3, <3>1, HitType
  <2>4. ASSUME NEW u \in Promises, Join(u) \/ Load(u) PROVE FALSE
    <3>1. call' = [call EXCEPT ![u] = "waiting"] BY <2>4, JoinType, LoadType
    <3> QED BY <2>1, <3>1 DEF TypeOK
  <2>5. ASSUME NEW p \in Promises, Settle(p) PROVE now - answer'[t].readAt <= 2 * (Ttl - 1) + 2 * MaxLoad
    <3>1. t \in Waiters(p) /\ answer'[t] = loaded[p] BY <2>5 DEF Settle
    <3>2. loaded[p] \in ValueType /\ loaded[p].readAt >= now - MaxLoad - Inherited(p[2]) BY <2>5, SettleOK
    <3>3. loaded[p].readAt \in Nat BY <3>2, Numbers DEF ValueType
    <3> QED BY <2>1, <3>1, <3>2, <3>3, Numbers DEF Inherited
  <2>6. ASSUME NEW p \in Promises, Reject(p) PROVE FALSE BY <2>6 DEF Reject
  <2>7. ASSUME UNCHANGED call PROVE FALSE BY <2>7
  <2>8. ASSUME NEW q \in Queries, Ask(q) PROVE now - answer'[t].readAt <= 2 * (Ttl - 1) + 2 * MaxLoad
    <3>1. <<q, Asked[q]>> \in Promises BY CacheAssumption DEF CacheAssumption, Promises
    <3> QED BY <2>3, <2>4, <2>8, <3>1 DEF Ask
  <2>9. ASSUME NEW q \in Queries, CallCatalog(q) PROVE now - answer'[t].readAt <= 2 * (Ttl - 1) + 2 * MaxLoad
    <3>1. <<q, "catalog">> \in Promises BY DEF Promises, Kinds
    <3> QED BY <2>3, <2>4, <2>9, <3>1 DEF CallCatalog
  <2>10. ASSUME \/ \E q \in Queries : TakeCatalog(q)
                \/ \E p \in Promises : ReadTrends(p) \/ ReadRows(p)
                \/ \E i \in Publications : CommitPublication(i) \/ InvalidateProject(i)
                \/ Tick
         PROVE  UNCHANGED call
    BY <2>10 DEF TakeCatalog, ReadTrends, ReadRows, CommitPublication, InvalidateProject, Tick, callVars
  <2> QED BY <2>5, <2>6, <2>7, <2>8, <2>9, <2>10 DEF Next, Advance
<1>2. IInv /\ [Next]_vars => [Bounded]_vars BY <1>1
<1> QED BY <1>2, InitOK, NextOK, PTL DEF Spec, AnswerAgeBounded

-----------------------------------------------------------------------------
(* The measurements.  First what finite sets of numbers and rows have.      *)

LEMMA LeastNumber ==
    ASSUME NEW T \in SUBSET Nat, T # {} PROVE \E m \in T : \A n \in T : m <= n
<1>1. PICK m \in T : \A n \in T : ~(<<n, m>> \in OpToRel(<, Nat))
  BY NatLessThanWellFounded, WFMin
<1>2. \A n \in T : ~(n < m) BY <1>1 DEF OpToRel
<1>3. m \in T /\ m \in Nat /\ \A n \in T : n \in Nat OBVIOUS
<1> QED BY <1>2, <1>3

LEMMA Part ==
    ASSUME NEW S, IsFiniteSet(S), NEW T, T \subseteq S
    PROVE  /\ IsFiniteSet(T) /\ Cardinality(T) \in Nat /\ Cardinality(S) \in Nat
           /\ Cardinality(T) <= Cardinality(S)
           /\ T # S => Cardinality(T) < Cardinality(S)
BY FS_Subset, FS_CardinalityType

(* What a relation puts before a thing. *)
Under(S, R, x) == {y \in S : <<y, x>> \in R}

(* A strict order has a least element in a finite set: one that the fewest  *)
(* others come before.                                                     *)
LEMMA LeastExists ==
    ASSUME NEW S, IsFiniteSet(S), S # {}, NEW R,
           \A x \in S : <<x, x>> \notin R,
           \A x, y, z \in S : <<x, y>> \in R /\ <<y, z>> \in R => <<x, z>> \in R
    PROVE  \E x \in S : \A y \in S : <<y, x>> \notin R
<1> DEFINE T == {Cardinality(Under(S, R, x)) : x \in S}
<1>1. \A x \in S : Under(S, R, x) \subseteq S BY DEF Under
<1>2. \A x \in S : Cardinality(Under(S, R, x)) \in Nat BY <1>1, Part
<1>3. T \in SUBSET Nat /\ T # {} BY <1>2
<1>4. PICK m \in T : \A n \in T : m <= n BY <1>3, LeastNumber
<1>5. PICK x \in S : m = Cardinality(Under(S, R, x)) BY <1>4
<1>6. ASSUME NEW y \in S, <<y, x>> \in R PROVE FALSE
  <2>1. Under(S, R, y) \subseteq Under(S, R, x) BY <1>6 DEF Under
  <2>2. y \in Under(S, R, x) /\ y \notin Under(S, R, y) BY <1>6 DEF Under
  <2>3. IsFiniteSet(Under(S, R, x)) BY <1>1, Part
  <2>4. Cardinality(Under(S, R, y)) < Cardinality(Under(S, R, x)) BY <2>1, <2>2, <2>3, Part
  <2>5. m <= Cardinality(Under(S, R, y)) BY <1>4
  <2> HIDE DEF T
  <2> QED BY <1>2, <1>5, <1>6, <2>4, <2>5
<1> QED BY <1>6

LEMMA MapFinite ==
    ASSUME NEW S, IsFiniteSet(S), NEW f, DOMAIN f = S
    PROVE  IsFiniteSet({f[s] : s \in S})
<1> DEFINE T == {f[s] : s \in S}
           g == [s \in S |-> f[s]]
<1>1. g \in Surjection(S, T) BY DEF Surjection
<1> HIDE DEF T, g
<1>2. IsFiniteSet(T) BY <1>1, FS_Surjection
<1> QED BY <1>2 DEF T

LEMMA UnionFinite ==
    ASSUME NEW S, IsFiniteSet(S), NEW f, DOMAIN f = S, \A s \in S : IsFiniteSet(f[s])
    PROVE  IsFiniteSet(UNION {f[s] : s \in S})
<1> DEFINE T == {f[s] : s \in S}
<1>1. IsFiniteSet(T) BY MapFinite
<1>2. \A t \in T : IsFiniteSet(t) OBVIOUS
<1> HIDE DEF T
<1>3. IsFiniteSet(UNION T) BY <1>1, <1>2, FS_UNION
<1> QED BY <1>3 DEF T

(* A finite set of integers has a least and a largest. *)
LEMMA MinIs ==
    ASSUME NEW S, S \subseteq Int, IsFiniteSet(S), S # {}
    PROVE  Min(S) \in S /\ \A x \in S : Min(S) <= x
<1> DEFINE R == {p \in S \X S : p[1] < p[2]}
<1>1. \A x, y \in S : <<x, y>> \in R <=> x < y OBVIOUS
<1>2. \A x \in S : <<x, x>> \notin R BY <1>1
<1>3. \A x, y, z \in S : <<x, y>> \in R /\ <<y, z>> \in R => <<x, z>> \in R BY <1>1
<1>4. \E x \in S : \A y \in S : <<y, x>> \notin R
  <2> HIDE DEF R
  <2> QED BY <1>2, <1>3, LeastExists
<1>5. \E x \in S : \A y \in S : ~(y < x) BY <1>1, <1>4
<1>6. \A x, y \in S : x \in Int /\ y \in Int /\ (~(y < x) => x <= y) OBVIOUS
<1>7. \E x \in S : \A y \in S : x <= y BY <1>5, <1>6
<1> QED BY <1>7, Zenon DEF Min

-----------------------------------------------------------------------------
(* Rows.                                                                    *)

(* What can ever be a row. *)
AllRows == UNION {{Row(p, s) : s \in p.points} : p \in Submissions}

(* Every run shows nothing or one of its own submissions. *)
ActiveOwn ==
    /\ active \in [RunIds -> Submissions \union {Null}]
    /\ \A r \in RunIds : active[r] # Null => active[r].run = r

LEMMA RowFields ==
    ASSUME NEW x \in AllRows
    PROVE  /\ \E p \in Submissions : x.stat \in p.points /\ x = Row(p, x.stat)
           /\ x # Null /\ x.stat # Null /\ x.completedAt \in Nat
           /\ {x.stat.id, x.stat.group, x.stat.name, x.stat.value} \subseteq Int
           /\ x.stat.lowerIsBetter \in BOOLEAN \union {Null}
<1>0. PICK p \in Submissions : \E s \in p.points : x = Row(p, s) BY DEF AllRows
<1>1. PICK s \in p.points : x = Row(p, s) BY <1>0
<1>2. x.stat = s /\ x.completedAt = p.completedAt BY <1>1 DEF Row
<1> QED BY <1>1, <1>2, BenchmarksAssumption

LEMMA RowsFinite == IsFiniteSet(AllRows)
<1> DEFINE f == [p \in Submissions |-> {Row(p, s) : s \in p.points}]
<1>1. \A p \in Submissions : IsFiniteSet(f[p])
  <2> TAKE p \in Submissions
  <2> DEFINE g == [s \in p.points |-> Row(p, s)]
  <2>1. DOMAIN g = p.points /\ {g[s] : s \in p.points} = f[p] OBVIOUS
  <2>2. IsFiniteSet(p.points) BY BenchmarksAssumption
  <2> HIDE DEF f, g
  <2>3. IsFiniteSet({g[s] : s \in p.points}) BY <2>1, <2>2, MapFinite
  <2> QED BY <2>1, <2>3
<1>2. DOMAIN f = Submissions /\ AllRows = UNION {f[p] : p \in Submissions} BY DEF AllRows
<1> HIDE DEF f
<1> QED BY <1>1, <1>2, BenchmarksAssumption, UnionFinite

LEMMA RowsOwn ==
    ASSUME ActiveOwn, NEW x
    PROVE  x \in Rows <=> \E r \in RunIds : /\ active[r] # Null /\ active[r] \in Submissions /\ active[r].run = r
                                           /\ \E s \in active[r].points : x = Row(active[r], s)
BY DEF Rows, Measured, ActiveOwn

LEMMA RowsKnown == ActiveOwn => Rows \subseteq AllRows
BY RowsOwn DEF AllRows

(* The points of a series have an order. *)
InTime(S) == \A x, y \in S : x = y \/ Newer(x, y) \/ Newer(y, x)

LEMMA SeriesInTime ==
    ASSUME ActiveOwn, NEW key PROVE InTime(SeriesRows(Rows, key))
<1> SUFFICES ASSUME NEW x \in Rows, NEW y \in Rows, Series(x) = Series(y), x.completedAt = y.completedAt
             PROVE  x = y
  BY RowsKnown, RowFields DEF InTime, SeriesRows, Newer
<1>1. PICK q \in RunIds : /\ active[q] \in Submissions /\ active[q].run = q
                          /\ \E s \in active[q].points : x = Row(active[q], s)
  BY RowsOwn
<1>2. PICK r \in RunIds : /\ active[r] \in Submissions /\ active[r].run = r
                          /\ \E s \in active[r].points : y = Row(active[r], s)
  BY RowsOwn
<1>3. PICK s \in active[q].points, t \in active[r].points : x = Row(active[q], s) /\ y = Row(active[r], t)
  BY <1>1, <1>2
<1>4. CASE q = r
  BY <1>1, <1>3, <1>4, BenchmarksAssumption
<1>5. CASE q # r
  <2>1. active[q].completedAt = active[r].completedAt BY <1>3 DEF Row
  <2> QED BY <1>1, <1>2, <1>3, <1>5, <2>1, BenchmarksAssumption
<1> QED BY <1>4, <1>5

(* A newest of rows that have an order. *)
LEMMA NewestExists ==
    ASSUME NEW S \in SUBSET AllRows, S # {}
    PROVE  \E x \in S : \A y \in S : ~Newer(y, x)
<1> DEFINE R == {p \in S \X S : Newer(p[1], p[2])}
<1>1. \A x, y \in S : <<x, y>> \in R <=> Newer(x, y) OBVIOUS
<1>2. \A x \in S : x.completedAt \in Nat BY RowFields
<1>3. \A x \in S : <<x, x>> \notin R BY <1>1, <1>2 DEF Newer
<1>4. \A x, y, z \in S : <<x, y>> \in R /\ <<y, z>> \in R => <<x, z>> \in R BY <1>1, <1>2 DEF Newer
<1>5. IsFiniteSet(S) BY RowsFinite, Part
<1>6. \E x \in S : \A y \in S : <<y, x>> \notin R
  <2> HIDE DEF R
  <2> QED BY <1>3, <1>4, <1>5, LeastExists
<1> QED BY <1>1, <1>6

LEMMA NewestIs ==
    ASSUME NEW S \in SUBSET AllRows, S # {}, InTime(S)
    PROVE  /\ Newest(S) \in S /\ \A y \in S \ {Newest(S)} : Newer(Newest(S), y)
           /\ \A x \in S : (\A y \in S \ {x} : Newer(x, y)) => x = Newest(S)
<1>1. \E x \in S : \A y \in S \ {x} : Newer(x, y) BY NewestExists DEF InTime
<1>2. Newest(S) \in S /\ \A y \in S \ {Newest(S)} : Newer(Newest(S), y) BY <1>1, Zenon DEF Newest
<1>3. \A x \in S : x.completedAt \in Nat BY RowFields
<1>4. ASSUME NEW x \in S, \A y \in S \ {x} : Newer(x, y), x # Newest(S) PROVE FALSE
  BY <1>2, <1>3, <1>4 DEF Newer
<1> QED BY <1>2, <1>4

-----------------------------------------------------------------------------
(* The two newest points of a series decide its change.                     *)

LEMMA FewerThanTwo ==
    ASSUME NEW S, IsFiniteSet(S) PROVE Cardinality(S) < 2 <=> \A x, y \in S : x = y
<1>1. CASE S = {} BY <1>1, FS_EmptySet
<1>2. ASSUME NEW x \in S PROVE Cardinality(S) < 2 <=> \A y, z \in S : y = z
  <2>1. /\ IsFiniteSet(S \ {x}) /\ Cardinality(S \ {x}) = Cardinality(S) - 1
        /\ Cardinality(S) \in Nat /\ Cardinality(S \ {x}) \in Nat
    BY FS_RemoveElement, FS_CardinalityType
  <2>2. Cardinality(S \ {x}) = 0 <=> S \ {x} = {} BY <2>1, FS_EmptySet
  <2>3. Cardinality(S) < 2 <=> Cardinality(S \ {x}) = 0 BY <2>1
  <2>4. S \ {x} = {} <=> \A y, z \in S : y = z OBVIOUS
  <2> QED BY <2>2, <2>3, <2>4
<1> QED BY <1>1, <1>2

(* A part that has the two newest has the newest and the one before it. *)
LEMMA TopTwo ==
    ASSUME NEW S \in SUBSET AllRows, S # {}, InTime(S), NEW T, T \subseteq S,
           \A x \in S : 1 + Cardinality({y \in S : Newer(y, x)}) <= 2 => x \in T
    PROVE  T # {} /\ Newest(T) = Newest(S) /\ Previous(T) = Previous(S)
<1> DEFINE n == Newest(S)
           rest == S \ {n}
           m == Newest(rest)
<1>1. T \in SUBSET AllRows /\ InTime(T) /\ IsFiniteSet(S) /\ IsFiniteSet(T) /\ \A x \in S : x.completedAt \in Nat
  BY RowsFinite, Part, RowFields DEF InTime
<1>2. n \in S /\ \A y \in S \ {n} : Newer(n, y) BY NewestIs
<1>3. n \in T
  <2>1. {y \in S : Newer(y, n)} = {} BY <1>1, <1>2 DEF Newer
  <2>2. Cardinality({y \in S : Newer(y, n)}) = 0 BY <2>1, FS_EmptySet
  <2> QED BY <1>2, <2>2
<1>4. Newest(T) = n
  <2>1. \A y \in T \ {n} : Newer(n, y) BY <1>2
  <2> HIDE DEF n
  <2> QED BY <1>1, <1>3, <2>1, NewestIs
<1>5. CASE rest = {}
  <2>1. \A x, y \in S : x = y BY <1>5
  <2> QED BY <1>1, <1>3, <1>4, <2>1, FewerThanTwo DEF Previous
<1>6. CASE rest # {}
  <2>0. rest \in SUBSET AllRows /\ InTime(rest) BY DEF InTime
  <2>1. m \in rest /\ \A y \in rest \ {m} : Newer(m, y) BY <1>6, <2>0, NewestIs
  <2>2. m \in T
    <3>0. m \in S /\ n \in S /\ Newer(n, m) /\ m.completedAt \in Nat BY <1>1, <1>2, <2>1
    <3>9. \A y \in S : Newer(y, m) => y = n
      <4> TAKE y \in S
      <4>1. y = n \/ y = m \/ Newer(m, y) BY <2>1
      <4> HIDE DEF m, n, rest
      <4>2. y.completedAt \in Nat BY <1>1
      <4> QED BY <3>0, <4>1, <4>2 DEF Newer
    <3>1. {y \in S : Newer(y, m)} = {n} BY <3>0, <3>9
    <3>2. Cardinality({y \in S : Newer(y, m)}) = 1 BY <3>1, FS_Singleton
    <3> QED BY <2>1, <3>2
  <2>3. Newest(T \ {n}) = m
    <3>1. T \ {n} \in SUBSET AllRows /\ InTime(T \ {n}) /\ m \in T \ {n} BY <1>1, <2>1, <2>2 DEF InTime
    <3>2. \A y \in (T \ {n}) \ {m} : Newer(m, y) BY <2>1
    <3> HIDE DEF n, m, rest
    <3> QED BY <3>1, <3>2, NewestIs
  <2>4. ~(Cardinality(S) < 2) /\ ~(Cardinality(T) < 2)
    <3>1. n # m /\ n \in S /\ m \in S BY <1>2, <2>1
    <3> QED BY <1>1, <1>3, <2>2, <3>1, FewerThanTwo
  <2> QED BY <1>3, <1>4, <2>3, <2>4 DEF Previous
<1> QED BY <1>5, <1>6

(* The rows have the two newest points of every series. *)
TellsChanges(B) == B \subseteq Rows /\ \A x \in Rows : SeriesRank(x) <= 2 => x \in B

LEMMA RankIs ==
    ASSUME ActiveOwn, NEW x \in Rows
    PROVE  /\ SeriesRank(x) = 1 + Cardinality({y \in SeriesRows(Rows, Series(x)) : Newer(y, x)})
           /\ SeriesRank(x) \in Nat
<1>1. {y \in SeriesRows(Rows, Series(x)) : Newer(y, x)} = {y \in Rows : SamePartition(x, y) /\ Newer(y, x)}
  BY DEF SeriesRows, SamePartition
<1>2. Cardinality({y \in Rows : SamePartition(x, y) /\ Newer(y, x)}) \in Nat
  <2>1. IsFiniteSet(AllRows) /\ {y \in Rows : SamePartition(x, y) /\ Newer(y, x)} \subseteq AllRows
    BY RowsFinite, RowsKnown
  <2> QED BY <2>1, Part
<1> QED BY <1>1, <1>2 DEF SeriesRank

LEMMA BoundedTells ==
    ASSUME ActiveOwn, NEW limit \in Nat, limit > 1
    PROVE  TellsChanges(listBoundedPerformanceTrends(listBenchmarkCatalog, limit))
<1> DEFINE B == listBoundedPerformanceTrends(listBenchmarkCatalog, limit)
<1>1. B \subseteq Rows BY DEF listBoundedPerformanceTrends
<1>2. ASSUME NEW x \in Rows, SeriesRank(x) <= 2 PROVE x \in B
  <2>0. SeriesRank(x) \in Nat BY RankIs
  <2>1. SeriesRank(x) <= limit
    <3> DEFINE n == SeriesRank(x)
    <3>1. n \in Nat /\ n <= 2 BY <1>2, <2>0
    <3> HIDE DEF n
    <3>2. n <= limit BY <3>1
    <3> QED BY <3>2 DEF n
  <2>2. Metric(x) \in listBenchmarkCatalog BY DEF listBenchmarkCatalog
  <2> QED BY <2>1, <2>2 DEF listBoundedPerformanceTrends
<1> HIDE DEF B
<1>3. TellsChanges(B) BY <1>1, <1>2 DEF TellsChanges
<1> QED BY <1>3 DEF B

LEMMA SummaryTells == ActiveOwn => TellsChanges(SummaryRows)
BY BoundedTells DEF SummaryRows

LEMMA PanelsTell == ActiveOwn => TellsChanges(loadProjectBenchmarkPanels)
BY BoundedTells, BenchmarksAssumption DEF loadProjectBenchmarkPanels

LEMMA SeriesTold ==
    ASSUME ActiveOwn, NEW B, TellsChanges(B), NEW x \in Rows
    PROVE  LET own == SeriesRows(Rows, Series(x))
               part == SeriesRows(B, Series(x))
           IN  part # {} /\ Newest(part) = Newest(own) /\ Previous(part) = Previous(own)
<1> DEFINE own == SeriesRows(Rows, Series(x))
           part == SeriesRows(B, Series(x))
<1>1. own \in SUBSET AllRows /\ x \in own /\ InTime(own) BY RowsKnown, SeriesInTime DEF SeriesRows
<1>2. part \subseteq own BY DEF TellsChanges, SeriesRows
<1>3. ASSUME NEW y \in own, 1 + Cardinality({z \in own : Newer(z, y)}) <= 2 PROVE y \in part
  <2>1. y \in Rows /\ Series(y) = Series(x) BY DEF SeriesRows
  <2>2. SeriesRank(y) <= 2 BY <1>3, <2>1, RankIs
  <2> QED BY <2>1, <2>2 DEF TellsChanges, SeriesRows
<1> HIDE DEF own, part
<1>4. part # {} /\ Newest(part) = Newest(own) /\ Previous(part) = Previous(own)
  BY <1>1, <1>2, <1>3, TopTwo
<1> QED BY <1>4 DEF own, part

LEMMA ChangeTold ==
    ASSUME ActiveOwn, NEW B, TellsChanges(B), NEW x \in Rows
    PROVE  Change(B, Series(x)) = Change(Rows, Series(x)) /\ \E y \in B : Series(y) = Series(x)
BY SeriesTold DEF Change, SeriesRows

LEMMA ChangesTold ==
    ASSUME ActiveOwn, NEW B, TellsChanges(B)
    PROVE  buildBenchmarkChangeEntries(B) = buildBenchmarkChangeEntries(Rows)
<1>1. B \subseteq Rows BY DEF TellsChanges
<1>2. {Series(x) : x \in B} = {Series(x) : x \in Rows} BY <1>1, ChangeTold
<1>3. \A x \in Rows : Change(B, Series(x)) = Change(Rows, Series(x)) BY ChangeTold
<1>4. \A key \in {Series(x) : x \in Rows} : Change(B, key) = Change(Rows, key) BY <1>3
<1> QED BY <1>2, <1>4 DEF buildBenchmarkChangeEntries

-----------------------------------------------------------------------------
(* The cards of the groups.                                                 *)

(* The newest point of a series is among the rows that tell its changes. *)
LEMMA NewestTold ==
    ASSUME ActiveOwn, NEW B, TellsChanges(B), NEW x \in Rows
    PROVE  \E y \in B : Series(y) = Series(x) /\ y.completedAt >= x.completedAt
<1> DEFINE part == SeriesRows(B, Series(x))
           own == SeriesRows(Rows, Series(x))
           y == Newest(own)
<1>1. own \in SUBSET AllRows /\ x \in own /\ InTime(own) BY RowsKnown, SeriesInTime DEF SeriesRows
<1>2. part # {} /\ Newest(part) = y BY SeriesTold
<1>3. part \in SUBSET own BY DEF TellsChanges, SeriesRows
<1>4. part \in SUBSET AllRows /\ InTime(part) BY <1>1, <1>3 DEF InTime
<1>5. y \in part
  <2> HIDE DEF part, own, y
  <2> QED BY <1>2, <1>4, NewestIs
<1>6. y = x \/ Newer(y, x)
  <2> HIDE DEF part, own
  <2> QED BY <1>1, NewestIs
<1>7. y \in AllRows /\ x \in AllRows BY <1>1, <1>4, <1>5
<1> HIDE DEF own, y
<1>8. y.completedAt \in Nat /\ x.completedAt \in Nat BY <1>7, RowFields
<1>9. y.completedAt >= x.completedAt BY <1>6, <1>8 DEF Newer
<1>10. y \in B /\ Series(y) = Series(x) BY <1>5 DEF SeriesRows
<1> QED BY <1>9, <1>10

LEMMA LatestIs ==
    ASSUME NEW S \in SUBSET AllRows, S # {}
    PROVE  /\ \E z \in S : z.completedAt = LatestOf(S)
           /\ \A x \in S : LatestOf(S) >= x.completedAt
           /\ LatestOf(S) \in Nat
<1>1. \A x \in S : x.completedAt \in Nat BY RowFields
<1>2. PICK z \in S : \A y \in S : ~Newer(y, z) BY NewestExists
<1>3. \A y \in S : z.completedAt >= y.completedAt BY <1>1, <1>2 DEF Newer
<1>4. \E t \in {x.completedAt : x \in S} : \A x \in S : t >= x.completedAt BY <1>3
<1>5. LatestOf(S) \in {x.completedAt : x \in S} /\ \A x \in S : LatestOf(S) >= x.completedAt
  BY <1>4, Zenon DEF LatestOf
<1> QED BY <1>1, <1>5

LEMMA SameLatest ==
    ASSUME NEW T \in SUBSET AllRows, NEW S \in SUBSET T, T # {},
           \A x \in T : \E y \in S : y.completedAt >= x.completedAt
    PROVE  LatestOf(S) = LatestOf(T)
<1>1. S # {} /\ S \in SUBSET AllRows OBVIOUS
<1>2. PICK s \in S : s.completedAt = LatestOf(S) BY <1>1, LatestIs
<1>3. PICK t \in T : t.completedAt = LatestOf(T) BY LatestIs
<1>4. PICK y \in S : y.completedAt >= t.completedAt OBVIOUS
<1>5. LatestOf(S) >= y.completedAt /\ LatestOf(S) \in Nat BY <1>1, LatestIs
<1>6. LatestOf(T) >= s.completedAt /\ LatestOf(T) \in Nat BY LatestIs
<1>7. y.completedAt \in Nat BY RowFields
<1> QED BY <1>2, <1>3, <1>4, <1>5, <1>6, <1>7

LEMMA SeriesParts ==
    ASSUME NEW x, NEW y, Series(x) = Series(y)
    PROVE  /\ x.stat.group = y.stat.group /\ x.stat.name = y.stat.name /\ x.stat.series = y.stat.series
           /\ x.stat.runner = y.stat.runner /\ x.branch = y.branch /\ Metric(x) = Metric(y)
BY DEF Series, Metric

LEMMA ChangesOfGroup ==
    ASSUME ActiveOwn, NEW B, TellsChanges(B), NEW g
    PROVE  buildBenchmarkChangeEntries(GroupRows(B, g)) = buildBenchmarkChangeEntries(GroupRows(Rows, g))
<1> DEFINE keys(S) == {Series(x) : x \in GroupRows(S, g)}
<1>1. B \subseteq Rows BY DEF TellsChanges
<1>2. \A S : \A x \in GroupRows(S, g) : SeriesRows(GroupRows(S, g), Series(x)) = SeriesRows(S, Series(x))
  BY SeriesParts DEF GroupRows, SeriesRows
<1>3. \A S : \A x \in GroupRows(S, g) : Change(GroupRows(S, g), Series(x)) = Change(S, Series(x))
  BY <1>2 DEF Change
<1>4. \A S : buildBenchmarkChangeEntries(GroupRows(S, g)) = {Change(S, key) : key \in keys(S)}
  <2> TAKE S
  <2>1. \A key \in keys(S) : Change(GroupRows(S, g), key) = Change(S, key) BY <1>3
  <2> QED BY <2>1 DEF buildBenchmarkChangeEntries
<1>5. keys(B) = keys(Rows)
  <2>1. keys(B) \subseteq keys(Rows) BY <1>1 DEF GroupRows
  <2>2. ASSUME NEW x \in GroupRows(Rows, g) PROVE \E y \in GroupRows(B, g) : Series(y) = Series(x)
    <3>1. x \in Rows /\ x.stat.group = g BY DEF GroupRows
    <3>2. PICK y \in B : Series(y) = Series(x) BY <3>1, ChangeTold
    <3> QED BY <3>1, <3>2, SeriesParts DEF GroupRows
  <2> QED BY <2>1, <2>2
<1>6. \A key \in keys(Rows) : Change(B, key) = Change(Rows, key)
  <2>1. \A x \in GroupRows(Rows, g) : x \in Rows BY DEF GroupRows
  <2>2. \A x \in GroupRows(Rows, g) : Change(B, Series(x)) = Change(Rows, Series(x)) BY <2>1, ChangeTold
  <2> QED BY <2>2
<1>7. {Change(B, key) : key \in keys(B)} = {Change(Rows, key) : key \in keys(Rows)} BY <1>5, <1>6
<1>8. /\ buildBenchmarkChangeEntries(GroupRows(B, g)) = {Change(B, key) : key \in keys(B)}
      /\ buildBenchmarkChangeEntries(GroupRows(Rows, g)) = {Change(Rows, key) : key \in keys(Rows)}
  BY <1>4
<1> HIDE DEF keys
<1> QED BY <1>7, <1>8

(* A card is the same from any rows that tell the changes. *)
LEMMA CardTold ==
    ASSUME ActiveOwn, NEW B, TellsChanges(B), NEW g \in Groups(Rows)
    PROVE  buildBenchmarkNamespaceSummary(B, g) = buildBenchmarkNamespaceSummary(Rows, g)
<1> DEFINE own == GroupRows(Rows, g)
           part == GroupRows(B, g)
<1>1. part \in SUBSET own /\ own \in SUBSET AllRows /\ own # {}
  BY RowsKnown DEF GroupRows, TellsChanges, Groups
<1>2. ASSUME NEW x \in own
      PROVE  \E y \in part : Series(y) = Series(x) /\ y.completedAt >= x.completedAt
  <2>1. x \in Rows /\ x.stat.group = g BY DEF GroupRows
  <2>2. PICK y \in B : Series(y) = Series(x) /\ y.completedAt >= x.completedAt BY <2>1, NewestTold
  <2> QED BY <2>1, <2>2, SeriesParts DEF GroupRows
<1>3. buildBenchmarkChangeEntries(part) = buildBenchmarkChangeEntries(own) BY ChangesOfGroup
<1> HIDE DEF own, part
<1>4. LatestOf(part) = LatestOf(own) BY <1>1, <1>2, SameLatest
<1>5. \A x \in own : \E y \in part : y.stat.name = x.stat.name /\ y.stat.series = x.stat.series
  BY <1>2, SeriesParts
<1>6. /\ {x.stat.name : x \in part} = {x.stat.name : x \in own}
      /\ {x.stat.series : x \in part} = {x.stat.series : x \in own}
  BY <1>1, <1>5
<1> USE DEF own, part
<1> QED BY <1>3, <1>4, <1>6, Zenon DEF buildBenchmarkNamespaceSummary

LEMMA CardsTold ==
    ASSUME ActiveOwn, NEW B, TellsChanges(B)
    PROVE  {buildBenchmarkNamespaceSummary(B, g) : g \in Groups(B)}
           = {buildBenchmarkNamespaceSummary(Rows, g) : g \in Groups(Rows)}
<1>1. B \subseteq Rows /\ \A x \in Rows : \E y \in B : y.stat.group = x.stat.group
  BY ChangeTold, SeriesParts DEF TellsChanges
<1>2. Groups(B) = Groups(Rows) BY <1>1 DEF Groups
<1> QED BY <1>2, CardTold

-----------------------------------------------------------------------------
(* The deltas of one run.                                                   *)

(* Points of one series are of different runs. *)
LEMMA SeriesRuns ==
    ASSUME ActiveOwn, NEW x \in Rows, NEW y \in Rows, Series(x) = Series(y), x.run = y.run
    PROVE  x = y
<1>1. PICK q \in RunIds : /\ active[q] \in Submissions /\ active[q].run = q
                          /\ \E s \in active[q].points : x = Row(active[q], s)
  BY RowsOwn
<1>2. PICK r \in RunIds : /\ active[r] \in Submissions /\ active[r].run = r
                          /\ \E s \in active[r].points : y = Row(active[r], s)
  BY RowsOwn
<1>3. x.run = q /\ y.run = r BY <1>1, <1>2 DEF Row
<1>4. x.completedAt = y.completedAt BY <1>1, <1>2, <1>3 DEF Row
<1>5. ~Newer(x, y) /\ ~Newer(y, x) BY <1>4, RowsKnown, RowFields DEF Newer
<1>6. x \in SeriesRows(Rows, Series(x)) /\ y \in SeriesRows(Rows, Series(x)) BY DEF SeriesRows
<1> QED BY <1>5, <1>6, SeriesInTime DEF InTime

(* The candidates for the measurement before the newest of a series are its *)
(* other points.                                                            *)
LEMMA BeforeNewest ==
    ASSUME ActiveOwn, NEW B, TellsChanges(B), NEW x \in Rows,
           LET own == SeriesRows(Rows, Series(x)) IN x = Newest(own) /\ Previous(own) # Null
    PROVE  resolvePreviousBenchmarkPoint(x, B) = Previous(SeriesRows(Rows, Series(x)))
<1> DEFINE own == SeriesRows(Rows, Series(x))
           part == SeriesRows(B, Series(x))
           others == {y \in B : Metric(y) = Metric(x) /\ y.run # x.run}
           sameSeries == {y \in others : y.stat.series = x.stat.series}
           sameRunner == {y \in sameSeries : y.stat.runner = x.stat.runner}
           exact == {y \in sameRunner : y.branch = x.branch}
           newest == {y \in exact : \A z \in exact : ~Newer(z, y)}
<1>1. own \in SUBSET AllRows /\ x \in own /\ InTime(own) BY RowsKnown, SeriesInTime DEF SeriesRows
<1>2. part # {} /\ Newest(part) = x /\ Previous(part) = Previous(own) BY SeriesTold
<1>3. part \in SUBSET own BY DEF TellsChanges, SeriesRows
<1>4. part \in SUBSET AllRows /\ InTime(part) BY <1>1, <1>3 DEF InTime
<1>5. exact = part \ {x}
  <2>1. ASSUME NEW y \in exact PROVE y \in part \ {x} BY DEF SeriesRows, Series, Metric
  <2>2. ASSUME NEW y \in part, y # x PROVE y \in exact
    <3>1. y \in B /\ y \in Rows /\ Series(y) = Series(x) BY DEF SeriesRows, TellsChanges
    <3>2. y.run # x.run BY <2>2, <3>1, SeriesRuns
    <3> QED BY <3>1, <3>2, SeriesParts
  <2> HIDE DEF exact, part
  <2> QED BY <2>1, <2>2
<1>6. Previous(part) = Newest(part \ {x}) /\ part \ {x} # {}
  <2>1. ~(Cardinality(part) < 2) /\ Previous(part) = Newest(part \ {x}) BY <1>2 DEF Previous
  <2>2. IsFiniteSet(part) BY <1>4, RowsFinite, Part
  <2>3. \E y, z \in part : y # z
    <3> HIDE DEF part
    <3> QED BY <2>1, <2>2, FewerThanTwo
  <2> HIDE DEF part
  <2> QED BY <2>1, <2>3
<1>7. newest = {Newest(exact)}
  <2>1. exact \in SUBSET AllRows /\ exact # {} /\ InTime(exact)
    <3> HIDE DEF exact, part
    <3> QED BY <1>4, <1>5, <1>6 DEF InTime
  <2>2. Newest(exact) \in exact /\ \A y \in exact \ {Newest(exact)} : Newer(Newest(exact), y)
    <3> HIDE DEF exact
    <3> QED BY <2>1, NewestIs
  <2>3. \A y \in exact : y.completedAt \in Nat
    <3> HIDE DEF exact
    <3> QED BY <2>1, RowFields
  <2> HIDE DEF exact
  <2> QED BY <2>2, <2>3 DEF Newer
<1>8. resolvePreviousBenchmarkPoint(x, B) = Newest(exact)
  <2>1. exact # {} BY <1>5, <1>6
  <2> DEFINE pick == IF exact # {} THEN exact ELSE IF sameRunner # {} THEN sameRunner
                     ELSE IF sameSeries # {} THEN sameSeries ELSE others
             last == {y \in pick : \A z \in pick : ~Newer(z, y)}
  <2>4. resolvePreviousBenchmarkPoint(x, B) = IF last = {} THEN Null ELSE CHOOSE y \in last : TRUE
    BY Zenon DEF resolvePreviousBenchmarkPoint
  <2>5. last = newest
    <3>1. pick = exact BY <2>1
    <3> HIDE DEF pick, exact
    <3> QED BY <3>1
  <2>2. resolvePreviousBenchmarkPoint(x, B) = IF newest = {} THEN Null ELSE CHOOSE y \in newest : TRUE
    <3> HIDE DEF last, newest
    <3> QED BY <2>4, <2>5
  <2> HIDE DEF newest, exact
  <2>3. newest # {} /\ (CHOOSE y \in newest : TRUE) = Newest(exact) BY <1>7
  <2> QED BY <2>2, <2>3
<1> QED BY <1>2, <1>5, <1>6, <1>8

LEMMA DeltaOfSeries ==
    ASSUME ActiveOwn, NEW B, TellsChanges(B), NEW c \in buildBenchmarkChangeEntries(Rows), c.previous # Null
    PROVE  c \in buildRunBenchmarkDeltaEntries(c.latest.run, B)
<1>1. PICK z \in Rows : c = Change(Rows, Series(z)) BY DEF buildBenchmarkChangeEntries
<1> DEFINE own == SeriesRows(Rows, Series(z))
           x == Newest(own)
<1>2. own \in SUBSET AllRows /\ z \in own /\ InTime(own) BY RowsKnown, SeriesInTime DEF SeriesRows
<1>3. x \in own
  <2> HIDE DEF own
  <2> QED BY <1>2, NewestIs
<1>4. x \in Rows /\ Series(x) = Series(z) BY <1>3 DEF SeriesRows
<1>5. c.latest = x /\ c.previous = Previous(own) /\ c.series = Series(z)
  BY <1>1 DEF Change
<1>6. x = Newest(SeriesRows(Rows, Series(x))) /\ Previous(SeriesRows(Rows, Series(x))) # Null
  BY <1>4, <1>5
<1>7. resolvePreviousBenchmarkPoint(x, B) = Previous(own)
  <2> HIDE DEF x
  <2>1. resolvePreviousBenchmarkPoint(x, B) = Previous(SeriesRows(Rows, Series(x))) BY <1>4, <1>6, BeforeNewest
  <2> QED BY <1>4, <2>1
<1>8. c = RunDelta(x, B)
  BY <1>1, <1>4, <1>7 DEF Change, RunDelta
<1>9. x \in {y \in Rows : y.run = c.latest.run} BY <1>4, <1>5
<1> HIDE DEF x
<1> QED BY <1>8, <1>9 DEF buildRunBenchmarkDeltaEntries

(* The bounded reads tell of the changes of the whole history. *)
LEMMA SummaryAgrees == ActiveOwn => SummaryOfAllPoints
<1> SUFFICES ASSUME ActiveOwn PROVE SummaryOfAllPoints OBVIOUS
<1> DEFINE panels == loadProjectBenchmarkPanels
<1>1. TellsChanges(SummaryRows) /\ TellsChanges(panels) BY SummaryTells, PanelsTell
<1> HIDE DEF panels
<1>2. buildBenchmarkChangeEntries(SummaryRows) = buildBenchmarkChangeEntries(Rows) BY <1>1, ChangesTold
<1>3. buildBenchmarkChangeEntries(panels) = buildBenchmarkChangeEntries(Rows) BY <1>1, ChangesTold
<1>4. {buildBenchmarkNamespaceSummary(SummaryRows, g) : g \in Groups(SummaryRows)}
      = {buildBenchmarkNamespaceSummary(panels, g) : g \in Groups(panels)}
  BY <1>1, CardsTold
<1>5. \A c \in {d \in buildBenchmarkChangeEntries(Rows) : d.previous # Null} :
         c \in buildRunBenchmarkDeltaEntries(c.latest.run, panels)
  BY <1>1, DeltaOfSeries
<1> USE DEF panels
<1>6. buildNamespaceCardsFromSummary = buildNamespaceCards
  BY <1>4 DEF buildNamespaceCardsFromSummary, buildNamespaceCards
<1> QED BY <1>2, <1>3, <1>5, <1>6 DEF SummaryOfAllPoints

-----------------------------------------------------------------------------
(* The direction of a metric.                                               *)

LEMMA FirstRuleIs ==
    ASSUME NEW rules, NEW S \in SUBSET (1..3)
    PROVE  FirstRule(rules, S) = Unmatched \/ \E i \in 1..3 : FirstRule(rules, S) = rules[i]
<1>1. CASE S = {} BY <1>1 DEF FirstRule
<1>2. CASE S # {}
  <2>1. S \in SUBSET Nat OBVIOUS
  <2>2. \E i \in S : \A j \in S : i <= j BY <1>2, <2>1, LeastNumber
  <2> DEFINE i == CHOOSE k \in S : \A j \in S : k <= j
  <2>3. i \in S BY <2>2, Zenon
  <2>4. FirstRule(rules, S) = rules[i] BY <1>2 DEF FirstRule
  <2> QED BY <2>3, <2>4
<1> QED BY <1>1, <1>2

(* A metric always has a direction. *)
LEMMA HasDirection ==
    ASSUME NEW stat, stat.lowerIsBetter \in BOOLEAN \union {Null}
    PROVE  resolveBenchmarkSemantics(stat).lowerIsBetter \in BOOLEAN
<1> DEFINE rule == MatchedRule(stat.name)
           override == MatchedOverride(stat.group, stat.name)
<1>1. rule.lowerIsBetter \in BOOLEAN \union {Null}
  <2>1. rule = Unmatched \/ \E i \in 1..3 : rule = BENCHMARK_SEMANTIC_RULES[i]
    BY FirstRuleIs DEF MatchedRule
  <2>2. \A i \in 1..3 : i = 1 \/ i = 2 \/ i = 3 OBVIOUS
  <2>3. \A i \in 1..3 : BENCHMARK_SEMANTIC_RULES[i].lowerIsBetter \in BOOLEAN
    <3>1. BENCHMARK_SEMANTIC_RULES[1].lowerIsBetter \in BOOLEAN BY DEF BENCHMARK_SEMANTIC_RULES
    <3>2. BENCHMARK_SEMANTIC_RULES[2].lowerIsBetter \in BOOLEAN BY DEF BENCHMARK_SEMANTIC_RULES
    <3>3. BENCHMARK_SEMANTIC_RULES[3].lowerIsBetter \in BOOLEAN BY DEF BENCHMARK_SEMANTIC_RULES
    <3> QED BY <2>2, <3>1, <3>2, <3>3
  <2> HIDE DEF rule
  <2> QED BY <2>1, <2>3 DEF Unmatched
<1>2. override.lowerIsBetter \in BOOLEAN \union {Null}
  <2>1. override = Unmatched \/ \E i \in 1..3 : override = BENCHMARK_SEMANTIC_OVERRIDES[i]
    BY FirstRuleIs DEF MatchedOverride
  <2>2. \A i \in 1..3 : i = 1 \/ i = 2 \/ i = 3 OBVIOUS
  <2>3. \A i \in 1..3 : BENCHMARK_SEMANTIC_OVERRIDES[i].lowerIsBetter \in BOOLEAN \union {Null}
    <3>1. BENCHMARK_SEMANTIC_OVERRIDES[1].lowerIsBetter \in BOOLEAN \union {Null} BY DEF BENCHMARK_SEMANTIC_OVERRIDES
    <3>2. BENCHMARK_SEMANTIC_OVERRIDES[2].lowerIsBetter \in BOOLEAN \union {Null} BY DEF BENCHMARK_SEMANTIC_OVERRIDES
    <3>3. BENCHMARK_SEMANTIC_OVERRIDES[3].lowerIsBetter \in BOOLEAN \union {Null} BY DEF BENCHMARK_SEMANTIC_OVERRIDES
    <3> QED BY <2>2, <3>1, <3>2, <3>3
  <2> HIDE DEF override
  <2> QED BY <2>1, <2>3 DEF Unmatched
<1>3. resolveBenchmarkSemantics(stat).lowerIsBetter
      = Coalesce(stat.lowerIsBetter, Coalesce(override.lowerIsBetter, Coalesce(rule.lowerIsBetter, TRUE)))
  BY DEF resolveBenchmarkSemantics
<1> HIDE DEF rule, override
<1>4. Coalesce(rule.lowerIsBetter, TRUE) \in BOOLEAN BY <1>1 DEF Coalesce
<1>5. Coalesce(override.lowerIsBetter, Coalesce(rule.lowerIsBetter, TRUE)) \in BOOLEAN
  BY <1>2, <1>4 DEF Coalesce
<1> QED BY <1>3, <1>5 DEF Coalesce

LEMMA BudgetIs ==
    ASSUME NEW stat
    PROVE  resolveBenchmarkBudgetStatus(stat) \in {"warning", "severe-regression", Null}
BY DEF resolveBenchmarkBudgetStatus

LEMMA RegressionIs ==
    ASSUME NEW latest, NEW delta, NEW previous
    PROVE  RegressionStatus(latest, delta, previous) \in {"regressed", "warning", "severe-regression"}
BY DEF RegressionStatus

LEMMA UnmovedIs ==
    ASSUME NEW latest, NEW status
    PROVE  Coalesce(resolveBenchmarkBudgetStatus(latest), status) \in {"warning", "severe-regression", status}
BY BudgetIs DEF Coalesce

(* The statuses there are. *)
Statuses == {"severe-regression", "warning", "regressed", "improved", "stable", "insufficient-baseline"}

LEMMA ClassifiedIs ==
    ASSUME NEW latest, NEW previous PROVE classifyBenchmarkComparison(latest, previous) \in Statuses
BY UnmovedIs, RegressionIs DEF classifyBenchmarkComparison, Statuses

LEMMA DirectionAgrees == ActiveOwn => ClassifiedByDirection
<1> SUFFICES ASSUME ActiveOwn, NEW x \in {z.stat : z \in Rows}, NEW y \in {z.stat : z \in Rows},
                    x.value # 0, y.value # 0,
                    IF resolveBenchmarkSemantics(x).lowerIsBetter THEN x.value < y.value ELSE x.value > y.value,
                    resolveBenchmarkSemantics(x) = resolveBenchmarkSemantics(y)
             PROVE  LET forth == classifyBenchmarkComparison(x, y)
                        back == classifyBenchmarkComparison(y, x)
                    IN  IF resolveBenchmarkSemantics(x).mode = "neutral"
                        THEN {forth, back} \cap {"improved", "regressed"} = {}
                        ELSE forth = "improved" /\ isBenchmarkRegressionStatus(back)
  BY Zenon DEF ClassifiedByDirection
<1> DEFINE s == resolveBenchmarkSemantics(x)
           forth == classifyBenchmarkComparison(x, y)
           back == classifyBenchmarkComparison(y, x)
<1>1. /\ x # Null /\ y # Null /\ x.value \in Int /\ y.value \in Int
      /\ x.lowerIsBetter \in BOOLEAN \union {Null}
  BY RowsKnown, RowFields
<1>2. s.lowerIsBetter \in BOOLEAN BY <1>1, HasDirection
<1>3. CASE s.mode = "neutral"
  <2>1. /\ forth = Coalesce(resolveBenchmarkBudgetStatus(x), "stable")
        /\ back = Coalesce(resolveBenchmarkBudgetStatus(y), "stable")
    BY <1>1, <1>3 DEF classifyBenchmarkComparison
  <2>2. forth \in {"warning", "severe-regression", "stable"} /\ back \in {"warning", "severe-regression", "stable"}
    BY <2>1, UnmovedIs
  <2> HIDE DEF forth, back, s
  <2>3. {forth, back} \cap {"improved", "regressed"} = {} BY <2>2
  <2> USE DEF forth, back, s
  <2> QED BY <1>3, <2>3
<1>4. CASE s.mode # "neutral"
  <2> DEFINE d == x.value - y.value
             e == y.value - x.value
  <2>1. d \in Int /\ e \in Int /\ d # 0 /\ e # 0 /\ (d < 0) # (e < 0) /\ ((d < 0) <=> s.lowerIsBetter)
    <3> HIDE DEF s
    <3>1. CASE s.lowerIsBetter = TRUE
      <4>1. x.value < y.value BY <3>1 DEF s
      <4> QED BY <1>1, <3>1, <4>1
    <3>2. CASE s.lowerIsBetter = FALSE
      <4>1. x.value > y.value BY <3>2 DEF s
      <4> QED BY <1>1, <3>2, <4>1
    <3> QED BY <1>2, <3>1, <3>2
  <2>2. forth = IF (d < 0) = s.lowerIsBetter THEN "improved" ELSE RegressionStatus(x, d, y.value)
    BY <1>1, <1>4, <2>1 DEF classifyBenchmarkComparison
  <2>3. back = IF (e < 0) = s.lowerIsBetter THEN "improved" ELSE RegressionStatus(y, e, x.value)
    BY <1>1, <1>4, <2>1 DEF classifyBenchmarkComparison
  <2>4. (d < 0) = s.lowerIsBetter /\ ~((e < 0) = s.lowerIsBetter)
    <3> HIDE DEF s, d, e
    <3> QED BY <1>2, <2>1
  <2>5. forth = "improved" /\ back = RegressionStatus(y, e, x.value)
    <3> HIDE DEF s, d, e, forth, back
    <3> QED BY <2>2, <2>3, <2>4
  <2> QED BY <1>4, <2>5, RegressionIs DEF isBenchmarkRegressionStatus
<1> QED BY <1>3, <1>4

-----------------------------------------------------------------------------
(* The comparisons of the explorer.                                         *)

(* Sets that are each other's images have the same size. *)
LEMMA SameSize ==
    ASSUME NEW S, IsFiniteSet(S), NEW T, NEW f, NEW h, DOMAIN f = S,
           \A s \in S : f[s] \in T /\ h[f[s]] = s,
           \A t \in T : h[t] \in S /\ f[h[t]] = t
    PROVE  Cardinality(S) = Cardinality(T)
<1> DEFINE k == [s \in S |-> f[s]]
<1>1. k \in Injection(S, T) BY DEF Injection, IsInjective
<1>2. k \in Surjection(S, T) BY DEF Surjection
<1> HIDE DEF k
<1>3. ExistsBijection(S, T) BY <1>1, <1>2 DEF ExistsBijection, Bijection
<1> QED BY <1>3, FS_Bijection

(* The series of the explorer and the change of the summary are compared    *)
(* alike, and only a series of two points has a change with a previous one. *)
LEMMA ComparedAlike ==
    ASSUME ActiveOwn, NEW B \in SUBSET Rows, NEW y \in B
    PROVE  LET own == SeriesRows(B, Series(y))
               c == Change(B, Series(y))
           IN  /\ Series(Newest(own)) = Series(y)
               /\ Cardinality(own) > 1 <=> c.previous # Null
               /\ Cardinality(own) > 1 => Comparison(own) = c.status
<1> DEFINE own == SeriesRows(B, Series(y))
           rest == own \ {Newest(own)}
<1>1. own \in SUBSET AllRows /\ y \in own /\ InTime(own)
  BY RowsKnown, SeriesInTime DEF SeriesRows, InTime
<1>2. Newest(own) \in own
  <2> HIDE DEF own
  <2> QED BY <1>1, NewestIs
<1>3. Series(Newest(own)) = Series(y) BY <1>2 DEF SeriesRows
<1>4. IsFiniteSet(own) /\ Cardinality(own) \in Nat BY <1>1, RowsFinite, Part
<1>5. ASSUME Cardinality(own) > 1 PROVE Previous(own) # Null
  <2>1. ~(Cardinality(own) < 2) BY <1>4, <1>5
  <2>2. \E z, x \in own : z # x
    <3> HIDE DEF own
    <3> QED BY <1>4, <2>1, FewerThanTwo
  <2>3. rest # {} /\ rest \in SUBSET AllRows /\ InTime(rest)
    <3> HIDE DEF own
    <3> QED BY <1>1, <2>2 DEF InTime
  <2>4. Newest(rest) \in rest
    <3> HIDE DEF rest
    <3> QED BY <2>3, NewestIs
  <2>5. Newest(rest) \in AllRows BY <2>3, <2>4
  <2>6. Newest(rest) # Null
    <3> HIDE DEF rest
    <3> QED BY <2>5, RowFields
  <2> QED BY <2>1, <2>6 DEF Previous
<1>6. ASSUME ~(Cardinality(own) > 1) PROVE Previous(own) = Null
  <2>1. Cardinality(own) < 2 BY <1>4, <1>6
  <2> QED BY <2>1 DEF Previous
<1>7. /\ Change(B, Series(y)).previous = Previous(own)
      /\ Previous(own) # Null => Change(B, Series(y)).status = Comparison(own)
  BY DEF Change, Comparison
<1> HIDE DEF own
<1>8. Cardinality(own) > 1 <=> Change(B, Series(y)).previous # Null BY <1>5, <1>6, <1>7
<1> QED BY <1>3, <1>5, <1>7, <1>8 DEF own

(* The points of B in the series of V. *)
SeriesOf(B, V) == {SeriesRows(B, Series(y)) : y \in V}

(* As many of the series have a comparison of some status as the changes of *)
(* those series.                                                            *)
LEMMA AsManyCompared ==
    ASSUME ActiveOwn, NEW B \in SUBSET Rows, NEW V \in SUBSET B, NEW statuses
    PROVE  Cardinality({points \in SeriesOf(B, V) : Cardinality(points) > 1 /\ Comparison(points) \in statuses})
           = Cardinality({c \in {Change(B, Series(y)) : y \in V} : c.previous # Null /\ c.status \in statuses})
<1> DEFINE S == {points \in SeriesOf(B, V) : Cardinality(points) > 1 /\ Comparison(points) \in statuses}
           T == {c \in {Change(B, Series(y)) : y \in V} : c.previous # Null /\ c.status \in statuses}
           f == [points \in S |-> Change(B, Series(Newest(points)))]
           h == [c \in T |-> SeriesRows(B, c.series)]
<1>1. IsFiniteSet(S)
  <2>1. IsFiniteSet(SUBSET AllRows) BY RowsFinite, FS_SUBSET
  <2>2. S \subseteq SUBSET AllRows BY RowsKnown DEF SeriesOf, SeriesRows
  <2> QED BY <2>1, <2>2, Part
<1>2. \A key : Change(B, key).series = key BY DEF Change
<1>3. \A points \in S : f[points] \in T /\ h[f[points]] = points
  <2> TAKE points \in S
  <2>1. PICK y \in V : points = SeriesRows(B, Series(y)) BY DEF SeriesOf
  <2>2. /\ Series(Newest(points)) = Series(y) /\ Cardinality(points) > 1
        /\ Change(B, Series(y)).previous # Null /\ Change(B, Series(y)).status = Comparison(points)
    BY <2>1, ComparedAlike
  <2>3. f[points] = Change(B, Series(y)) BY <2>2
  <2>4. Change(B, Series(y)) \in T BY <2>2
  <2>5. h[Change(B, Series(y))] = points BY <1>2, <2>1, <2>4
  <2> QED BY <2>3, <2>4, <2>5
<1>4. \A c \in T : h[c] \in S /\ f[h[c]] = c
  <2> TAKE c \in T
  <2>1. PICK y \in V : c = Change(B, Series(y)) BY DEF T
  <2> DEFINE points == SeriesRows(B, Series(y))
  <2>2. h[c] = points BY <1>2, <2>1
  <2>3. /\ Series(Newest(points)) = Series(y) /\ Cardinality(points) > 1 /\ Comparison(points) = c.status
    BY <2>1, ComparedAlike
  <2>4. points \in S BY <2>3 DEF SeriesOf
  <2>5. f[points] = c BY <2>1, <2>3, <2>4
  <2> QED BY <2>2, <2>4, <2>5
<1>5. DOMAIN f = S OBVIOUS
<1> HIDE DEF S, T, f, h
<1>6. Cardinality(S) = Cardinality(T) BY <1>1, <1>3, <1>4, <1>5, SameSize
<1> QED BY <1>6 DEF S, T

(* What the hooks of the explorer hold. *)
AllSeries == UNION {{x.series : x \in p.points} : p \in Submissions}

ExplorerOK(e) ==
    /\ e = [rows |-> e.rows, group |-> e.group, metric |-> e.metric, filter |-> e.filter,
            timeframe |-> e.timeframe, visible |-> e.visible]
    /\ e.rows \subseteq AllRows
    /\ e.filter = [f \in Filters |-> e.filter[f]] /\ \A f \in Filters : e.filter[f] # Null
    /\ e.timeframe \in Timeframes \union {Null}
    /\ e.visible \subseteq AllSeries

LEMMA EffectsFields ==
    ASSUME NEW e, ExplorerOK(e)
    PROVE  LET d == Effects(e)
           IN  /\ d.rows = e.rows /\ d.timeframe = e.timeframe
               /\ d.group = selectedPanel(e) /\ d.metric = selectedMetric(e) /\ d.filter = FilterKept(e)
               /\ d.visible = IF e.visible \cap seriesIds(e) # {} THEN e.visible \cap seriesIds(e)
                              ELSE FirstSeries(e)
               /\ d = [rows |-> d.rows, group |-> d.group, metric |-> d.metric, filter |-> d.filter,
                       timeframe |-> d.timeframe, visible |-> d.visible]
<1> DEFINE x == e.rows y == e.group z == e.metric u == e.filter v == e.timeframe w == e.visible
<1>1. e = [rows |-> x, group |-> y, metric |-> z, filter |-> u, timeframe |-> v, visible |-> w]
  BY DEF ExplorerOK
<1>2. Effects(e) = [e EXCEPT !.group = selectedPanel(e), !.metric = selectedMetric(e), !.filter = FilterKept(e),
                       !.visible = IF e.visible \cap seriesIds(e) # {} THEN e.visible \cap seriesIds(e)
                                   ELSE FirstSeries(e)]
  BY DEF Effects
<1> HIDE DEF x, y, z, u, v, w
<1>3. Effects(e) = [rows |-> x, group |-> selectedPanel(e), metric |-> selectedMetric(e), filter |-> FilterKept(e),
                    timeframe |-> v,
                    visible |-> IF e.visible \cap seriesIds(e) # {} THEN e.visible \cap seriesIds(e)
                                ELSE FirstSeries(e)]
  BY <1>1, <1>2
<1> USE DEF x, v
<1> QED BY <1>3

(* The explorer and the summary tell of as many changes. *)
LEMMA ExplorerAgrees == ActiveOwn /\ ExplorerOK(explorer) => ComparisonsAgree
<1> DEFINE e == explorer
           B == loadProjectBenchmarkPanels
           rf == e.filter["runner"]
           bf == e.filter["branch"]
           one == {c \in buildBenchmarkChangeEntries(SummaryRows) :
                     /\ c.previous # Null
                     /\ <<c.series[1], c.series[2], c.series[4], c.series[5]>> = <<e.group, e.metric, rf, bf>>}
           shown == summarizeSeriesComparisons(buildBenchmarkSeries(visiblePoints(e)))
<1> SUFFICES ASSUME ActiveOwn, ExplorerOK(e), Settled, e.rows = B, e.timeframe = Null,
                    e.filter["profile"] = "all", e.visible = seriesIds(e), rf # "all", bf # "all"
             PROVE  /\ shown.regressions = OfStatus(one, {"regressed", "warning", "severe-regression"})
                    /\ shown.improvements = OfStatus(one, {"improved"})
  BY DEF ComparisonsAgree
<1> DEFINE V == {x \in B : x.stat.group = e.group /\ x.stat.name = e.metric /\ x.stat.runner = rf /\ x.branch = bf}
           T == {Change(B, Series(y)) : y \in V}
<1>1. e.group = selectedPanel(e) /\ e.metric = selectedMetric(e)
  BY EffectsFields DEF Settled
<1>2. TellsChanges(SummaryRows) /\ TellsChanges(B) BY SummaryTells, PanelsTell
<1>3. B \in SUBSET Rows /\ B \in SUBSET AllRows BY <1>2, RowsKnown DEF TellsChanges
<1>4. visiblePoints(e) = V
  <2>1. allPoints(e) = {x \in B : x.stat.group = e.group /\ x.stat.name = e.metric}
    BY <1>1 DEF allPoints, Metric
  <2>2. resolveTimeframeCutoff(e) = 0 BY DEF resolveTimeframeCutoff
  <2>3. \A x \in allPoints(e) : x.completedAt >= 0 /\ x.stat.series \in e.visible
    <3>1. \A x \in B : x.completedAt \in Nat BY <1>3, RowFields
    <3> HIDE DEF B
    <3> QED BY <2>1, <3>1 DEF seriesIds
  <2>4. ASSUME NEW x
        PROVE  (\A f \in Filters : e.filter[f] \in {"all", FilterValue(x, f)}) <=> x.stat.runner = rf /\ x.branch = bf
    BY DEF Filters, FilterValue
  <2>5. visiblePoints(e) = {x \in allPoints(e) : x.stat.runner = rf /\ x.branch = bf}
    BY <2>2, <2>3, <2>4 DEF visiblePoints
  <2> HIDE DEF B, rf, bf
  <2> QED BY <2>1, <2>5
<1>5. buildBenchmarkSeries(V) = SeriesOf(B, V)
  <2>1. \A y \in V : {x \in V : x.stat.series = y.stat.series} = SeriesRows(B, Series(y))
    <3> TAKE y \in V
    <3> HIDE DEF B, rf, bf
    <3>1. \A x \in V : x.stat.series = y.stat.series => x \in SeriesRows(B, Series(y))
      BY DEF SeriesRows, Series
    <3>2. \A x \in SeriesRows(B, Series(y)) : x \in V /\ x.stat.series = y.stat.series
      BY SeriesParts DEF SeriesRows
    <3>3. SeriesRows(B, Series(y)) \subseteq B BY DEF SeriesRows
    <3> HIDE DEF V
    <3> QED BY <3>1, <3>2, <3>3
  <2>2. buildBenchmarkSeries(V) = {{x \in V : x.stat.series = y.stat.series} : y \in V}
    <3> HIDE DEF V
    <3> QED BY DEF buildBenchmarkSeries
  <2> HIDE DEF V, B
  <2>3. {{x \in V : x.stat.series = y.stat.series} : y \in V} = {SeriesRows(B, Series(y)) : y \in V}
    BY <2>1, Zenon
  <2> QED BY <2>2, <2>3 DEF SeriesOf
<1>6. one = {c \in T : c.previous # Null}
  <2>1. buildBenchmarkChangeEntries(SummaryRows) = {Change(B, Series(y)) : y \in B}
    <3>1. buildBenchmarkChangeEntries(SummaryRows) = buildBenchmarkChangeEntries(B)
      <4> HIDE DEF B
      <4>1. buildBenchmarkChangeEntries(SummaryRows) = buildBenchmarkChangeEntries(Rows) BY <1>2, ChangesTold
      <4>2. buildBenchmarkChangeEntries(B) = buildBenchmarkChangeEntries(Rows) BY <1>2, ChangesTold
      <4> QED BY <4>1, <4>2
    <3> HIDE DEF B
    <3> QED BY <3>1 DEF buildBenchmarkChangeEntries
  <2>2. ASSUME NEW y \in B
        PROVE  LET c == Change(B, Series(y))
               IN  <<c.series[1], c.series[2], c.series[4], c.series[5]>> = <<e.group, e.metric, rf, bf>> <=> y \in V
    <3>1. Change(B, Series(y)).series = Series(y) BY DEF Change
    <3>2. /\ Series(y)[1] = y.stat.group /\ Series(y)[2] = y.stat.name
          /\ Series(y)[4] = y.stat.runner /\ Series(y)[5] = y.branch
      BY DEF Series
    <3> HIDE DEF B, rf, bf
    <3> QED BY <3>1, <3>2
  <2> HIDE DEF B, rf, bf
  <2>3. V \subseteq B OBVIOUS
  <2> HIDE DEF V
  <2> QED BY <2>1, <2>2, <2>3
<1>7. V \in SUBSET B OBVIOUS
<1> HIDE DEF B, V, rf, bf
<1>8. ASSUME NEW statuses
      PROVE  Cardinality({points \in SeriesOf(B, V) : Cardinality(points) > 1 /\ Comparison(points) \in statuses})
             = OfStatus(one, statuses)
  <2>1. {c \in one : c.status \in statuses} = {c \in T : c.previous # Null /\ c.status \in statuses} BY <1>6
  <2>2. Cardinality({points \in SeriesOf(B, V) : Cardinality(points) > 1 /\ Comparison(points) \in statuses})
        = Cardinality({c \in T : c.previous # Null /\ c.status \in statuses})
    BY <1>3, <1>7, AsManyCompared
  <2>3. OfStatus(one, statuses) = Cardinality({c \in one : c.status \in statuses}) BY DEF OfStatus
  <2> HIDE DEF one, T
  <2> QED BY <2>1, <2>2, <2>3
<1> DEFINE series == SeriesOf(B, V)
           compared == {points \in series : Cardinality(points) > 1}
<1>9. shown = summarizeSeriesComparisons(series) BY <1>4, <1>5
<1>10. /\ shown.regressions = Cardinality({points \in compared : isBenchmarkRegressionStatus(Comparison(points))})
       /\ shown.improvements = Cardinality({points \in compared : Comparison(points) = "improved"})
  <2> HIDE DEF series, shown
  <2> QED BY <1>9 DEF summarizeSeriesComparisons
<1>11. /\ {points \in compared : isBenchmarkRegressionStatus(Comparison(points))}
          = {points \in series : /\ Cardinality(points) > 1
                                 /\ Comparison(points) \in {"regressed", "warning", "severe-regression"}}
       /\ {points \in compared : Comparison(points) = "improved"}
          = {points \in series : Cardinality(points) > 1 /\ Comparison(points) \in {"improved"}}
  <2> HIDE DEF series
  <2> QED BY DEF isBenchmarkRegressionStatus
<1> HIDE DEF shown, one
<1> QED BY <1>8, <1>10, <1>11

-----------------------------------------------------------------------------
(* The effects of the explorer.                                             *)

(* The settings that a render selects exist. *)
LEMMA GroupSelected ==
    ASSUME NEW e, e.rows \in SUBSET AllRows, e.rows # {} PROVE selectedPanel(e) \in Groups(e.rows)
<1> DEFINE rows == e.rows
           firsts == {g \in Groups(rows) : LatestOf(GroupRows(rows, g)) = LatestOf(rows)}
<1>1. PICK z \in rows : z.completedAt = LatestOf(rows) BY LatestIs
<1> DEFINE own == GroupRows(rows, z.stat.group)
<1>2. own \in SUBSET rows /\ z \in own BY DEF GroupRows
<1>3. LatestOf(own) = LatestOf(rows)
  <2>1. ASSUME NEW x \in rows PROVE \E y \in own : y.completedAt >= x.completedAt
    <3>1. LatestOf(rows) >= x.completedAt BY LatestIs
    <3> QED BY <1>1, <1>2, <3>1
  <2> HIDE DEF own, rows
  <2> QED BY <1>2, <2>1, SameLatest DEF rows
<1>4. z.stat.group \in firsts BY <1>3 DEF Groups
<1>5. firsts \subseteq Int BY RowFields DEF Groups
<1>6. IsFiniteSet(firsts)
  <2> DEFINE f == [x \in rows |-> x.stat.group]
  <2>1. IsFiniteSet(rows) /\ DOMAIN f = rows BY RowsFinite, Part
  <2>2. {f[x] : x \in rows} = Groups(rows) BY DEF Groups
  <2> HIDE DEF f, rows
  <2>3. IsFiniteSet(Groups(rows)) BY <2>1, <2>2, MapFinite
  <2> QED BY <2>3, Part
<1>7. Min(firsts) \in firsts
  <2> HIDE DEF firsts
  <2> QED BY <1>4, <1>5, <1>6, MinIs
<1>8. FirstGroup(rows) \in Groups(rows) BY <1>7 DEF FirstGroup
<1> QED BY <1>8 DEF selectedPanel

LEMMA MetricSelected ==
    ASSUME NEW e, e.rows \in SUBSET AllRows, e.rows # {}
    PROVE  selectedMetric(e) \in MetricsOf(e, selectedPanel(e))
<1> DEFINE own == GroupRows(e.rows, selectedPanel(e))
           names == MetricsOf(e, selectedPanel(e))
<1>1. own # {} /\ own \in SUBSET AllRows BY GroupSelected DEF Groups, GroupRows
<1>2. names = {x.stat.name : x \in own} BY DEF MetricsOf
<1>3. names # {} /\ names \subseteq Int BY <1>1, <1>2, RowFields
<1>4. IsFiniteSet(names)
  <2> DEFINE f == [x \in own |-> x.stat.name]
  <2>1. IsFiniteSet(own) /\ DOMAIN f = own BY <1>1, RowsFinite, Part
  <2>2. {f[x] : x \in own} = names BY <1>2
  <2> HIDE DEF f, own, names
  <2> QED BY <2>1, <2>2, MapFinite
<1>5. Min(names) \in names
  <2> HIDE DEF names
  <2> QED BY <1>3, <1>4, MinIs
<1> QED BY <1>3, <1>5 DEF selectedMetric

(* A metric that is selected has points, and a series of them comes first. *)
LEMMA SeriesShown ==
    ASSUME NEW e, e.rows \in SUBSET AllRows, e.rows # {}
    PROVE  FirstSeries(e) # {} /\ FirstSeries(e) \subseteq seriesIds(e)
<1> DEFINE all == allPoints(e)
           ahead(z, x) == Newer(z, x) \/ (z.completedAt = x.completedAt /\ z.stat.id > x.stat.id)
           before(x) == {y.stat.series : y \in {z \in all : ahead(z, x)}}
           R == {p \in all \X all : ahead(p[1], p[2])}
<1>1. all # {} /\ all \in SUBSET AllRows
  BY GroupSelected, MetricSelected DEF allPoints, Metric, MetricsOf, GroupRows
<1>2. IsFiniteSet(all) BY <1>1, RowsFinite, Part
<1>3. \A x \in all : x.completedAt \in Int /\ x.stat.id \in Int BY <1>1, RowFields
<1>4. \A x, y \in all : <<x, y>> \in R <=> ahead(x, y) OBVIOUS
<1>5. PICK x \in all : \A y \in all : ~ahead(y, x)
  <2> HIDE DEF all
  <2>1. \A x \in all : <<x, x>> \notin R BY <1>3, <1>4 DEF Newer
  <2>2. \A x, y, z \in all : ahead(x, y) /\ ahead(y, z) => ahead(x, z)
    <3> TAKE x, y, z \in all
    <3>1. /\ x.completedAt \in Int /\ y.completedAt \in Int /\ z.completedAt \in Int
          /\ x.stat.id \in Int /\ y.stat.id \in Int /\ z.stat.id \in Int
      BY <1>3
    <3> QED BY <3>1 DEF Newer
  <2>3. \A x, y, z \in all : <<x, y>> \in R /\ <<y, z>> \in R => <<x, z>> \in R
    <3> HIDE DEF ahead, R
    <3> QED BY <1>4, <2>2
  <2>4. \E x \in all : \A y \in all : <<y, x>> \notin R
    <3> HIDE DEF ahead, R
    <3> QED BY <1>1, <1>2, <2>1, <2>3, LeastExists
  <2> QED BY <1>4, <2>4
<1>6. before(x) = {} BY <1>5
<1>7. Cardinality(before(x) \ {x.stat.series}) < VisibleSeries
  <2>1. before(x) \ {x.stat.series} = {} BY <1>6
  <2> QED BY <2>1, FS_EmptySet, BenchmarksAssumption
<1>8. FirstSeries(e) = {y.stat.series : y \in {z \in all : Cardinality(before(z) \ {z.stat.series}) < VisibleSeries}}
  BY DEF FirstSeries
<1> HIDE DEF all, before
<1>9. FirstSeries(e) # {} /\ FirstSeries(e) \subseteq {y.stat.series : y \in all} BY <1>7, <1>8
<1> QED BY <1>9 DEF all, seriesIds

(* One pass of the effects settles, and fits the settings to the rows. *)
LEMMA EffectsSettle ==
    ASSUME NEW e, ExplorerOK(e), e.rows # {}
    PROVE  LET d == Effects(e)
           IN  /\ Effects(d) = d /\ d.group \in Groups(d.rows) /\ d.metric \in MetricsOf(d, d.group)
               /\ \A f \in Filters : d.filter[f] = "all" \/ d.filter[f] \in FilterValues(d, f)
               /\ d.visible # {} /\ d.visible \subseteq seriesIds(d)
               /\ ExplorerOK(d)
<1> DEFINE d == Effects(e)
<1>0. e.rows \in SUBSET AllRows BY DEF ExplorerOK
<1>1. /\ d.rows = e.rows /\ d.timeframe = e.timeframe
      /\ d.group = selectedPanel(e) /\ d.metric = selectedMetric(e) /\ d.filter = FilterKept(e)
      /\ d.visible = IF e.visible \cap seriesIds(e) # {} THEN e.visible \cap seriesIds(e) ELSE FirstSeries(e)
      /\ d = [rows |-> d.rows, group |-> d.group, metric |-> d.metric, filter |-> d.filter,
              timeframe |-> d.timeframe, visible |-> d.visible]
  BY EffectsFields
<1> HIDE DEF d
<1>2. d.group \in Groups(d.rows) /\ selectedPanel(d) = d.group
  BY <1>0, <1>1, GroupSelected DEF selectedPanel
<1>3. MetricsOf(d, d.group) = MetricsOf(e, selectedPanel(e)) BY <1>1 DEF MetricsOf
<1>4. d.metric \in MetricsOf(d, d.group) /\ selectedMetric(d) = d.metric
  BY <1>0, <1>1, <1>2, <1>3, MetricSelected DEF selectedMetric
<1>5. allPoints(d) = allPoints(e) BY <1>1, <1>2, <1>4 DEF allPoints
<1>6. seriesIds(d) = seriesIds(e) /\ FirstSeries(d) = FirstSeries(e) BY <1>5 DEF seriesIds, FirstSeries
<1>7. \A f : FilterValues(d, f) = FilterValues(e, f) BY <1>5 DEF FilterValues
<1>8. \A f \in Filters : /\ d.filter[f] = "all" \/ d.filter[f] \in FilterValues(d, f)
                         /\ d.filter[f] # Null
  <2> TAKE f \in Filters
  <2>1. d.filter[f] = IF e.filter[f] \in FilterValues(e, f) THEN e.filter[f] ELSE "all" BY <1>1 DEF FilterKept
  <2>2. Null \notin FilterValues(e, f) BY DEF FilterValues
  <2>3. "all" # Null BY BenchmarksAssumption
  <2> QED BY <1>7, <2>1, <2>2, <2>3
<1>9. FilterKept(d) = d.filter
  <2>1. d.filter = [f \in Filters |-> d.filter[f]] BY <1>1 DEF FilterKept
  <2>2. \A f \in Filters : (IF d.filter[f] \in FilterValues(d, f) THEN d.filter[f] ELSE "all") = d.filter[f]
    BY <1>8
  <2>3. [f \in Filters |-> IF d.filter[f] \in FilterValues(d, f) THEN d.filter[f] ELSE "all"]
        = [f \in Filters |-> d.filter[f]]
    BY <2>2
  <2> QED BY <2>1, <2>3 DEF FilterKept
<1>10. d.visible # {} /\ d.visible \subseteq seriesIds(d)
  BY <1>0, <1>1, <1>6, SeriesShown
<1>11. seriesIds(e) \subseteq AllSeries
  <2>1. \A x \in allPoints(e) : x \in AllRows BY <1>0 DEF allPoints
  <2>2. \A x \in allPoints(e) : \E p \in Submissions : x.stat \in p.points BY <2>1, RowFields
  <2> QED BY <2>2 DEF seriesIds, AllSeries
<1>12. ExplorerOK(d)
  <2>1. d.filter = [f \in Filters |-> d.filter[f]] BY <1>1 DEF FilterKept
  <2>2. d.timeframe \in Timeframes \union {Null} BY <1>1 DEF ExplorerOK
  <2> QED BY <1>0, <1>1, <1>6, <1>8, <1>10, <1>11, <2>1, <2>2 DEF ExplorerOK
<1>13. Effects(d) = d
  <2>1. /\ Effects(d).rows = d.rows /\ Effects(d).timeframe = d.timeframe
        /\ Effects(d).group = d.group /\ Effects(d).metric = d.metric /\ Effects(d).filter = d.filter
        /\ Effects(d).visible = d.visible
    BY <1>2, <1>4, <1>9, <1>10, <1>12, EffectsFields
  <2>2. Effects(d) = [rows |-> Effects(d).rows, group |-> Effects(d).group, metric |-> Effects(d).metric,
                      filter |-> Effects(d).filter, timeframe |-> Effects(d).timeframe,
                      visible |-> Effects(d).visible]
    BY <1>12, EffectsFields
  <2> QED BY <1>1, <2>1, <2>2
<1> QED BY <1>2, <1>4, <1>8, <1>10, <1>12, <1>13 DEF d

-----------------------------------------------------------------------------
(* The invariant: what is shown is published, and the hooks hold settings  *)
(* for rows that can be.                                                    *)
BenchmarksInv == ActiveOwn /\ ExplorerOK(explorer)

LEMMA BenchmarksInitOK == BenchmarksInit => BenchmarksInv
<1> SUFFICES ASSUME BenchmarksInit PROVE BenchmarksInv OBVIOUS
<1>1. ActiveOwn BY DEF BenchmarksInit, ActiveOwn
<1> DEFINE e == [rows |-> {}, group |-> Null, metric |-> Null]
<1>2. explorer = [rows |-> {}, group |-> selectedPanel(e), metric |-> selectedMetric(e),
                  filter |-> [f \in Filters |-> "all"], timeframe |-> Null, visible |-> FirstSeries(e)]
  BY DEF BenchmarksInit, Opened
<1>3. allPoints(e) = {} BY DEF allPoints
<1>4. FirstSeries(e) = {} BY <1>3 DEF FirstSeries
<1>5. "all" # Null BY BenchmarksAssumption
<1> HIDE DEF e
<1>6. ExplorerOK(explorer) BY <1>2, <1>4, <1>5 DEF ExplorerOK
<1> QED BY <1>1, <1>6 DEF BenchmarksInv

(* A change of one setting keeps the explorer well-formed. *)
LEMMA SettingOK ==
    ASSUME NEW e, ExplorerOK(e), NEW v
    PROVE  /\ v \subseteq AllRows => ExplorerOK([e EXCEPT !.rows = v])
           /\ ExplorerOK([e EXCEPT !.group = v]) /\ ExplorerOK([e EXCEPT !.metric = v])
           /\ v \in Timeframes \union {Null} => ExplorerOK([e EXCEPT !.timeframe = v])
           /\ v \subseteq AllSeries => ExplorerOK([e EXCEPT !.visible = v])
           /\ v # Null => \A f \in Filters : ExplorerOK([e EXCEPT !.filter[f] = v])
<1> DEFINE x == e.rows y == e.group z == e.metric u == e.filter t == e.timeframe w == e.visible
<1>1. e = [rows |-> x, group |-> y, metric |-> z, filter |-> u, timeframe |-> t, visible |-> w]
  BY DEF ExplorerOK
<1>2. /\ x \subseteq AllRows /\ u = [f \in Filters |-> u[f]] /\ \A f \in Filters : u[f] # Null
      /\ t \in Timeframes \union {Null} /\ w \subseteq AllSeries
  BY DEF ExplorerOK
<1> HIDE DEF x, y, z, u, t, w
<1>3. /\ [e EXCEPT !.rows = v] = [rows |-> v, group |-> y, metric |-> z, filter |-> u, timeframe |-> t, visible |-> w]
      /\ [e EXCEPT !.group = v] = [rows |-> x, group |-> v, metric |-> z, filter |-> u, timeframe |-> t, visible |-> w]
      /\ [e EXCEPT !.metric = v] = [rows |-> x, group |-> y, metric |-> v, filter |-> u, timeframe |-> t, visible |-> w]
      /\ [e EXCEPT !.timeframe = v] = [rows |-> x, group |-> y, metric |-> z, filter |-> u, timeframe |-> v, visible |-> w]
      /\ [e EXCEPT !.visible = v] = [rows |-> x, group |-> y, metric |-> z, filter |-> u, timeframe |-> t, visible |-> v]
  BY <1>1
<1>4. \A f \in Filters : [e EXCEPT !.filter[f] = v]
        = [rows |-> x, group |-> y, metric |-> z, filter |-> [u EXCEPT ![f] = v], timeframe |-> t, visible |-> w]
  BY <1>1
<1>5. v # Null => \A f \in Filters : /\ [u EXCEPT ![f] = v] = [k \in Filters |-> [u EXCEPT ![f] = v][k]]
                                     /\ \A k \in Filters : [u EXCEPT ![f] = v][k] # Null
  BY <1>2
<1>6. v # Null => \A f \in Filters : ExplorerOK([e EXCEPT !.filter[f] = v])
  BY <1>2, <1>4, <1>5 DEF ExplorerOK
<1> QED BY <1>2, <1>3, <1>6 DEF ExplorerOK

LEMMA SeriesIdsKnown ==
    ASSUME NEW e, e.rows \in SUBSET AllRows PROVE seriesIds(e) \subseteq AllSeries
<1>1. \A x \in allPoints(e) : x \in AllRows BY DEF allPoints
<1>2. \A x \in allPoints(e) : \E p \in Submissions : x.stat \in p.points BY <1>1, RowFields
<1> QED BY <1>2 DEF seriesIds, AllSeries

(* The effects of an explorer without rows show nothing. *)
LEMMA EffectsOK ==
    ASSUME NEW e, ExplorerOK(e) PROVE ExplorerOK(Effects(e))
<1>1. CASE e.rows # {} BY <1>1, EffectsSettle
<1>2. CASE e.rows = {}
  <2> DEFINE d == Effects(e)
  <2>1. /\ d.rows = e.rows /\ d.timeframe = e.timeframe /\ d.filter = FilterKept(e)
        /\ d.visible = IF e.visible \cap seriesIds(e) # {} THEN e.visible \cap seriesIds(e) ELSE FirstSeries(e)
        /\ d = [rows |-> d.rows, group |-> d.group, metric |-> d.metric, filter |-> d.filter,
                timeframe |-> d.timeframe, visible |-> d.visible]
    BY EffectsFields
  <2>2. allPoints(e) = {} BY <1>2 DEF allPoints
  <2>3. seriesIds(e) = {} /\ FirstSeries(e) = {} BY <2>2 DEF seriesIds, FirstSeries
  <2>4. \A f : FilterValues(e, f) = {} BY <2>2 DEF FilterValues
  <2>5. FilterKept(e) = [f \in Filters |-> "all"] BY <2>4 DEF FilterKept
  <2>6. "all" # Null BY BenchmarksAssumption
  <2>7. d.timeframe \in Timeframes \union {Null} /\ d.rows \subseteq AllRows BY <2>1 DEF ExplorerOK
  <2> HIDE DEF d
  <2>8. ExplorerOK(d) BY <2>1, <2>3, <2>5, <2>6, <2>7 DEF ExplorerOK
  <2> QED BY <2>8 DEF d
<1> QED BY <1>1, <1>2

LEMMA BenchmarksNextOK == BenchmarksInv /\ [BenchmarksNext]_benchmarkVars => BenchmarksInv'
<1> SUFFICES ASSUME BenchmarksInv, [BenchmarksNext]_benchmarkVars PROVE BenchmarksInv' OBVIOUS
<1> USE DEF BenchmarksInv
<1>0. explorer.rows \in SUBSET AllRows BY DEF ExplorerOK
<1>1. CASE Publish
  <2>1. PICK p \in Submissions : active' = [active EXCEPT ![p.run] = p] /\ UNCHANGED explorer BY <1>1 DEF Publish
  <2>2. p.run \in RunIds BY DEF RunIds
  <2>3. ActiveOwn' BY <2>1, <2>2 DEF ActiveOwn, RunIds
  <2> QED BY <2>1, <2>3
<1>2. CASE LoadPanels
  <2>1. loadProjectBenchmarkPanels \subseteq AllRows BY PanelsTell, RowsKnown DEF TellsChanges
  <2>2. ExplorerOK([explorer EXCEPT !.rows = loadProjectBenchmarkPanels]) BY <2>1, SettingOK
  <2> QED BY <1>2, <2>2 DEF LoadPanels, ActiveOwn
<1>3. CASE RunEffects
  <2>1. ExplorerOK(Effects(explorer)) BY EffectsOK
  <2> QED BY <1>3, <2>1 DEF RunEffects, ActiveOwn
<1>4. CASE OpenNamespace
  <2>1. PICK m \in listBenchmarkCatalog :
          explorer' = [explorer EXCEPT !.group = m[1], !.metric = m[2]] /\ UNCHANGED active
    BY <1>4 DEF OpenNamespace, Set
  <2> DEFINE d == [explorer EXCEPT !.group = m[1]]
  <2>2. ExplorerOK(d) BY SettingOK
  <2>3. explorer' = [d EXCEPT !.metric = m[2]] BY <2>1
  <2> HIDE DEF d
  <2>4. ExplorerOK(explorer') BY <2>2, <2>3, SettingOK
  <2> QED BY <2>1, <2>4 DEF ActiveOwn
<1>5. CASE SelectGroup
  <2>1. PICK g \in Groups(explorer.rows) :
          explorer' = [explorer EXCEPT !.group = g] /\ UNCHANGED active
    BY <1>5 DEF SelectGroup, Set
  <2>2. ExplorerOK(explorer') BY <2>1, SettingOK
  <2> QED BY <2>1, <2>2 DEF ActiveOwn
<1>6. CASE SelectMetric
  <2>1. PICK n \in MetricsOf(explorer, selectedPanel(explorer)) :
          explorer' = [explorer EXCEPT !.metric = n] /\ UNCHANGED active
    BY <1>6 DEF SelectMetric, Set
  <2>2. ExplorerOK(explorer') BY <2>1, SettingOK
  <2> QED BY <2>1, <2>2 DEF ActiveOwn
<1>7. CASE SetFilter
  <2>1. PICK f \in Filters : \E v \in FilterValues(explorer, f) \union {"all"} :
          explorer' = [explorer EXCEPT !.filter[f] = v] /\ UNCHANGED active
    BY <1>7 DEF SetFilter, Set
  <2>2. PICK v \in FilterValues(explorer, f) \union {"all"} :
          explorer' = [explorer EXCEPT !.filter[f] = v] /\ UNCHANGED active
    BY <2>1
  <2>3. v # Null BY BenchmarksAssumption DEF FilterValues
  <2>4. ExplorerOK(explorer') BY <2>2, <2>3, SettingOK
  <2> QED BY <2>2, <2>4 DEF ActiveOwn
<1>8. CASE SetTimeframe
  <2>1. PICK t \in Timeframes \union {Null} :
          explorer' = [explorer EXCEPT !.timeframe = t] /\ UNCHANGED active
    BY <1>8 DEF SetTimeframe, Set
  <2>2. ExplorerOK(explorer') BY <2>1, SettingOK
  <2> QED BY <2>1, <2>2 DEF ActiveOwn
<1>9. CASE ToggleSeries
  <2>1. PICK s \in seriesIds(explorer) :
          /\ explorer' = [explorer EXCEPT !.visible = IF s \notin @ THEN @ \union {s}
                                                      ELSE IF Cardinality(@) > 1 THEN @ \ {s} ELSE @]
          /\ UNCHANGED active
    BY <1>9 DEF ToggleSeries, Set
  <2>2. s \in AllSeries /\ explorer.visible \subseteq AllSeries BY <1>0, SeriesIdsKnown DEF ExplorerOK
  <2> DEFINE w == IF s \notin explorer.visible THEN explorer.visible \union {s}
                  ELSE IF Cardinality(explorer.visible) > 1 THEN explorer.visible \ {s} ELSE explorer.visible
  <2>3. explorer' = [explorer EXCEPT !.visible = w] BY <2>1
  <2>4. w \subseteq AllSeries BY <2>2
  <2> HIDE DEF w
  <2>5. ExplorerOK(explorer') BY <2>3, <2>4, SettingOK
  <2> QED BY <2>1, <2>5 DEF ActiveOwn
<1>10. CASE UNCHANGED benchmarkVars BY <1>10 DEF benchmarkVars, ActiveOwn
<1> QED
  BY <1>1, <1>2, <1>3, <1>4, <1>5, <1>6, <1>7, <1>8, <1>9, <1>10 DEF BenchmarksNext

LEMMA BenchmarksInvariant == BenchmarksSpec => []BenchmarksInv
BY BenchmarksInitOK, BenchmarksNextOK, PTL DEF BenchmarksSpec

(* Every run shows a submission of its own, the filters of the explorer     *)
(* have a value, the series it shows are of published points, and every    *)
(* change has one of the six statuses (classifyBenchmarkComparison, the    *)
(* hooks of BenchmarkExplorer).                                             *)
THEOREM BenchmarksTypeCorrect == BenchmarksSpec => []BenchmarksTypeOK
<1>1. BenchmarksInv => BenchmarksTypeOK
  <2> SUFFICES ASSUME BenchmarksInv PROVE BenchmarksTypeOK OBVIOUS
  <2>1. \A r \in RunIds : active[r] \in {p \in Submissions : p.run = r} \union {Null}
    BY DEF BenchmarksInv, ActiveOwn
  <2>2. \A c \in buildBenchmarkChangeEntries(SummaryRows) : c.status \in Statuses
    BY ClassifiedIs DEF buildBenchmarkChangeEntries, Change
  <2> QED BY <2>1, <2>2 DEF BenchmarksInv, ExplorerOK, BenchmarksTypeOK, Statuses, AllSeries
<1> QED BY <1>1, BenchmarksInvariant, PTL

(* The two newest points of a series, the longer read of the panels and the *)
(* whole history have the same changes and cards, the delta of a run is the *)
(* change of its series, a change to the better is never a regression, and  *)
(* the explorer counts what the summary counts (BOUNDED_TRENDS_SQL,         *)
(* buildBenchmarkSummary, buildRunBenchmarkDeltaEntries,                    *)
(* summarizeSeriesComparisons).                                             *)
THEOREM ChangesAlwaysAgree == BenchmarksSpec => []ChangesAgree
<1>1. BenchmarksInv => ChangesAgree
  BY SummaryAgrees, DirectionAgrees, ExplorerAgrees DEF BenchmarksInv, ChangesAgree
<1> QED BY <1>1, BenchmarksInvariant, PTL

(* One pass of the effects leaves settings that exist in the rows, and one  *)
(* more changes nothing, whatever was published or selected before (the    *)
(* effects of BenchmarkExplorer).                                           *)
THEOREM EffectsAlwaysFit == BenchmarksSpec => EffectsFit
<1> DEFINE Fit(d) ==
      /\ Effects(d) = d /\ d.group \in Groups(d.rows) /\ d.metric \in MetricsOf(d, d.group)
      /\ \A f \in Filters : d.filter[f] = "all" \/ d.filter[f] \in FilterValues(d, f)
      /\ d.visible # {} /\ d.visible \subseteq seriesIds(d)
<1>1. BenchmarksInv /\ RunEffects /\ explorer.rows # {} => Fit(explorer')
  <2> SUFFICES ASSUME BenchmarksInv, RunEffects, explorer.rows # {} PROVE Fit(explorer') OBVIOUS
  <2>1. Fit(Effects(explorer)) BY EffectsSettle DEF BenchmarksInv
  <2>2. explorer' = Effects(explorer) BY DEF RunEffects
  <2> HIDE DEF Fit
  <2> QED BY <2>1, <2>2
<1>2. BenchmarksInv /\ [BenchmarksNext]_benchmarkVars => [RunEffects /\ explorer.rows # {} => Fit(explorer')]_benchmarkVars
  BY <1>1
<1> QED BY <1>2, BenchmarksInvariant, PTL DEF BenchmarksSpec, EffectsFit
=============================================================================
