------------------------------ MODULE WebProofs ------------------------------
(***************************************************************************)
(* Proofs about the web.  Of BffResource, for any number of panels and     *)
(* urls, shared or not: what another panel or a prefetch has not begun is  *)
(* shown under its own url only, and only an abort makes a panel load for  *)
(* nothing.  Of SignIn, for all configurations, replicas, accounts and     *)
(* bounds: what a replica remembers sends a browser to the app only after  *)
(* a success, and a session is not taken away unsaid.                      *)
(***************************************************************************)
EXTENDS BffResource, SignIn, TLAPS

-----------------------------------------------------------------------------
(* The panels of a page.                                                    *)

StateType == [data : Data, loading : BOOLEAN, stale : BOOLEAN, error : BOOLEAN]

(* A panel has been given only its own urls. *)
UrlsOwn ==
    \A p \in Panels : url[p] \in Shows[p] \union {Null} /\ previousUrl[p] \in Shows[p] \union {Null}

(* Under a url, the cache keeps a response for that url. *)
CacheOwn == \A u \in ResourceUrls : resourceCache[u] \in {Absent, Null, u}

(* Whoever began a fetch that is not aborted still shows its url. *)
FetchOwn ==
    \A u \in ResourceUrls :
       inflight[u] # Null /\ inflight[u].owner # Null /\ ~inflight[u].aborted =>
          previousUrl[inflight[u].owner] = u

PanelInv == PanelsTypeOK /\ UrlsOwn /\ CacheOwn

IndInv == PanelInv /\ FetchOwn

(* The step of ShowsOwnData, and that of DeafByAbort. *)
OwnStep ==
    \A p \in mounted' :
       \/ state'[p].data \in {previousUrl'[p], Null}
       \/ state'[p].data = state[p].data /\ previousUrl'[p] = previousUrl[p]
       \/ \E u \in ResourceUrls :
             Borrows(p, u) /\ inflight'[u] = Null /\ state'[p].data = u

HeardStep ==
    \A p \in Panels :
       Deaf(p)' /\ ~Deaf(p) =>
          \E u \in ResourceUrls : Aborted(u) /\ Awaits(p, u) /\ inflight'[u] = Null

-----------------------------------------------------------------------------
LEMMA InitInv == PanelsInit => IndInv
BY PanelsAssumption
   DEF PanelsInit, IndInv, PanelInv, PanelsTypeOK, UrlsOwn, CacheOwn, FetchOwn, Blank, Data

LEMMA CachedIsOwn ==
    ASSUME CacheOwn, NEW u \in ResourceUrls \union {Null}
    PROVE  CachedData(u) \in {u, Null} /\ CachedData(u) \in Data
BY DEF CachedData, CacheOwn, Data

LEMMA EffectHasType ==
    ASSUME PanelInv, NEW p \in Panels, NEW u \in ResourceUrls \union {Null}
    PROVE  EffectState(p, u) \in StateType
<1>1. CachedData(u) \in Data /\ state[p] \in StateType
  BY CachedIsOwn DEF PanelInv, PanelsTypeOK, StateType
<1>2. PICK first : first = IF p \in mounted THEN state[p] ELSE [Blank EXCEPT !.data = CachedData(u)]
  OBVIOUS
<1>3. first \in StateType
  BY <1>1, <1>2 DEF StateType, Blank
<1>4. CASE u = Null
  BY <1>2, <1>3, <1>4 DEF EffectState, StateType
<1>5. CASE u # Null
  <2>1. PICK d : d = IF p \in mounted /\ previousUrl[p] # u THEN CachedData(u) ELSE first.data
    OBVIOUS
  <2>2. d \in Data
    BY <1>1, <1>3, <2>1 DEF StateType
  <2>3. EffectState(p, u) = [data |-> d, loading |-> TRUE, stale |-> FALSE, error |-> FALSE]
    BY <1>2, <1>5, <2>1 DEF EffectState
  <2> QED BY <2>2, <2>3 DEF StateType
<1> QED BY <1>4, <1>5

(* The effect of a panel shows data of its url, or what the panel showed    *)
(* under the same url.                                                     *)
LEMMA EffectIsOwn ==
    ASSUME IndInv, NEW p \in Panels, NEW u \in ResourceUrls \union {Null}
    PROVE  LET shown == EffectState(p, u)
           IN  /\ shown.loading = (u # Null)
               /\ u # Null => \/ shown.data \in {u, Null}
                              \/ previousUrl[p] = u /\ shown.data = state[p].data
               /\ u = Null => shown.data = IF p \in mounted THEN state[p].data ELSE Null
<1>1. CachedData(u) \in {u, Null} /\ CachedData(Null) = Null
  BY CachedIsOwn DEF IndInv, PanelInv, CachedData
<1>2. state[p] \in StateType
  BY DEF IndInv, PanelInv, PanelsTypeOK, StateType
<1>3. PICK first : first = IF p \in mounted THEN state[p] ELSE [Blank EXCEPT !.data = CachedData(u)]
  OBVIOUS
<1>4. /\ first.data = IF p \in mounted THEN state[p].data ELSE CachedData(u)
      /\ [first EXCEPT !.loading = FALSE].data = first.data
      /\ [first EXCEPT !.loading = FALSE].loading = FALSE
  BY <1>2, <1>3 DEF Blank, StateType
<1>5. CASE u = Null
  <2>1. EffectState(p, u) = [first EXCEPT !.loading = FALSE]
    BY <1>3, <1>5 DEF EffectState
  <2> QED BY <1>1, <1>4, <1>5, <2>1
<1>6. CASE u # Null
  <2>1. /\ EffectState(p, u).data = IF p \in mounted /\ previousUrl[p] # u THEN CachedData(u) ELSE first.data
        /\ EffectState(p, u).loading = TRUE
    BY <1>3, <1>6 DEF EffectState
  <2> QED BY <1>1, <1>4, <1>6, <2>1
<1> QED BY <1>5, <1>6

-----------------------------------------------------------------------------
(* What a commit does to the fetch of a url.                                *)

ReadersOf(changed, gone, next, u) == {p \in changed \ gone : next[p] = u}

LEMMA FetchAfterEffects ==
    ASSUME PanelInv, NEW changed \in SUBSET Panels, NEW gone \in SUBSET Panels,
           NEW next \in [Panels -> ResourceUrls \union {Null}],
           RunEffects(changed, gone, next), NEW u \in ResourceUrls
    PROVE  LET readers == ReadersOf(changed, gone, next, u)
               f == inflight[u]
               g == inflight'[u]
           IN  /\ g \in Fetches \union {Null}
               /\ g # Null /\ f = Null =>
                     g.owner \in readers /\ g.readers = readers /\ ~g.aborted
               /\ g # Null /\ f # Null =>
                     /\ g.owner = f.owner /\ g.readers = (f.readers \ gone) \union readers
                     /\ g.aborted = (f.owner \in changed \union gone)
<1> DEFINE entering == {p \in changed \ gone : next[p] # Null}
           table == Cleaned(changed \union gone, gone)
           readers == {p \in entering : next[p] = u}
           f == inflight[u]
           g == inflight'[u]
           t == table[u]
<1>1. readers = ReadersOf(changed, gone, next, u) /\ readers \in SUBSET Panels
  BY PanelsAssumption DEF ReadersOf
<1>2. f \in Fetches \union {Null}
  BY DEF PanelInv, PanelsTypeOK, Fetches
<1>3. t = IF f = Null THEN Null
          ELSE [f EXCEPT !.aborted = f.owner \in changed \union gone, !.readers = @ \ gone]
  BY DEF Cleaned
<1>4. g = IF readers = {} THEN t
          ELSE IF t = Null THEN Fetch(CHOOSE p \in readers : TRUE, readers)
          ELSE [t EXCEPT !.readers = @ \union readers]
  <2>1. inflight' = Joined(table, entering, next)
    BY DEF RunEffects
  <2> HIDE DEF table, entering
  <2> QED BY <2>1 DEF Joined
<1> HIDE DEF readers, table, g, f, t
<1>5. CASE f = Null
  <2>1. t = Null
    BY <1>3, <1>5
  <2>2. CASE readers = {}
    BY <1>1, <1>4, <1>5, <2>1, <2>2 DEF f, g
  <2>3. CASE readers # {}
    <3>1. (CHOOSE p \in readers : TRUE) \in readers
      BY <2>3
    <3>2. g = Fetch(CHOOSE p \in readers : TRUE, readers)
      BY <1>4, <2>1, <2>3
    <3> QED BY <3>1, <3>2, <1>1, <1>5 DEF Fetch, Fetches, f, g
  <2> QED BY <2>2, <2>3
<1>6. CASE f # Null
  <2>1. f \in Fetches
    BY <1>2, <1>6
  <2> DEFINE ab == f.owner \in changed \union gone
  <2>2. ab \in BOOLEAN
    OBVIOUS
  <2> HIDE DEF ab
  <2>3. t = [f EXCEPT !.aborted = ab, !.readers = @ \ gone]
    BY <1>3, <1>6 DEF ab
  <2>4. /\ t \in Fetches /\ t.owner = f.owner /\ t.readers = f.readers \ gone
        /\ t.aborted = ab
    BY <2>1, <2>2, <2>3 DEF Fetches
  <2>5. t # Null
    BY <2>4, PanelsAssumption
  <2>6. /\ g \in Fetches /\ g.owner = f.owner /\ g.aborted = ab
        /\ g.readers = (f.readers \ gone) \union readers
    <3>1. CASE readers = {}
      BY <3>1, <1>4, <2>4
    <3>2. CASE readers # {}
      <4>1. g = [t EXCEPT !.readers = @ \union readers]
        BY <1>4, <2>5, <3>2
      <4> QED BY <4>1, <2>4, <1>1 DEF Fetches
    <3> QED BY <3>1, <3>2
  <2> QED BY <2>6, <1>1, <1>6 DEF f, g, ab
<1> QED BY <1>5, <1>6

(* Effects end no fetch, and a panel that enters finds one. *)
LEMMA JoinedIsThere ==
    ASSUME PanelInv, NEW changed \in SUBSET Panels, NEW gone \in SUBSET Panels,
           NEW next \in [Panels -> ResourceUrls \union {Null}],
           RunEffects(changed, gone, next), NEW u \in ResourceUrls,
           inflight[u] # Null \/ ReadersOf(changed, gone, next, u) # {}
    PROVE  inflight'[u] # Null
<1> DEFINE entering == {p \in changed \ gone : next[p] # Null}
           table == Cleaned(changed \union gone, gone)
           readers == {p \in entering : next[p] = u}
<1>1. readers = ReadersOf(changed, gone, next, u)
  BY PanelsAssumption DEF ReadersOf
<1>3. inflight' = Joined(table, entering, next)
  BY DEF RunEffects
<1>4. inflight[u] # Null => inflight[u] \in Fetches
  BY DEF PanelInv, PanelsTypeOK
<1>5. table[u] = IF inflight[u] = Null THEN Null
                 ELSE [inflight[u] EXCEPT !.aborted = inflight[u].owner \in changed \union gone,
                                          !.readers = @ \ gone]
  BY DEF Cleaned
<1> HIDE DEF entering, table, readers
<1>6. inflight'[u] = IF readers = {} THEN table[u]
                     ELSE IF table[u] = Null THEN Fetch(CHOOSE p \in readers : TRUE, readers)
                     ELSE [table[u] EXCEPT !.readers = @ \union readers]
  BY <1>3 DEF Joined, readers
<1>7. readers \in SUBSET Panels
  BY <1>1 DEF ReadersOf
<1>8. CASE inflight[u] # Null
  <2> DEFINE ab == inflight[u].owner \in changed \union gone
  <2>1. ab \in BOOLEAN
    OBVIOUS
  <2>2. table[u] = [inflight[u] EXCEPT !.aborted = ab, !.readers = @ \ gone]
    BY <1>5, <1>8
  <2> HIDE DEF ab
  <2>3. table[u] \in Fetches
    BY <1>4, <1>8, <2>1, <2>2 DEF Fetches
  <2>4. [table[u] EXCEPT !.readers = @ \union readers] \in Fetches
    BY <1>7, <2>3 DEF Fetches
  <2> QED BY <1>6, <2>3, <2>4, PanelsAssumption
<1>9. CASE inflight[u] = Null
  <2>1. readers # {} /\ table[u] = Null
    BY <1>1, <1>5, <1>9
  <2>2. (CHOOSE p \in readers : TRUE) \in readers
    BY <2>1
  <2>3. Fetch(CHOOSE p \in readers : TRUE, readers) \in Fetches
    BY <1>7, <2>2 DEF Fetch, Fetches
  <2> QED BY <1>6, <2>1, <2>3, PanelsAssumption
<1> QED BY <1>8, <1>9

-----------------------------------------------------------------------------
(* A commit or a retry: the effects of some panels run with urls of theirs. *)

EffectsOf(changed, gone, next) ==
    /\ MicrotasksDone
    /\ changed \in SUBSET Panels /\ gone \in SUBSET mounted /\ changed \intersect gone = {}
    /\ next \in [Panels -> ResourceUrls \union {Null}]
    /\ mounted' = (mounted \union changed) \ gone /\ url' = next
    /\ \A p \in Panels : next[p] \in IF p \in mounted' THEN Shows[p] \union {Null} ELSE {Null}
    /\ \A p \in Panels \ changed : p \notin gone => next[p] = url[p]
    /\ RunEffects(changed, gone, next)
    /\ UNCHANGED resourceCache

LEMMA EffectsOutcome ==
    ASSUME PanelInv, NEW changed, NEW gone, NEW next,
           EffectsOf(changed, gone, next)
    PROVE  /\ changed \in SUBSET Panels /\ gone \in SUBSET Panels
           /\ next \in [Panels -> ResourceUrls \union {Null}]
           /\ \A p \in Panels :
                /\ state'[p] = IF p \in gone THEN Blank
                               ELSE IF p \in changed THEN EffectState(p, next[p]) ELSE state[p]
                /\ previousUrl'[p] = IF p \in gone THEN Null
                                     ELSE IF p \in changed /\ next[p] # Null THEN next[p]
                                     ELSE previousUrl[p]
           /\ \A u \in ResourceUrls :
                LET readers == ReadersOf(changed, gone, next, u)
                    f == inflight[u]
                    g == inflight'[u]
                IN  /\ g \in Fetches \union {Null}
                    /\ g # Null /\ f = Null =>
                          g.owner \in readers /\ g.readers = readers /\ ~g.aborted
                    /\ g # Null /\ f # Null =>
                          /\ g.owner = f.owner /\ g.readers = (f.readers \ gone) \union readers
                          /\ g.aborted = (f.owner \in changed \union gone)
<1>1. /\ changed \in SUBSET Panels /\ gone \in SUBSET Panels
      /\ next \in [Panels -> ResourceUrls \union {Null}] /\ RunEffects(changed, gone, next)
  BY DEF EffectsOf, PanelInv, PanelsTypeOK
<1>2. \A p \in Panels :
          /\ state'[p] = IF p \in gone THEN Blank
                         ELSE IF p \in changed THEN EffectState(p, next[p]) ELSE state[p]
          /\ previousUrl'[p] = IF p \in gone THEN Null
                               ELSE IF p \in changed /\ next[p] # Null THEN next[p]
                               ELSE previousUrl[p]
  BY <1>1 DEF RunEffects
<1>3. ASSUME NEW u \in ResourceUrls
      PROVE  LET readers == ReadersOf(changed, gone, next, u)
                 f == inflight[u]
                 g == inflight'[u]
             IN  /\ g \in Fetches \union {Null}
                 /\ g # Null /\ f = Null =>
                       g.owner \in readers /\ g.readers = readers /\ ~g.aborted
                 /\ g # Null /\ f # Null =>
                       /\ g.owner = f.owner /\ g.readers = (f.readers \ gone) \union readers
                       /\ g.aborted = (f.owner \in changed \union gone)
  BY <1>1, FetchAfterEffects
<1> QED BY <1>1, <1>2, <1>3, Zenon

(* Effects keep the types, the urls and the cache of any panels. *)
LEMMA EffectsPanel ==
    ASSUME PanelInv, NEW changed, NEW gone, NEW next,
           EffectsOf(changed, gone, next)
    PROVE  PanelInv'
<1> DEFINE readers(u) == ReadersOf(changed, gone, next, u)
<1>1. /\ changed \in SUBSET Panels /\ gone \in SUBSET mounted /\ changed \intersect gone = {}
      /\ gone \in SUBSET Panels /\ next \in [Panels -> ResourceUrls \union {Null}]
      /\ mounted' = (mounted \union changed) \ gone /\ url' = next /\ UNCHANGED resourceCache
      /\ RunEffects(changed, gone, next)
  BY DEF EffectsOf, PanelInv, PanelsTypeOK
<1>2. \A p \in Panels : next[p] \in Shows[p] \union {Null}
  BY DEF EffectsOf
<1>3. \A p \in Panels :
          /\ state'[p] = IF p \in gone THEN Blank
                         ELSE IF p \in changed THEN EffectState(p, next[p]) ELSE state[p]
          /\ previousUrl'[p] = IF p \in gone THEN Null
                               ELSE IF p \in changed /\ next[p] # Null THEN next[p]
                               ELSE previousUrl[p]
  BY EffectsOutcome
<1>4. previousUrl' \in [Panels -> ResourceUrls \union {Null}]
  BY <1>1 DEF RunEffects, PanelInv, PanelsTypeOK
<1>5. \A p \in Panels : EffectState(p, next[p]) \in StateType
  BY <1>1, EffectHasType
<1>6. state' \in [Panels -> StateType]
  <2>1. state' = [p \in Panels |-> state'[p]]
    BY <1>1 DEF RunEffects
  <2>2. \A p \in Panels : Blank \in StateType /\ state[p] \in StateType
    BY DEF Blank, StateType, Data, PanelInv, PanelsTypeOK
  <2> QED BY <2>1, <2>2, <1>3, <1>5
<1>7. \A u \in ResourceUrls :
          LET f == inflight[u]
              g == inflight'[u]
          IN  /\ g \in Fetches \union {Null}
              /\ g # Null /\ f = Null => g.readers = readers(u)
              /\ g # Null /\ f # Null => g.readers = (f.readers \ gone) \union readers(u)
  BY EffectsOutcome
<1>8. inflight' \in [ResourceUrls -> Fetches \union {Null}]
  <2>1. inflight' = [u \in ResourceUrls |-> inflight'[u]]
    BY <1>1 DEF RunEffects, Joined
  <2> QED BY <2>1, <1>7
<1>9. UrlsOwn'
  BY <1>1, <1>2, <1>3 DEF UrlsOwn, PanelInv
<1>10. CacheOwn'
  BY <1>1 DEF CacheOwn, PanelInv
<1>11. PanelsTypeOK'
  <2>1. \A p \in Panels \ mounted' : url'[p] = Null /\ state'[p] = Blank
    BY <1>1, <1>3 DEF EffectsOf, PanelInv, PanelsTypeOK
  <2>2. \A u \in ResourceUrls : inflight'[u] # Null => inflight'[u].readers \subseteq mounted'
    BY <1>1, <1>7 DEF PanelInv, PanelsTypeOK, ReadersOf
  <2> QED BY <1>1, <1>4, <1>6, <1>8, <2>1, <2>2 DEF PanelInv, PanelsTypeOK, StateType
<1> QED BY <1>9, <1>10, <1>11 DEF PanelInv

LEMMA EffectsStep ==
    ASSUME IndInv, NEW changed, NEW gone, NEW next,
           EffectsOf(changed, gone, next)
    PROVE  IndInv' /\ OwnStep /\ HeardStep
<1> DEFINE readers(u) == ReadersOf(changed, gone, next, u)
<1>1. /\ PanelInv /\ changed \intersect gone = {} /\ gone \subseteq mounted
      /\ mounted' = (mounted \union changed) \ gone /\ url' = next
      /\ \A p \in Panels \ changed : p \notin gone => next[p] = url[p]
  BY DEF EffectsOf, IndInv
<1>2. /\ changed \in SUBSET Panels /\ gone \in SUBSET Panels
      /\ next \in [Panels -> ResourceUrls \union {Null}]
      /\ \A p \in Panels :
          /\ state'[p] = IF p \in gone THEN Blank
                         ELSE IF p \in changed THEN EffectState(p, next[p]) ELSE state[p]
          /\ previousUrl'[p] = IF p \in gone THEN Null
                               ELSE IF p \in changed /\ next[p] # Null THEN next[p]
                               ELSE previousUrl[p]
  BY <1>1, EffectsOutcome
<1>3. \A u \in ResourceUrls :
          LET f == inflight[u]
              g == inflight'[u]
          IN  /\ g # Null /\ f = Null =>
                    g.owner \in readers(u) /\ g.readers = readers(u) /\ ~g.aborted
              /\ g # Null /\ f # Null =>
                    /\ g.owner = f.owner /\ g.readers = (f.readers \ gone) \union readers(u)
                    /\ g.aborted = (f.owner \in changed \union gone)
  BY <1>1, EffectsOutcome
<1>4. PanelInv'
  BY <1>1, EffectsPanel
<1>5. OwnStep
  <2> SUFFICES ASSUME NEW p \in Panels, p \in mounted'
               PROVE  \/ state'[p].data \in {previousUrl'[p], Null}
                      \/ state'[p].data = state[p].data /\ previousUrl'[p] = previousUrl[p]
    BY <1>4 DEF OwnStep, PanelInv, PanelsTypeOK
  <2>1. p \notin gone
    BY <1>1
  <2>2. CASE p \notin changed
    BY <2>1, <2>2, <1>2
  <2>3. CASE p \in changed
    <3>1. state'[p] = EffectState(p, next[p]) /\ next[p] \in ResourceUrls \union {Null}
      BY <2>1, <2>3, <1>2
    <3>2. CASE next[p] # Null
      BY <2>1, <2>3, <3>1, <3>2, <1>2, EffectIsOwn
    <3>3. CASE next[p] = Null
      BY <2>1, <3>1, <3>3, <1>2, EffectIsOwn
    <3> QED BY <3>2, <3>3
  <2> QED BY <2>2, <2>3
<1>6. FetchOwn'
  <2> SUFFICES ASSUME NEW u \in ResourceUrls, inflight'[u] # Null, inflight'[u].owner # Null,
                      ~inflight'[u].aborted
               PROVE  previousUrl'[inflight'[u].owner] = u
    BY DEF FetchOwn
  <2> DEFINE f == inflight[u]
             g == inflight'[u]
  <2>1. \A p \in readers(u) : p \in Panels /\ previousUrl'[p] = u
    BY <1>2, PanelsAssumption DEF ReadersOf
  <2>2. CASE f = Null
    BY <1>3, <2>1, <2>2
  <2>3. CASE f # Null
    <3>1. f \in Fetches /\ ~f.aborted
      BY <2>3 DEF EffectsOf, MicrotasksDone, Aborted, IndInv, PanelInv, PanelsTypeOK
    <3>2. g.owner = f.owner /\ f.owner \notin changed \union gone
      BY <1>3, <2>3
    <3>3. previousUrl[f.owner] = u /\ f.owner \in Panels
      BY <2>3, <3>1, <3>2 DEF IndInv, FetchOwn, Fetches
    <3> QED BY <1>2, <3>2, <3>3
  <2> QED BY <2>2, <2>3
<1>7. HeardStep
  <2> SUFFICES ASSUME NEW p \in Panels, Deaf(p)', ~Deaf(p) PROVE FALSE
    BY DEF HeardStep
  <2>1. state'[p].loading /\ ~(\E u \in ResourceUrls : Awaits(p, u)')
    BY DEF Deaf
  <2>2. p \notin gone
    BY <1>2, <2>1 DEF Blank
  <2>3. CASE p \in changed
    <3>1. next[p] \in ResourceUrls
      <4>1. state'[p] = EffectState(p, next[p]) /\ next[p] \in ResourceUrls \union {Null}
        BY <1>2, <2>2, <2>3
      <4> QED BY <2>1, <4>1, EffectIsOwn
    <3>2. p \in readers(next[p])
      BY <2>2, <2>3 DEF ReadersOf
    <3>3. inflight'[next[p]] # Null
      BY <1>1, <1>2, <3>1, <3>2, JoinedIsThere DEF EffectsOf
    <3>4. p \in inflight'[next[p]].readers
      BY <1>3, <3>1, <3>2, <3>3
    <3> QED BY <1>1, <2>1, <3>1, <3>3, <3>4 DEF Awaits
  <2>4. CASE p \notin changed
    <3>1. state[p].loading
      BY <1>2, <2>1, <2>2, <2>4
    <3>2. PICK u \in ResourceUrls : Awaits(p, u)
      BY <3>1 DEF Deaf
    <3>3. inflight[u] # Null /\ p \in inflight[u].readers /\ url'[p] = u
      BY <1>1, <2>2, <2>4, <3>2 DEF Awaits
    <3>4. inflight'[u] # Null
      BY <1>1, <1>2, <3>3, JoinedIsThere DEF EffectsOf
    <3>5. p \in inflight'[u].readers
      BY <1>3, <2>2, <3>3, <3>4
    <3> QED BY <2>1, <3>3, <3>4, <3>5 DEF Awaits
  <2> QED BY <2>3, <2>4
<1> QED BY <1>4, <1>5, <1>6, <1>7 DEF IndInv

-----------------------------------------------------------------------------
(* A fetch settles: its readers show d, keep what they show, or both.       *)

Delivered(u) ==
    /\ inflight[u] # Null /\ CacheOwn'
    /\ resourceCache' \in [ResourceUrls -> Data \union {Absent}]
    /\ inflight' = [inflight EXCEPT ![u] = Null]
    /\ state' \in [Panels -> StateType]
    /\ UNCHANGED <<mounted, url, previousUrl>>
    /\ \A p \in Panels : p \notin inflight[u].readers => state'[p] = state[p]
    /\ \A p \in inflight[u].readers :
          \/ state'[p].data \in {state[p].data, Null}
          \/ state'[p].data = u /\ ~inflight[u].aborted

LEMMA DeliverPanel ==
    ASSUME PanelInv, NEW u \in ResourceUrls, Delivered(u)
    PROVE  PanelInv'
<1>1. PanelsTypeOK'
  BY DEF Delivered, PanelInv, PanelsTypeOK, StateType
<1>2. UrlsOwn'
  BY DEF Delivered, PanelInv, UrlsOwn
<1> QED BY <1>1, <1>2 DEF Delivered, PanelInv

LEMMA DeliverStep ==
    ASSUME IndInv, NEW u \in ResourceUrls, Delivered(u)
    PROVE  IndInv' /\ OwnStep
<1>1. PanelInv'
  BY DeliverPanel DEF IndInv
<1>2. FetchOwn'
  BY DEF Delivered, IndInv, PanelInv, FetchOwn, PanelsTypeOK
<1>3. OwnStep
  <2> SUFFICES ASSUME NEW p \in mounted
               PROVE  \/ state'[p].data \in {previousUrl[p], Null}
                      \/ state'[p].data = state[p].data
                      \/ Borrows(p, u) /\ inflight'[u] = Null /\ state'[p].data = u
    BY DEF Delivered, OwnStep
  <2>1. inflight'[u] = Null /\ inflight[u] # Null /\ p \in Panels
    BY DEF Delivered, IndInv, PanelInv, PanelsTypeOK
  <2>2. CASE inflight[u].owner = p /\ ~inflight[u].aborted
    <3>1. previousUrl[p] = u
      BY <2>1, <2>2, PanelsAssumption DEF IndInv, FetchOwn
    <3> QED BY <2>1, <3>1 DEF Delivered
  <2>3. CASE inflight[u].owner # p \/ inflight[u].aborted
    BY <2>1, <2>3 DEF Delivered, Borrows
  <2> QED BY <2>2, <2>3
<1> QED BY <1>1, <1>2, <1>3 DEF IndInv

LEMMA SettleDelivers ==
    ASSUME PanelInv, NEW u \in ResourceUrls, Settle(u)
    PROVE  Delivered(u)
<1>1. /\ state \in [Panels -> StateType]
      /\ resourceCache \in [ResourceUrls -> Data \union {Absent}] /\ CacheOwn
  BY DEF PanelInv, PanelsTypeOK, StateType
<1>2. CASE Resolve(u)
  <2>1. PICK data \in {u, Null} :
            /\ inflight[u] # Null /\ Aborted(u) => data = Null
            /\ resourceCache' = [resourceCache EXCEPT ![u] = data]
            /\ inflight' = [inflight EXCEPT ![u] = Null]
            /\ state' = [p \in Panels |-> IF p \in inflight[u].readers THEN Shown(data)
                                          ELSE state[p]]
            /\ UNCHANGED <<mounted, url, previousUrl>>
    BY <1>2 DEF Resolve, DeliverFetch
  <2>2. inflight[u] # Null
    BY <1>2 DEF Resolve
  <2>3. data \in Data /\ Shown(data) \in StateType /\ Shown(data).data = data
    BY DEF Data, Shown, StateType
  <2>4. state' \in [Panels -> StateType]
    BY <1>1, <2>1, <2>3
  <2>5. CacheOwn' /\ resourceCache' \in [ResourceUrls -> Data \union {Absent}]
    BY <1>1, <2>1, <2>3 DEF CacheOwn
  <2>6. inflight[u].readers \in SUBSET Panels
    BY <2>2 DEF PanelInv, PanelsTypeOK, Fetches
  <2>7. \A p \in Panels : state'[p] = IF p \in inflight[u].readers THEN Shown(data) ELSE state[p]
    BY <2>1
  <2>8. \A p \in inflight[u].readers :
              \/ state'[p].data = Null
              \/ state'[p].data = u /\ ~inflight[u].aborted
    BY <2>1, <2>2, <2>3, <2>6, <2>7 DEF Aborted
  <2> QED BY <2>1, <2>2, <2>4, <2>5, <2>7, <2>8 DEF Delivered
<1>3. CASE Reject(u) \/ Abort(u)
  <2> DEFINE Error(p) == [data |-> state[p].data, loading |-> FALSE,
                          stale |-> state[p].data # Null, error |-> TRUE]
  <2>1. /\ inflight[u] # Null /\ UNCHANGED resourceCache
        /\ inflight' = [inflight EXCEPT ![u] = Null]
        /\ UNCHANGED <<mounted, url, previousUrl>>
    BY <1>3 DEF Reject, CanReject, Abort, Aborted, DeliverFetch
  <2>2. \/ state' = [p \in Panels |-> IF p \in inflight[u].readers THEN Error(p) ELSE state[p]]
        \/ state' = [p \in Panels |-> IF p \in inflight[u].readers THEN state[p] ELSE state[p]]
    BY <1>3 DEF Reject, Abort, DeliverFetch
  <2>3. \A p \in Panels : Error(p) \in StateType /\ Error(p).data = state[p].data
    BY <1>1 DEF StateType
  <2> HIDE DEF Error
  <2>4. state' \in [Panels -> StateType]
    BY <1>1, <2>2, <2>3
  <2>5. inflight[u].readers \in SUBSET Panels
    BY <2>1 DEF PanelInv, PanelsTypeOK, Fetches
  <2>6. \A p \in Panels : /\ p \notin inflight[u].readers => state'[p] = state[p]
                          /\ state'[p].data = state[p].data
    BY <2>2, <2>3
  <2>7. CacheOwn'
    BY <1>1, <2>1 DEF CacheOwn
  <2> QED BY <1>1, <2>1, <2>4, <2>5, <2>6, <2>7 DEF Delivered
<1> QED BY <1>2, <1>3 DEF Settle

(* A fetch that settles leaves a panel that waits for it loading only when  *)
(* it has been aborted.                                                     *)
LEMMA SettleHeard ==
    ASSUME PanelInv, NEW u \in ResourceUrls, Settle(u)
    PROVE  HeardStep
<1> SUFFICES ASSUME NEW p \in Panels, Deaf(p)', ~Deaf(p)
             PROVE  \E w \in ResourceUrls : Aborted(w) /\ Awaits(p, w) /\ inflight'[w] = Null
  BY DEF HeardStep
<1>1. /\ inflight[u] # Null /\ inflight' = [inflight EXCEPT ![u] = Null]
      /\ url' = url /\ inflight \in [ResourceUrls -> Fetches \union {Null}]
  BY DEF Settle, Resolve, Reject, CanReject, Abort, Aborted, DeliverFetch, PanelInv, PanelsTypeOK
<1>2. \/ state' = state /\ Aborted(u)
      \/ \A o \in Panels : IF o \in inflight[u].readers THEN state'[o].loading = FALSE
                           ELSE state'[o] = state[o]
  <2>1. CASE Resolve(u)
    BY <2>1 DEF Resolve, DeliverFetch, Shown
  <2>2. CASE Reject(u)
    BY <2>2 DEF Reject, DeliverFetch
  <2>3. CASE Abort(u)
    <3>1. state' = [o \in Panels |-> IF o \in inflight[u].readers THEN state[o] ELSE state[o]]
      BY <2>3 DEF Abort, DeliverFetch
    <3>2. state' = state
      BY <3>1 DEF PanelInv, PanelsTypeOK
    <3> QED BY <2>3, <3>2 DEF Abort
  <2> QED BY <2>1, <2>2, <2>3 DEF Settle
<1>3. state'[p].loading /\ state'[p] = state[p]
  BY <1>2 DEF Deaf
<1>4. PICK w \in ResourceUrls : Awaits(p, w)
  BY <1>3 DEF Deaf
<1>5. w = u
  BY <1>1, <1>4 DEF Deaf, Awaits
<1>6. Aborted(u)
  BY <1>2, <1>3, <1>4, <1>5 DEF Awaits, Deaf
<1> QED BY <1>1, <1>4, <1>5, <1>6

LEMMA FetchStep ==
    ASSUME PanelInv, NEW u \in ResourceUrls, Prefetch(u) \/ Respond(u)
    PROVE  PanelInv' /\ (FetchOwn => FetchOwn') /\ UNCHANGED <<mounted, previousUrl, state>>
<1>1. CASE Prefetch(u)
  <2>1. /\ inflight' = [inflight EXCEPT ![u] = Fetch(Null, {})] /\ u \in Prefetched
        /\ UNCHANGED <<resourceCache, mounted, url, previousUrl, state>>
    BY <1>1 DEF Prefetch
  <2>2. /\ Fetch(Null, {}) \in Fetches /\ Fetch(Null, {}).owner = Null
        /\ Fetch(Null, {}).readers = {}
    BY DEF Fetch, Fetches
  <2>3. PanelsTypeOK'
    BY <2>1, <2>2 DEF PanelInv, PanelsTypeOK
  <2>4. FetchOwn => FetchOwn'
    BY <2>1, <2>2 DEF PanelInv, PanelsTypeOK, FetchOwn
  <2> QED BY <2>1, <2>3, <2>4 DEF PanelInv, UrlsOwn, CacheOwn
<1>2. CASE Respond(u)
  <2>1. PICK body \in {"ok", "failed"} : inflight' = [inflight EXCEPT ![u].body = body]
    BY <1>2 DEF Respond
  <2>2. inflight[u] \in Fetches /\ inflight \in [ResourceUrls -> Fetches \union {Null}]
    BY <1>2 DEF Respond, PanelInv, PanelsTypeOK
  <2> DEFINE g == [inflight[u] EXCEPT !.body = body]
  <2>3. /\ g \in Fetches /\ g.owner = inflight[u].owner /\ g.readers = inflight[u].readers
        /\ g.aborted = inflight[u].aborted
    BY <2>2 DEF Fetches
  <2>4. inflight' = [inflight EXCEPT ![u] = g]
    BY <2>1
  <2> HIDE DEF g
  <2>5. UNCHANGED <<resourceCache, mounted, url, previousUrl, state>> /\ inflight[u] # Null
    BY <1>2 DEF Respond
  <2>6. PanelsTypeOK'
    BY <2>2, <2>3, <2>4, <2>5 DEF PanelInv, PanelsTypeOK
  <2>7. FetchOwn => FetchOwn'
    BY <2>2, <2>3, <2>4, <2>5 DEF FetchOwn
  <2> QED BY <2>5, <2>6, <2>7 DEF PanelInv, UrlsOwn, CacheOwn
<1> QED BY <1>1, <1>2

(* A commit and a retry run effects. *)
LEMMA CommitRunsEffects ==
    ASSUME PanelInv, Commit
    PROVE  \E changed, gone, next : EffectsOf(changed, gone, next)
<1>1. PICK shown \in SUBSET Panels, next \in [Panels -> ResourceUrls \union {Null}] :
          /\ \A p \in Panels : next[p] \in IF p \in shown THEN Shows[p] \union {Null} ELSE {Null}
          /\ RunEffects({p \in shown : p \notin mounted \/ next[p] # url[p]},
                        mounted \ shown, next)
          /\ mounted' = shown /\ url' = next
  BY DEF Commit
<1> DEFINE changed == {p \in shown : p \notin mounted \/ next[p] # url[p]}
           gone == mounted \ shown
<1>2. MicrotasksDone /\ UNCHANGED resourceCache
  BY DEF Commit
<1>3. \A p \in Panels \ mounted : url[p] = Null
  BY DEF PanelInv, PanelsTypeOK
<1>4. \A p \in Panels \ changed : p \notin gone => next[p] = url[p]
  BY <1>1, <1>3
<1>5. mounted \in SUBSET Panels /\ shown = (mounted \union changed) \ gone
  BY DEF PanelInv, PanelsTypeOK
<1>6. EffectsOf(changed, gone, next)
  BY <1>1, <1>2, <1>4, <1>5 DEF EffectsOf
<1> QED BY <1>6

LEMMA RetryRunsEffects ==
    ASSUME PanelInv, NEW p \in Panels, Retry(p)
    PROVE  EffectsOf({p}, {}, url)
<1>1. /\ MicrotasksDone /\ UNCHANGED <<resourceCache, mounted, url>>
      /\ p \in mounted /\ RunEffects({p}, {}, url)
  BY DEF Retry
<1>2. \A o \in Panels : url[o] \in IF o \in mounted THEN Shows[o] \union {Null} ELSE {Null}
  BY DEF PanelInv, PanelsTypeOK, UrlsOwn
<1> QED BY <1>1, <1>2 DEF EffectsOf, PanelInv, PanelsTypeOK

LEMMA StepKeepsPanels == PanelInv /\ [PanelsNext]_panelVars => PanelInv'
<1> SUFFICES ASSUME PanelInv, [PanelsNext]_panelVars PROVE PanelInv'
  OBVIOUS
<1>1. CASE UNCHANGED panelVars
  BY <1>1 DEF panelVars, PanelInv, PanelsTypeOK, UrlsOwn, CacheOwn
<1>2. CASE Commit
  BY <1>2, CommitRunsEffects, EffectsPanel
<1>3. ASSUME NEW p \in Panels, Retry(p) PROVE PanelInv'
  BY <1>3, RetryRunsEffects, EffectsPanel
<1>4. ASSUME NEW u \in ResourceUrls, Settle(u) PROVE PanelInv'
  BY <1>4, SettleDelivers, DeliverPanel
<1> QED BY <1>1, <1>2, <1>3, <1>4, FetchStep DEF PanelsNext

(* A fetch that begins or is answered changes nothing that a panel shows. *)
LEMMA UnseenStep ==
    ASSUME PanelInv, UNCHANGED <<mounted, url, previousUrl, state>>,
           \A p \in Panels, u \in ResourceUrls : Awaits(p, u) => Awaits(p, u)'
    PROVE  OwnStep /\ HeardStep
BY DEF OwnStep, HeardStep, Deaf

LEMMA FetchKeepsReaders ==
    ASSUME PanelInv, NEW w \in ResourceUrls, Prefetch(w) \/ Respond(w)
    PROVE  \A p \in Panels, u \in ResourceUrls : Awaits(p, u) => Awaits(p, u)'
<1>1. inflight \in [ResourceUrls -> Fetches \union {Null}] /\ UNCHANGED url
  BY DEF PanelInv, PanelsTypeOK, Prefetch, Respond
<1>2. CASE Prefetch(w)
  BY <1>1, <1>2 DEF Prefetch, Awaits
<1>3. CASE Respond(w)
  <2>1. PICK body \in {"ok", "failed"} : inflight' = [inflight EXCEPT ![w].body = body]
    BY <1>3 DEF Respond
  <2>2. inflight[w] \in Fetches
    BY <1>1, <1>3 DEF Respond
  <2>3. [inflight[w] EXCEPT !.body = body] # Null
    <3>1. [inflight[w] EXCEPT !.body = body] \in Fetches
      BY <2>2 DEF Fetches
    <3> QED BY <3>1, PanelsAssumption
  <2>4. inflight'[w] # Null /\ inflight'[w].readers = inflight[w].readers
    BY <1>1, <2>1, <2>2, <2>3 DEF Fetches
  <2> QED BY <1>1, <2>1, <2>4 DEF Awaits
<1> QED BY <1>2, <1>3

LEMMA StepKeepsInv == IndInv /\ [PanelsNext]_panelVars => IndInv' /\ OwnStep /\ HeardStep
<1> SUFFICES ASSUME IndInv, [PanelsNext]_panelVars PROVE IndInv' /\ OwnStep /\ HeardStep
  OBVIOUS
<1>1. PanelInv
  BY DEF IndInv
<1>2. CASE UNCHANGED panelVars
  <2>1. PanelInv'
    BY <1>1, <1>2, StepKeepsPanels
  <2>2. OwnStep /\ HeardStep
    BY <1>1, <1>2, UnseenStep DEF panelVars, Awaits
  <2> QED BY <1>2, <2>1, <2>2 DEF panelVars, IndInv, FetchOwn
<1>3. CASE Commit
  BY <1>1, <1>3, CommitRunsEffects, EffectsStep
<1>4. ASSUME NEW p \in Panels, Retry(p) PROVE IndInv' /\ OwnStep /\ HeardStep
  BY <1>1, <1>4, RetryRunsEffects, EffectsStep
<1>5. ASSUME NEW u \in ResourceUrls, Settle(u) PROVE IndInv' /\ OwnStep /\ HeardStep
  BY <1>1, <1>5, SettleDelivers, SettleHeard, DeliverStep
<1>6. ASSUME NEW u \in ResourceUrls, Prefetch(u) \/ Respond(u) PROVE IndInv' /\ OwnStep /\ HeardStep
  <2>1. PanelInv' /\ FetchOwn' /\ UNCHANGED <<mounted, url, previousUrl, state>>
    BY <1>1, <1>6, FetchStep DEF IndInv, Prefetch, Respond
  <2>2. OwnStep /\ HeardStep
    BY <1>1, <1>6, <2>1, FetchKeepsReaders, UnseenStep
  <2> QED BY <2>1, <2>2 DEF IndInv
<1> QED BY <1>2, <1>3, <1>4, <1>5, <1>6 DEF PanelsNext

-----------------------------------------------------------------------------
(* Whatever urls the panels share: the readers of a fetch are mounted, the  *)
(* cache keeps data, and a panel that is gone shows and asks for nothing.   *)
THEOREM PanelsTypeCorrect == PanelsSpec => []PanelsTypeOK
<1>1. PanelsInit => PanelInv
  BY InitInv DEF IndInv
<1>2. PanelInv => PanelsTypeOK
  BY DEF PanelInv
<1> QED BY <1>1, <1>2, StepKeepsPanels, PTL DEF PanelsSpec

(* Whatever urls the panels share and prefetch: what a panel newly shows is *)
(* the data of its own last url, unless a fetch that somebody else began   *)
(* brings it.                                                               *)
THEOREM OwnDataOnly == PanelsSpec => ShowsOwnData
<1>1. IndInv /\ [PanelsNext]_panelVars => [OwnStep]_panelVars
  BY StepKeepsInv
<1> QED BY InitInv, StepKeepsInv, <1>1, PTL DEF PanelsSpec, ShowsOwnData, OwnStep

(* A panel that loads waits for a fetch of its url, until that fetch is     *)
(* aborted: no effect, no late answer and no prefetch makes it deaf.       *)
THEOREM DeafOnlyByAbort == PanelsSpec => DeafByAbort
<1>1. IndInv /\ [PanelsNext]_panelVars => [HeardStep]_panelVars
  BY StepKeepsInv
<1> QED BY InitInv, StepKeepsInv, <1>1, PTL DEF PanelsSpec, DeafByAbort, HeardStep

-----------------------------------------------------------------------------
(* Signing in.                                                              *)

\* Where a browser may be sent.
Places == {address \in Urls : address.path # "provider"}

Jars == [session : Tokens \union {None}, state : Codes, target : Apps]
FlowType == [provider : {"google", "github"}, email : Accounts]
CallbackType == [flow : Nat, code : Codes, state : Codes, target : Apps,
                 step : {"sent", "exchange", "answered"}, at : Replicas \union {None},
                 to : Places, cookies : {"kept", "expired", "session"}]

(* A tab that waits for a callback is at it, and one at a provider or at a  *)
(* callback is there for a flow.                                            *)
TabOK ==
    /\ tab \in [url : Urls, loading : BOOLEAN, request : Nat]
    /\ tab.request \in 0..Len(requests)
    /\ tab.request # 0 => tab.loading /\ tab.url.path = "callback"
    /\ tab.url.path = "provider" => tab.url.code \in 1..Len(flows)

(* A callback is of a flow, at a replica while it is exchanged, without an  *)
(* answer until then, and one that expires the cookies leads to the error  *)
(* page.                                                                    *)
CallbackOK(r) ==
    /\ requests[r].flow \in 1..Len(flows)
    /\ requests[r].step = "exchange" => requests[r].at \in Replicas
    /\ requests[r].step # "answered" => requests[r].cookies = "kept"
    /\ requests[r].cookies = "expired" => requests[r].to.path = "error"

Typed ==
    /\ jar \in Jars /\ TabOK
    /\ flows \in Seq(FlowType) /\ Len(flows) <= MaxAttempts
    /\ requests \in Seq(CallbackType)
    /\ \A r \in 1..Len(requests) : CallbackOK(r)
    /\ memory \in [Replicas -> [Codes -> Places \union {None}]]

-----------------------------------------------------------------------------
LEMMA Bounds == MaxAttempts \in Nat /\ Codes = 0..MaxAttempts /\ 0 \in Codes
  BY SignInAssumption DEF SignInAssumption, Codes

LEMMA UrlType ==
    /\ \A path \in Apps \union {"signin", "error", "failed", "provider", "callback"} :
          /\ Url(path) \in Urls /\ (path # "provider" => Url(path) \in Places)
          /\ Url(path).path = path /\ Url(path).code = 0
          /\ \A target \in Targets : /\ [Url(path) EXCEPT !.target = target] \in Urls
                                     /\ [Url(path) EXCEPT !.target = target].path = path
          /\ \A code \in Codes : [Url(path) EXCEPT !.code = code] \in Urls
    /\ \A target \in Targets \union {None} :
          /\ normalizeCallbackTarget(target) \in Apps
          /\ buildSignInRedirectUrl(target) \in Places /\ buildSignInRedirectUrl(target).path = "signin"
    /\ buildAuthErrorUrl \in Places /\ buildAuthErrorUrl.path = "error"
    /\ Apps \subseteq Targets
<1>1. \A target : normalizeCallbackTarget(target) \in Apps BY DEF normalizeCallbackTarget, Apps
<1> QED BY <1>1, Bounds DEF Url, Urls, Places, Apps, Targets, buildSignInRedirectUrl, buildAuthErrorUrl

LEMMA TokenType ==
    /\ \A email \in Accounts : jwt(email) \in Tokens
    /\ None \notin Tokens
<1>1. \A email : resolveRole(email) \in {"admin", "member"} BY DEF resolveRole
<1> QED BY <1>1, SignInAssumption DEF SignInAssumption, jwt, Tokens

LEMMA FlowEmail == Typed => \A f \in 1..Len(flows) : flows[f].email \in Accounts
<1> SUFFICES ASSUME Typed, NEW f \in 1..Len(flows) PROVE flows[f].email \in Accounts OBVIOUS
<1>1. flows[f] \in FlowType BY DEF Typed
<1> QED BY <1>1 DEF FlowType

LEMMA ServedType ==
    ASSUME NEW address \in Urls
    PROVE  Served(address) \in Urls /\ (Served(address) = address \/ Served(address).path \in Apps \union {"signin"})
<1>1. /\ address.target \in Targets \union {None} /\ "admin" \in Targets
      /\ Places \subseteq Urls
  BY DEF Urls, Targets, Apps, Places
<1> QED BY <1>1, UrlType DEF Served

(* An answer changes the request it answers. *)
LEMMA AnswerType ==
    ASSUME requests \in Seq(CallbackType), NEW r \in 1..Len(requests), NEW to \in Places,
           NEW cookies \in {"kept", "expired", "session"}, Answer(r, to, cookies)
    PROVE  /\ requests' \in Seq(CallbackType) /\ Len(requests') = Len(requests)
           /\ \A s \in 1..Len(requests) : s # r => requests'[s] = requests[s]
           /\ requests'[r].step = "answered" /\ requests'[r].to = to /\ requests'[r].cookies = cookies
           /\ requests'[r].code = requests[r].code /\ requests'[r].flow = requests[r].flow
<1> DEFINE q == [requests[r] EXCEPT !.step = "answered", !.to = to, !.cookies = cookies]
<1>1. requests[r] \in CallbackType OBVIOUS
<1>2. /\ q \in CallbackType /\ q.step = "answered" /\ q.to = to /\ q.cookies = cookies
      /\ q.code = requests[r].code /\ q.flow = requests[r].flow
  BY <1>1 DEF CallbackType
<1>3. requests' = [requests EXCEPT ![r] = q] BY <1>1 DEF Answer, CallbackType
<1> HIDE DEF q
<1> QED BY <1>2, <1>3

(* A request is appended. *)
LEMMA RequestType ==
    ASSUME Typed, NEW flow \in 1..Len(flows), NEW code \in Codes, Request(flow, code)
    PROVE  /\ Typed' /\ Len(requests') = Len(requests) + 1
           /\ \A s \in 1..Len(requests) : requests'[s] = requests[s]
<1> DEFINE q == [flow |-> flow, code |-> code, state |-> jar.state, target |-> jar.target,
                 step |-> "sent", at |-> None, to |-> Url("failed"), cookies |-> "kept"]
<1>1. q \in CallbackType BY UrlType DEF Typed, Jars, CallbackType
<1>2. requests' = Append(requests, q) BY DEF Request
<1>3. /\ requests' \in Seq(CallbackType) /\ Len(requests') = Len(requests) + 1 /\ Len(requests) \in Nat
      /\ \A s \in 1..Len(requests) : requests'[s] = requests[s]
      /\ requests'[Len(requests) + 1] = q
  BY <1>1, <1>2 DEF Typed
<1>4. flow \in Codes /\ flow \in Nat BY Bounds DEF Typed
<1>5. TabOK'
  <2> DEFINE u == [Url("callback") EXCEPT !.code = flow]
  <2>1. u \in Urls /\ u.path = "callback" BY <1>4, UrlType DEF Url
  <2>2. tab' = [url |-> u, loading |-> TRUE, request |-> Len(requests')] BY DEF Request
  <2> HIDE DEF u
  <2>3. /\ tab'.url = u /\ tab'.loading = TRUE /\ tab'.request = Len(requests')
        /\ tab' \in [url : Urls, loading : BOOLEAN, request : Nat]
    BY <2>1, <2>2, <1>3
  <2> QED BY <1>3, <2>1, <2>3 DEF TabOK
<1>6. ASSUME NEW r \in 1..Len(requests') PROVE CallbackOK(r)'
  <2>1. flows' = flows BY DEF Request
  <2>2. CASE r \in 1..Len(requests)
    <3>1. CallbackOK(r) /\ requests'[r] = requests[r] BY <2>2, <1>3 DEF Typed
    <3> QED BY <3>1, <2>1 DEF CallbackOK
  <2>3. CASE r = Len(requests) + 1
    <3>1. requests'[r] = q BY <2>3, <1>3
    <3> QED BY <3>1, <2>1 DEF CallbackOK
  <2> QED BY <1>3, <2>2, <2>3
<1> HIDE DEF q
<1>7. jar' = jar /\ flows' = flows /\ memory' = memory BY DEF Request
<1> QED BY <1>3, <1>5, <1>6, <1>7 DEF Typed

-----------------------------------------------------------------------------
(* The tab and the callbacks of the steps that leave the others alone.      *)

LEMMA GoType ==
    ASSUME Typed, NEW address \in Places, Go(address), UNCHANGED <<flows, requests>>
    PROVE  TabOK'
<1>1. /\ tab'.url = address /\ tab'.loading = TRUE /\ tab'.request = 0 /\ Len(requests') \in Nat
      /\ tab' \in [url : Urls, loading : BOOLEAN, request : Nat] /\ address.path # "provider"
  BY DEF Go, Typed, Places
<1> QED BY <1>1 DEF TabOK

LEMMA CallbacksStay ==
    ASSUME Typed, UNCHANGED requests, Len(flows') >= Len(flows), Len(flows') \in Nat
    PROVE  /\ requests' \in Seq(CallbackType)
           /\ \A r \in 1..Len(requests') : CallbackOK(r)'
  BY DEF Typed, CallbackOK

(* What a step of the callbacks does to those there are: their codes stay,  *)
(* an answer given stays.                                                   *)
AnswersStay ==
    /\ Len(requests') >= Len(requests)
    /\ \A s \in 1..Len(requests) : /\ requests'[s].code = requests[s].code
                                   /\ requests[s].step = "answered" => requests'[s] = requests[s]

-----------------------------------------------------------------------------
THEOREM TypedInit == Init => Typed
<1> SUFFICES ASSUME Init PROVE Typed OBVIOUS
<1>1. jar \in Jars BY Bounds DEF Init, Jars, Apps
<1>2. TabOK
  <2>1. Url("home") \in Urls /\ Url("home").path = "home" BY UrlType DEF Apps
  <2> QED BY <2>1 DEF Init, TabOK
<1>3. flows = << >> /\ requests = << >> /\ Len(flows) = 0 /\ Len(requests) = 0 BY DEF Init
<1>4. memory \in [Replicas -> [Codes -> Places \union {None}]] BY DEF Init
<1> QED BY <1>1, <1>2, <1>3, <1>4, Bounds DEF Typed

(* The steps of the browser. *)
LEMMA BrowserTyped ==
    ASSUME Typed, \/ Visit \/ Serve \/ EndSession \/ Unauthorized \/ Cooldown
                  \/ \E email \in Accounts : DemoAccess(email)
    PROVE  Typed' /\ AnswersStay
<1>1. /\ UNCHANGED <<flows, requests, memory>> /\ Len(flows) \in Nat /\ Len(requests) \in Nat
  BY DEF Visit, Serve, EndSession, Unauthorized, Cooldown, DemoAccess, server, Typed
<1>2. requests' \in Seq(CallbackType) /\ (\A r \in 1..Len(requests') : CallbackOK(r)')
  BY <1>1, CallbacksStay
<1>3. SUFFICES jar' \in Jars /\ TabOK'
  BY <1>1, <1>2 DEF Typed, AnswersStay
<1>4. tab.url \in Urls /\ tab.url.target \in Targets \union {None} BY DEF Typed, TabOK, Urls
<1>5. ASSUME UNCHANGED tab PROVE TabOK' BY <1>1, <1>5 DEF Typed, TabOK
<1>6. jar \in Jars /\ jar.session \in Tokens \union {None} BY DEF Typed, Jars
<1>7. ASSUME NEW token \in Tokens \union {None}, jar' = [jar EXCEPT !.session = token] PROVE jar' \in Jars
  BY <1>6, <1>7 DEF Jars
<1>8. CASE Visit
  <2>1. jar' = jar BY <1>8 DEF Visit
  <2>2. PICK address \in Places : Go(address)
    <3>1. CASE \E path \in Apps : Go(Url(path)) BY <3>1, UrlType DEF Apps
    <3>2. CASE \E path \in {"signin", "error"}, target \in Targets : Go([Url(path) EXCEPT !.target = target])
      <4>1. PICK path \in {"signin", "error"}, target \in Targets : Go([Url(path) EXCEPT !.target = target])
        BY <3>2
      <4>2. [Url(path) EXCEPT !.target = target] \in Places BY <4>1, UrlType DEF Places
      <4> QED BY <4>1, <4>2
    <3> QED BY <1>8, <3>1, <3>2 DEF Visit
  <2> QED BY <1>1, <1>6, <2>1, <2>2, GoType
<1>9. CASE Serve
  <2>1. jar' = jar /\ tab.request = 0 BY <1>9 DEF Serve
  <2> DEFINE u == Served(tab.url)
  <2>2. u \in Urls /\ (u = tab.url \/ u.path \in Apps \union {"signin"}) BY <1>4, ServedType
  <2>3. tab' = [tab EXCEPT !.url = u, !.loading = u # tab.url] BY <1>9 DEF Serve
  <2> HIDE DEF u
  <2>4. (u # tab.url) \in BOOLEAN BY Zenon
  <2>5. tab \in [url : Urls, loading : BOOLEAN, request : Nat] BY DEF Typed, TabOK
  <2>6. /\ tab'.url = u /\ tab'.request = 0 /\ tab' \in [url : Urls, loading : BOOLEAN, request : Nat]
    BY <2>1, <2>2, <2>3, <2>4, <2>5
  <2> QED BY <1>1, <1>6, <2>1, <2>2, <2>6 DEF TabOK, Typed, Apps
<1>10. CASE EndSession BY <1>5, <1>7, <1>10 DEF EndSession
<1>11. CASE Unauthorized
  <2>1. CASE recovery = tab.url.path BY <1>5, <1>7, <1>11, <2>1 DEF Unauthorized
  <2>2. CASE recovery # tab.url.path
    <3>1. jar' = jar /\ Go(buildSignInRedirectUrl(tab.url.path)) /\ tab.url.path = "admin"
      BY <1>11, <2>2 DEF Unauthorized, At
    <3>2. buildSignInRedirectUrl(tab.url.path) \in Places BY <3>1, UrlType DEF Targets, Apps
    <3> QED BY <1>1, <1>6, <3>1, <3>2, GoType
  <2> QED BY <2>1, <2>2
<1>12. CASE Cooldown BY <1>5, <1>6, <1>12 DEF Cooldown
<1>13. CASE \E email \in Accounts : DemoAccess(email)
  <2>1. PICK email \in Accounts : DemoAccess(email) BY <1>13
  <2>2. jar' \in Jars BY <1>7, <2>1, TokenType DEF DemoAccess
  <2>3. Url(normalizeCallbackTarget(tab.url.target)) \in Places BY <1>4, UrlType DEF Apps
  <2> QED BY <1>1, <2>1, <2>2, <2>3, GoType DEF DemoAccess
<1> QED BY <1>8, <1>9, <1>10, <1>11, <1>12, <1>13

(* A flow begins. *)
LEMMA ContinueTyped ==
    ASSUME Typed, NEW p \in {"google", "github"}, NEW email \in Accounts, Continue(p, email)
    PROVE  Typed' /\ AnswersStay
<1> DEFINE f == [provider |-> p, email |-> email]
<1> DEFINE n == Len(flows')
<1>1. f \in FlowType BY DEF FlowType
<1>2. flows' = Append(flows, f) /\ Len(flows) < MaxAttempts BY DEF Continue
<1> HIDE DEF f
<1>3. flows' \in Seq(FlowType) /\ n = Len(flows) + 1 /\ Len(flows) \in Nat BY <1>1, <1>2 DEF Typed
<1>4. n \in Codes /\ n \in 1..n /\ n <= MaxAttempts BY <1>2, <1>3, Bounds
<1>5. UNCHANGED <<requests, memory>> /\ Len(requests) \in Nat BY DEF Continue, Typed
<1>6. requests' \in Seq(CallbackType) /\ (\A r \in 1..Len(requests') : CallbackOK(r)')
  BY <1>3, <1>5, CallbacksStay
<1>7. tab.url.target \in Targets \union {None} /\ tab.request = 0
  BY DEF Typed, TabOK, Urls, Continue, At
<1>8. jar' \in Jars
  <2>1. jar' = [jar EXCEPT !.state = n, !.target = normalizeCallbackTarget(tab.url.target)] BY DEF Continue
  <2>2. normalizeCallbackTarget(tab.url.target) \in Apps /\ jar \in Jars BY <1>7, UrlType DEF Typed
  <2> QED BY <2>1, <2>2, <1>4 DEF Jars
<1>9. TabOK'
  <2> DEFINE u == [Url("provider") EXCEPT !.code = n]
  <2>1. u \in Urls /\ u.code = n BY <1>4, UrlType DEF Url
  <2>2. tab' = [tab EXCEPT !.url = u] BY DEF Continue
  <2> HIDE DEF u, n
  <2>3. /\ tab'.url = u /\ tab'.request = 0 /\ tab' \in [url : Urls, loading : BOOLEAN, request : Nat]
    BY <1>7, <2>1, <2>2 DEF Typed, TabOK
  <2> QED BY <1>4, <1>5, <2>1, <2>3 DEF TabOK, n
<1> QED BY <1>3, <1>4, <1>5, <1>6, <1>8, <1>9 DEF Typed, AnswersStay

(* A callback is requested, for the first time or again. *)
LEMMA RequestTyped ==
    ASSUME Typed, Reload \/ Back \/ \E code \in Codes : Return(code)
    PROVE  Typed' /\ AnswersStay /\ memory' = memory
<1>1. \A r \in 1..Len(requests) : requests[r].flow \in 1..Len(flows) /\ requests[r].code \in Codes
  <2> SUFFICES ASSUME NEW r \in 1..Len(requests)
               PROVE  requests[r].flow \in 1..Len(flows) /\ requests[r].code \in Codes OBVIOUS
  <2>1. requests[r] \in CallbackType /\ CallbackOK(r) BY DEF Typed
  <2> QED BY <2>1 DEF CallbackOK, CallbackType
<1>2. PICK flow \in 1..Len(flows), code \in Codes : Request(flow, code)
  <2>1. CASE Reload
    <3>1. tab.request \in 1..Len(requests) BY <2>1 DEF Reload, Typed, TabOK
    <3> QED BY <1>1, <2>1, <3>1 DEF Reload
  <2>2. CASE Back BY <1>1, <2>2 DEF Back
  <2>3. CASE \E code \in Codes : Return(code) BY <2>3 DEF Return, At, Typed, TabOK
  <2> QED BY <2>1, <2>2, <2>3
<1>3. Typed' /\ (\A s \in 1..Len(requests) : requests'[s] = requests[s]) /\ Len(requests') = Len(requests) + 1
  BY <1>2, RequestType
<1>4. Len(requests) \in Nat BY DEF Typed
<1> QED BY <1>2, <1>3, <1>4 DEF AnswersStay, Request

-----------------------------------------------------------------------------
(* The replicas. *)

(* An answer is given to a callback that had none. *)
LEMMA AnsweredTyped ==
    ASSUME Typed, NEW r \in 1..Len(requests), requests[r].step # "answered", NEW to \in Places,
           NEW cookies \in {"kept", "expired", "session"}, cookies = "expired" => to.path = "error",
           Answer(r, to, cookies), UNCHANGED <<jar, tab, flows>>,
           memory' \in [Replicas -> [Codes -> Places \union {None}]]
    PROVE  Typed' /\ AnswersStay
<1> requests \in Seq(CallbackType) /\ Len(requests) \in Nat BY DEF Typed
<1>1. /\ requests' \in Seq(CallbackType) /\ Len(requests') = Len(requests)
      /\ \A s \in 1..Len(requests) : s # r => requests'[s] = requests[s]
      /\ requests'[r].step = "answered" /\ requests'[r].to = to /\ requests'[r].cookies = cookies
      /\ requests'[r].code = requests[r].code /\ requests'[r].flow = requests[r].flow
  BY AnswerType
<1>2. ASSUME NEW s \in 1..Len(requests') PROVE CallbackOK(s)'
  <2>1. CallbackOK(s) BY <1>1 DEF Typed
  <2>2. CASE s = r BY <1>1, <2>1, <2>2 DEF CallbackOK
  <2>3. CASE s # r
    <3>1. requests'[s] = requests[s] BY <1>1, <2>3
    <3> QED BY <2>1, <3>1 DEF CallbackOK
  <2> QED BY <2>2, <2>3
<1>3. TabOK' BY <1>1 DEF Typed, TabOK
<1>4. AnswersStay BY <1>1 DEF AnswersStay
<1> QED BY <1>1, <1>2, <1>3, <1>4 DEF Typed

(* What a replica remembers of an answer is that answer. *)
LEMMA RememberTyped ==
    ASSUME Typed, NEW r \in 1..Len(requests), Exchanges(r), NEW to \in Places, NEW cookies,
           rememberSuccessfulGoogleCallback(r, to, cookies)
    PROVE  /\ memory' \in [Replicas -> [Codes -> Places \union {None}]]
           /\ \A w \in Replicas, c \in Codes :
                memory'[w][c] # memory[w][c] => memory'[w][c] = to /\ requests[r].code = c
<1>1. requests[r] \in CallbackType /\ CallbackOK(r) BY DEF Typed
<1>2. requests[r].at \in Replicas /\ requests[r].code \in Codes
  BY <1>1 DEF CallbackOK, CallbackType, Exchanges
<1>3. memory \in [Replicas -> [Codes -> Places \union {None}]] BY DEF Typed
<1>4. CASE UNCHANGED memory BY <1>3, <1>4
<1>5. CASE memory' = [memory EXCEPT ![requests[r].at][requests[r].code] = to] BY <1>2, <1>3, <1>5
<1> QED BY <1>4, <1>5 DEF rememberSuccessfulGoogleCallback

(* A new memory is what it was, or the page of a code that has succeeded,   *)
(* or forgotten, or no page of the app.                                     *)
RememberedAsAnswered ==
    \A w \in Replicas, c \in Codes :
       \/ memory'[w][c] \in {memory[w][c], None}
       \/ memory'[w][c].path \notin Apps
       \/ Succeeded(c)'

LEMMA CallbackTyped ==
    ASSUME Typed, NEW r \in 1..Len(requests), Callback(r)
    PROVE  Typed' /\ AnswersStay /\ RememberedAsAnswered
<1>1. /\ requests[r] \in CallbackType /\ CallbackOK(r) /\ Len(requests) \in Nat
      /\ memory \in [Replicas -> [Codes -> Places \union {None}]]
  BY DEF Typed
<1>2. requests[r].code \in Codes /\ requests[r].target \in Apps /\ requests[r].to \in Places
  BY <1>1 DEF CallbackType
<1>3. /\ Url(requests[r].target) \in Places /\ buildAuthErrorUrl \in Places /\ Url("failed") \in Places
      /\ buildSignInRedirectUrl("home") \in Places /\ buildAuthErrorUrl.path = "error"
  BY <1>2, UrlType DEF Apps, Targets
<1>4. ASSUME UNCHANGED memory PROVE RememberedAsAnswered BY <1>4 DEF RememberedAsAnswered
<1>5. ASSUME NEW w \in Replicas, Arrive(r, w) PROVE Typed' /\ AnswersStay /\ RememberedAsAnswered
  <2>1. requests[r].step = "sent" /\ UNCHANGED <<jar, tab, flows, memory>> BY <1>5 DEF Arrive
  <2> DEFINE known == resolveSuccessfulGoogleCallback(r, w)
  <2>2. CASE known # None
    <3>1. known \in Places BY <1>1, <1>2, <2>2 DEF resolveSuccessfulGoogleCallback
    <3>2. Answer(r, known, "kept") BY <1>5, <2>2 DEF Arrive
    <3> HIDE DEF known
    <3> QED BY <1>1, <1>4, <2>1, <3>1, <3>2, AnsweredTyped
  <2>3. CASE known = None
    <3> DEFINE q == [requests[r] EXCEPT !.step = "exchange", !.at = w]
    <3>1. requests' = [requests EXCEPT ![r] = q] BY <1>1, <1>5, <2>3 DEF Arrive, CallbackType
    <3>2. /\ q \in CallbackType /\ q.flow = requests[r].flow /\ q.at = w /\ q.step = "exchange"
          /\ q.cookies = requests[r].cookies /\ q.to = requests[r].to /\ q.code = requests[r].code
      BY <1>1 DEF CallbackType
    <3> HIDE DEF q, known
    <3>3. /\ requests' \in Seq(CallbackType) /\ Len(requests') = Len(requests) /\ requests'[r] = q
          /\ \A s \in 1..Len(requests) : s # r => requests'[s] = requests[s]
      BY <3>1, <3>2 DEF Typed
    <3>4. ASSUME NEW s \in 1..Len(requests') PROVE CallbackOK(s)'
      <4>1. CallbackOK(s) BY <3>3 DEF Typed
      <4>2. CASE s = r BY <1>1, <2>1, <3>2, <3>3, <4>2 DEF CallbackOK
      <4>3. CASE s # r
        <5>1. requests'[s] = requests[s] BY <3>3, <4>3
        <5> QED BY <2>1, <4>1, <5>1 DEF CallbackOK
      <4> QED BY <4>2, <4>3
    <3>5. TabOK' BY <2>1, <3>3 DEF Typed, TabOK
    <3>6. AnswersStay BY <1>1, <2>1, <3>2, <3>3 DEF AnswersStay
    <3> QED BY <1>1, <1>4, <2>1, <3>3, <3>4, <3>5, <3>6 DEF Typed
  <2> QED BY <2>2, <2>3
<1>6. CASE Succeed(r)
  <2> DEFINE to == Url(requests[r].target)
  <2>1. /\ requests[r].step = "exchange" /\ UNCHANGED <<jar, tab, flows>> /\ Answer(r, to, "session")
        /\ rememberSuccessfulGoogleCallback(r, to, "session") /\ to \in Places
    BY <1>3, <1>6 DEF Succeed, Exchanges
  <2> HIDE DEF to
  <2>2. /\ memory' \in [Replicas -> [Codes -> Places \union {None}]]
        /\ \A w \in Replicas, c \in Codes : memory'[w][c] # memory[w][c] => requests[r].code = c
    BY <2>1, RememberTyped DEF Exchanges
  <2>3. Typed' /\ AnswersStay BY <2>1, <2>2, AnsweredTyped
  <2>4. ASSUME NEW c \in Codes, c = requests[r].code PROVE Succeeded(c)'
    <3>1. /\ requests'[r].cookies = "session" /\ requests'[r].code = requests[r].code
          /\ Len(requests') = Len(requests)
      BY <2>1, AnswerType DEF Typed
    <3> QED BY <2>4, <3>1 DEF Succeeded
  <2>5. RememberedAsAnswered BY <2>2, <2>4 DEF RememberedAsAnswered
  <2> QED BY <2>3, <2>5
<1>7. CASE Refuse(r)
  <2>1. requests[r].step = "exchange" /\ UNCHANGED <<jar, tab, flows>> BY <1>7 DEF Refuse, Exchanges
  <2>2. CASE isGoogleCallbackRequest(r)
    <3>1. /\ Answer(r, buildAuthErrorUrl, "expired")
          /\ rememberSuccessfulGoogleCallback(r, buildAuthErrorUrl, "expired")
      BY <1>7, <2>2 DEF Refuse, ErrorLocation
    <3>2. /\ memory' \in [Replicas -> [Codes -> Places \union {None}]]
          /\ \A w \in Replicas, c \in Codes :
               memory'[w][c] # memory[w][c] => memory'[w][c] = buildAuthErrorUrl
      BY <1>3, <2>1, <3>1, RememberTyped DEF Exchanges
    <3>3. RememberedAsAnswered BY <1>3, <3>2 DEF RememberedAsAnswered, Apps
    <3> QED BY <1>3, <2>1, <3>1, <3>2, <3>3, AnsweredTyped
  <2>3. CASE ~isGoogleCallbackRequest(r)
    <3>1. Answer(r, buildSignInRedirectUrl("home"), "kept") /\ UNCHANGED memory BY <1>7, <2>3 DEF Refuse
    <3> QED BY <1>1, <1>3, <1>4, <2>1, <3>1, AnsweredTyped
  <2> QED BY <2>2, <2>3
<1>8. CASE Throw(r)
  <2>1. requests[r].step = "exchange" /\ UNCHANGED <<jar, tab, flows, memory>> BY <1>8 DEF Throw, Exchanges
  <2>2. CASE Answer(r, buildAuthErrorUrl, "expired") BY <1>1, <1>3, <1>4, <2>1, <2>2, AnsweredTyped
  <2>3. CASE Answer(r, Url("failed"), "kept") BY <1>1, <1>3, <1>4, <2>1, <2>3, AnsweredTyped
  <2> QED BY <1>8, <2>2, <2>3 DEF Throw, ErrorLocation
<1>9. CASE Deliver(r)
  <2>1. UNCHANGED <<flows, requests, memory>> /\ Go(requests[r].to) BY <1>9 DEF Deliver, server
  <2>2. TabOK' BY <1>2, <2>1, GoType
  <2>3. requests[r].flow \in 1..Len(flows) BY <1>1 DEF CallbackOK
  <2>4. flows[requests[r].flow].email \in Accounts BY <2>3, FlowEmail
  <2>5. jar' \in Jars
    <3>1. jwt(flows[requests[r].flow].email) \in Tokens BY <2>4, TokenType
    <3> QED BY <1>9, <3>1, Bounds DEF Typed, Jars, Apps, Deliver
  <2>6. requests' \in Seq(CallbackType) /\ (\A s \in 1..Len(requests') : CallbackOK(s)')
    BY <2>1, CallbacksStay DEF Typed
  <2> QED BY <1>1, <1>4, <2>1, <2>2, <2>5, <2>6 DEF Typed, AnswersStay
<1> QED BY <1>5, <1>6, <1>7, <1>8, <1>9 DEF Callback

(* A replica forgets. *)
LEMMA ForgetTyped ==
    ASSUME Typed, NEW w \in Replicas, Restart(w) \/ \E c \in Codes : pruneSuccessfulGoogleCallbacks(w, c)
    PROVE  Typed' /\ AnswersStay /\ RememberedAsAnswered
<1>1. /\ memory \in [Replicas -> [Codes -> Places \union {None}]]
      /\ Len(requests) \in Nat /\ Len(flows) \in Nat
  BY DEF Typed
<1>2. UNCHANGED <<jar, tab, flows>> BY DEF Restart, pruneSuccessfulGoogleCallbacks
<1>3. CASE Restart(w)
  <2>1. /\ memory' \in [Replicas -> [Codes -> Places \union {None}]]
        /\ \A v \in Replicas, c \in Codes : memory'[v][c] \in {memory[v][c], None}
    BY <1>1, <1>3 DEF Restart
  <2> DEFINE hit(r) == requests[r].at = w /\ requests[r].step = "exchange"
  <2> DEFINE q(r) == IF hit(r) THEN [requests[r] EXCEPT !.step = "answered"] ELSE requests[r]
  <2>2. requests' = [r \in 1..Len(requests) |-> q(r)] BY <1>3 DEF Restart, Typed
  <2>3. ASSUME NEW r \in 1..Len(requests)
        PROVE  /\ q(r) \in CallbackType /\ q(r).flow = requests[r].flow /\ q(r).code = requests[r].code
               /\ q(r).cookies = requests[r].cookies /\ q(r).to = requests[r].to /\ q(r).at = requests[r].at
               /\ q(r) = requests[r] \/ (q(r).step = "answered" /\ requests[r].step = "exchange")
    <3>1. requests[r] \in CallbackType BY DEF Typed
    <3> QED BY <3>1 DEF CallbackType
  <2> HIDE DEF q, hit
  <2>4. /\ requests' \in Seq(CallbackType) /\ Len(requests') = Len(requests)
        /\ \A r \in 1..Len(requests) : requests'[r] = q(r)
    BY <1>1, <2>2, <2>3
  <2>5. ASSUME NEW r \in 1..Len(requests') PROVE CallbackOK(r)'
    <3>1. CallbackOK(r) /\ requests'[r] = q(r) BY <2>4 DEF Typed
    <3> QED BY <1>2, <2>3, <2>4, <3>1 DEF CallbackOK
  <2>6. TabOK' BY <1>2, <2>4 DEF Typed, TabOK
  <2>7. AnswersStay BY <1>1, <2>3, <2>4 DEF AnswersStay
  <2> QED BY <1>2, <2>1, <2>4, <2>5, <2>6, <2>7 DEF Typed, RememberedAsAnswered
<1>4. CASE \E c \in Codes : pruneSuccessfulGoogleCallbacks(w, c)
  <2>1. UNCHANGED requests BY <1>4 DEF pruneSuccessfulGoogleCallbacks
  <2>2. /\ memory' \in [Replicas -> [Codes -> Places \union {None}]]
        /\ \A v \in Replicas, c \in Codes : memory'[v][c] \in {memory[v][c], None}
    BY <1>1, <1>4 DEF pruneSuccessfulGoogleCallbacks
  <2>3. requests' \in Seq(CallbackType) /\ (\A r \in 1..Len(requests') : CallbackOK(r)')
    BY <1>1, <1>2, <2>1, CallbacksStay
  <2> QED BY <1>1, <1>2, <2>1, <2>2, <2>3 DEF Typed, TabOK, AnswersStay, RememberedAsAnswered
<1> QED BY <1>3, <1>4

LEMMA BrowserMemory ==
    ASSUME \/ Visit \/ Serve \/ EndSession \/ Unauthorized \/ Cooldown
           \/ \E email \in Accounts : DemoAccess(email) \/ \E p \in {"google", "github"} : Continue(p, email)
    PROVE  memory' = memory
  BY DEF Visit, Serve, EndSession, Unauthorized, Cooldown, DemoAccess, Continue, server

THEOREM TypedNext == Typed /\ [Next]_vars => Typed' /\ AnswersStay /\ RememberedAsAnswered
<1> SUFFICES ASSUME Typed, [Next]_vars PROVE Typed' /\ AnswersStay /\ RememberedAsAnswered OBVIOUS
<1>1. ASSUME UNCHANGED memory PROVE RememberedAsAnswered BY <1>1 DEF RememberedAsAnswered
<1>2. CASE \/ Visit \/ Serve \/ EndSession \/ Unauthorized \/ Cooldown
           \/ \E email \in Accounts : DemoAccess(email)
  BY <1>1, <1>2, BrowserTyped, BrowserMemory
<1>3. CASE \E email \in Accounts, p \in {"google", "github"} : Continue(p, email)
  BY <1>1, <1>3, ContinueTyped, BrowserMemory
<1>4. CASE Reload \/ Back \/ \E code \in Codes : Return(code) BY <1>1, <1>4, RequestTyped
<1>5. CASE \E r \in 1..Len(requests) : Callback(r) BY <1>5, CallbackTyped
<1>6. CASE \E w \in Replicas : Restart(w) \/ \E c \in Codes : pruneSuccessfulGoogleCallbacks(w, c)
  BY <1>6, ForgetTyped
<1>7. CASE UNCHANGED vars
  <2>1. UNCHANGED <<jar, tab, flows, requests, memory>> BY <1>7 DEF vars, server
  <2>2. Len(requests) \in Nat /\ Len(flows) \in Nat BY DEF Typed
  <2>3. requests' \in Seq(CallbackType) /\ (\A r \in 1..Len(requests') : CallbackOK(r)')
    BY <2>1, <2>2, CallbacksStay
  <2> QED BY <1>1, <2>1, <2>2, <2>3 DEF Typed, TabOK, AnswersStay
<1> QED BY <1>2, <1>3, <1>4, <1>5, <1>6, <1>7 DEF Next

(* Cookies, tab, callbacks and memories have their types. *)
THEOREM TypeCorrect == Spec => []TypeOK
<1>1. Typed => TypeOK
  <2> SUFFICES ASSUME Typed PROVE TypeOK OBVIOUS
  <2>1. jar.session \in Tokens \union {None} /\ jar.state \in Codes /\ jar.target \in Apps BY DEF Typed, Jars
  <2>2. ASSUME NEW r \in 1..Len(requests)
        PROVE  /\ requests[r].step \in {"sent", "exchange", "answered"}
               /\ requests[r].cookies \in {"kept", "expired", "session"}
    <3>1. requests[r] \in CallbackType BY DEF Typed
    <3> QED BY <3>1 DEF CallbackType
  <2>3. \A w \in Replicas, c \in Codes : memory[w][c] \in Urls \union {None} BY DEF Typed, Places
  <2> QED BY <2>1, <2>2, <2>3 DEF TypeOK, Typed, TabOK
<1> QED BY <1>1, TypedInit, TypedNext, PTL DEF Spec

(* A replica answers a callback from memory with a page of the app only     *)
(* when the callback's code has signed somebody in (createWebAuthHandler,   *)
(* rememberSuccessfulGoogleCallback).                                       *)
THEOREM MemoryOfSuccess == Spec => []AppOnlyAfterSuccess
<1>1. Init => AppOnlyAfterSuccess BY DEF Init, AppOnlyAfterSuccess
<1>2. Typed /\ AppOnlyAfterSuccess /\ AnswersStay /\ RememberedAsAnswered => AppOnlyAfterSuccess'
  <2> SUFFICES ASSUME Typed, AppOnlyAfterSuccess, AnswersStay, RememberedAsAnswered,
                      NEW w \in Replicas, NEW c \in Codes, memory'[w][c] # None, memory'[w][c].path \in Apps
               PROVE  Succeeded(c)'
    BY DEF AppOnlyAfterSuccess
  <2>1. CASE memory'[w][c] = memory[w][c]
    <3>1. Succeeded(c) BY <2>1 DEF AppOnlyAfterSuccess
    <3>2. PICK r \in 1..Len(requests) : requests[r].code = c /\ requests[r].cookies = "session"
      BY <3>1 DEF Succeeded
    <3>3. requests[r].step = "answered" BY <3>2 DEF Typed, CallbackOK
    <3>4. requests'[r] = requests[r] /\ r \in 1..Len(requests') BY <3>3 DEF AnswersStay, Typed
    <3> QED BY <3>2, <3>4 DEF Succeeded
  <2> QED BY <2>1 DEF RememberedAsAnswered
<1> QED BY <1>1, <1>2, TypedInit, TypedNext, PTL DEF Spec

(* A callback that takes the browser's session away leads to the page that  *)
(* says so (normalizeGoogleCallbackResponse,                                *)
(* handleRecoverableOAuthCallbackError).                                    *)
THEOREM NobodySignedOutUnsaid == Spec => SignedOutIsTold
<1> DEFINE Told == \A r \in 1..Len(requests) :
                      Deliver(r) /\ jar.session # None /\ jar'.session = None => tab'.url.path = "error"
<1>1. Typed => Told
  <2> SUFFICES ASSUME Typed, NEW r \in 1..Len(requests), Deliver(r), jar.session # None, jar'.session = None
               PROVE  tab'.url.path = "error"
    OBVIOUS
  <2>1. CallbackOK(r) BY DEF Typed
  <2>2. CASE requests[r].cookies = "expired" BY <2>1, <2>2 DEF Deliver, Go, CallbackOK
  <2>3. CASE requests[r].cookies = "kept" BY <2>3 DEF Deliver
  <2>4. CASE requests[r].cookies \notin {"kept", "expired"}
    <3>1. requests[r].flow \in 1..Len(flows) BY <2>1 DEF CallbackOK
    <3>2. flows[requests[r].flow].email \in Accounts BY <3>1, FlowEmail
    <3>3. jwt(flows[requests[r].flow].email) # None BY <3>2, TokenType
    <3>4. jar' = [jar EXCEPT !.session = jwt(flows[requests[r].flow].email), !.state = 0]
      BY <2>4 DEF Deliver
    <3> QED BY <3>3, <3>4 DEF Typed, Jars
  <2> QED BY <2>2, <2>3, <2>4
<1>2. Typed => [Told]_vars BY <1>1
<1> QED BY <1>2, TypedInit, TypedNext, PTL DEF Spec, SignedOutIsTold
=============================================================================
