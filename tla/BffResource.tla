----------------------------- MODULE BffResource -----------------------------
(***************************************************************************)
(* packages/web/hooks/useBffResource.js: the panels of a page, each of     *)
(* which shows the resource of a url, over a cache and a table of fetches  *)
(* in flight that they share.                                              *)
(*                                                                         *)
(* JavaScript runs to completion: a commit runs the cleanups of every      *)
(* changed effect and then the changed effects, and the promises that the  *)
(* cleanups aborted settle before anything else happens.                   *)
(***************************************************************************)
EXTENDS Naturals

CONSTANTS Panels,     \* the places of a page where a hook can be mounted
          ResourceUrls,
          Shows,      \* Shows[p]: the urls panel p is ever given
          Prefetched, \* the urls given to prefetchBffResource
          Retried,    \* the panels whose retry is used
          Null

(* A fetch: whose effect began it, who reacts to it, how far it has come. *)
Fetches == [owner : Panels \union {Null}, readers : SUBSET Panels,
            body : {"none", "ok", "failed"}, aborted : BOOLEAN]

ASSUME PanelsAssumption ==
    /\ Shows \in [Panels -> SUBSET ResourceUrls]
    /\ Prefetched \subseteq ResourceUrls /\ Retried \subseteq Panels
    /\ Null \notin ResourceUrls \union Panels \union Fetches

(* The data of a response is named by its url; null is data too. *)
Data == ResourceUrls \union {Null}
Absent == "absent"

VARIABLES
    resourceCache, \* resourceCache[u]: Absent, or the data of a response for u
    inflight,      \* inflight[u]: the fetch of u that has not settled, or Null
    mounted,       \* the mounted panels
    url,           \* url[p]: the url of p's last render, or Null
    previousUrl,   \* previousUrl[p]: the ref of that name
    state          \* state[p]: what p shows

panelVars == <<resourceCache, inflight, mounted, url, previousUrl, state>>

Aborted(u) == inflight[u] # Null /\ inflight[u].aborted

(* No aborted promise is waiting for its reactions to run. *)
MicrotasksDone == \A u \in ResourceUrls : ~Aborted(u)

Fetch(owner, readers) ==
    [owner |-> owner, readers |-> readers, body |-> "none", aborted |-> FALSE]

Blank == [data |-> Null, loading |-> FALSE, stale |-> FALSE, error |-> FALSE]

-----------------------------------------------------------------------------
(* Effects.                                                                 *)

CachedData(u) == IF u = Null \/ resourceCache[u] = Absent THEN Null ELSE resourceCache[u]

(* What the first render and then the effect make of p's state: data of     *)
(* another url goes, without a url only the loading ends.                  *)
EffectState(p, u) ==
    LET first == IF p \in mounted THEN state[p] ELSE [Blank EXCEPT !.data = CachedData(u)]
    IN IF u = Null
       THEN [first EXCEPT !.loading = FALSE]
       ELSE [data |-> IF p \in mounted /\ previousUrl[p] # u THEN CachedData(u) ELSE first.data,
             loading |-> TRUE, stale |-> FALSE, error |-> FALSE]

(* Faulty variant: only a panel that is gone aborts its fetches. *)
CleanedGone(leaving, gone) ==
    [u \in ResourceUrls |->
        IF inflight[u] = Null THEN Null
        ELSE [inflight[u] EXCEPT !.aborted = inflight[u].owner \in gone, !.readers = @ \ gone]]

(* Faulty variant: a panel that is gone still reacts. *)
CleanedOwnersOnly(leaving, gone) ==
    [u \in ResourceUrls |->
        IF inflight[u] = Null THEN Null
        ELSE [inflight[u] EXCEPT !.aborted = inflight[u].owner \in leaving]]

(* The cleanups of the leaving panels abort the fetches that their last     *)
(* effects began; a panel that is gone no longer reacts.                   *)
Cleaned(leaving, gone) ==
    [u \in ResourceUrls |->
        IF inflight[u] = Null THEN Null
        ELSE [inflight[u] EXCEPT !.aborted = inflight[u].owner \in leaving,
                                 !.readers = @ \ gone]]

(* Faulty variant: who finds a fetch in flight does not wait for it. *)
JoinedByFirst(table, entering, next) ==
    [u \in ResourceUrls |->
        LET readers == {p \in entering : next[p] = u} IN
        IF readers = {} \/ table[u] # Null THEN table[u]
        ELSE Fetch(CHOOSE p \in readers : TRUE, readers)]

(* Then the effects of the entering panels look their url up in the table,  *)
(* in the order of the page: the first one begins a fetch if there is none, *)
(* the others read the one they find, an aborted one too.                  *)
Joined(table, entering, next) ==
    [u \in ResourceUrls |->
        LET readers == {p \in entering : next[p] = u} IN
        IF readers = {} THEN table[u]
        ELSE IF table[u] = Null THEN Fetch(CHOOSE p \in readers : TRUE, readers)
        ELSE [table[u] EXCEPT !.readers = @ \union readers]]

(* The effects of the panels in changed run again, with next[p] as url. *)
RunEffects(changed, gone, next) ==
    LET entering == {p \in changed \ gone : next[p] # Null} IN
    /\ inflight' = Joined(Cleaned(changed \union gone, gone), entering, next)
    /\ state' = [p \in Panels |-> IF p \in gone THEN Blank
                                  ELSE IF p \in changed THEN EffectState(p, next[p])
                                  ELSE state[p]]
    /\ previousUrl' = [p \in Panels |-> IF p \in gone THEN Null
                                        ELSE IF p \in entering THEN next[p]
                                        ELSE previousUrl[p]]

(* A render mounts and unmounts panels and gives others a new url. *)
Commit ==
    /\ MicrotasksDone
    /\ \E shown \in SUBSET Panels, next \in [Panels -> ResourceUrls \union {Null}] :
          /\ \A p \in Panels : next[p] \in IF p \in shown THEN Shows[p] \union {Null} ELSE {Null}
          /\ RunEffects({p \in shown : p \notin mounted \/ next[p] # url[p]},
                        mounted \ shown, next)
          /\ mounted' = shown /\ url' = next
    /\ UNCHANGED resourceCache

(* The button of a failed panel, and the timer of a transient run. *)
Retry(p) ==
    /\ MicrotasksDone
    /\ p \in mounted \intersect Retried /\ url[p] # Null /\ state[p].error
    /\ RunEffects({p}, {}, url)
    /\ UNCHANGED <<resourceCache, mounted, url>>

Prefetch(u) ==
    /\ MicrotasksDone
    /\ u \in Prefetched /\ resourceCache[u] = Absent /\ inflight[u] = Null
    /\ inflight' = [inflight EXCEPT ![u] = Fetch(Null, {})]
    /\ UNCHANGED <<resourceCache, mounted, url, previousUrl, state>>

-----------------------------------------------------------------------------
(* Fetches.                                                                 *)

(* The status line and the headers of the response are there. *)
Respond(u) ==
    /\ MicrotasksDone
    /\ inflight[u] # Null /\ inflight[u].body = "none"
    /\ \E body \in {"ok", "failed"} : inflight' = [inflight EXCEPT ![u].body = body]
    /\ UNCHANGED <<resourceCache, mounted, url, previousUrl, state>>

(* finally: the table forgets the fetch; then its readers react, whatever   *)
(* they show by now.                                                       *)
DeliverFetch(u, reaction(_)) ==
    /\ inflight' = [inflight EXCEPT ![u] = Null]
    /\ state' = [p \in Panels |-> IF p \in inflight[u].readers THEN reaction(p) ELSE state[p]]
    /\ UNCHANGED <<mounted, url, previousUrl>>

Shown(d) == [data |-> d, loading |-> FALSE, stale |-> FALSE, error |-> FALSE]

(* A body that cannot be read to its end, because the connection breaks or  *)
(* the fetch is aborted, counts as null.                                   *)
Resolve(u) ==
    /\ inflight[u] # Null /\ inflight[u].body = "ok"
    /\ \E data \in {u, Null} :
          /\ Aborted(u) => data = Null
          /\ resourceCache' = [resourceCache EXCEPT ![u] = data]
          /\ LET React(p) == Shown(data) IN DeliverFetch(u, React)

CanReject(u) ==
    /\ inflight[u] # Null
    /\ inflight[u].body = "failed" \/ (inflight[u].body = "none" /\ ~Aborted(u))

(* An error status, or no response at all. *)
Reject(u) ==
    /\ CanReject(u)
    /\ LET React(p) == [data |-> state[p].data, loading |-> FALSE,
                        stale |-> state[p].data # Null, error |-> TRUE]
       IN DeliverFetch(u, React)
    /\ UNCHANGED resourceCache

(* AbortError: the readers do not react. *)
Abort(u) ==
    /\ Aborted(u) /\ inflight[u].body = "none"
    /\ LET React(p) == state[p] IN DeliverFetch(u, React)
    /\ UNCHANGED resourceCache

Settle(u) ==
    /\ Aborted(u) \/ MicrotasksDone
    /\ Resolve(u) \/ Reject(u) \/ Abort(u)

-----------------------------------------------------------------------------
PanelsInit ==
    /\ resourceCache = [u \in ResourceUrls |-> Absent]
    /\ inflight = [u \in ResourceUrls |-> Null]
    /\ mounted = {}
    /\ url = [p \in Panels |-> Null]
    /\ previousUrl = [p \in Panels |-> Null]
    /\ state = [p \in Panels |-> Blank]

PanelsNext ==
    \/ Commit
    \/ \E p \in Panels : Retry(p)
    \/ \E u \in ResourceUrls : Prefetch(u) \/ Respond(u) \/ Settle(u)

PanelsSpec == PanelsInit /\ [][PanelsNext]_panelVars

(* A fetch ends: it is answered, or the browser gives it up. *)
FairPanelsSpec == PanelsSpec /\ \A u \in ResourceUrls : SF_panelVars(Settle(u))

-----------------------------------------------------------------------------
(* Every variable holds a value of its type, and only mounted panels read. *)
PanelsTypeOK ==
    /\ resourceCache \in [ResourceUrls -> Data \union {Absent}]
    /\ inflight \in [ResourceUrls -> Fetches \union {Null}]
    /\ mounted \in SUBSET Panels
    /\ url \in [Panels -> ResourceUrls \union {Null}]
    /\ previousUrl \in [Panels -> ResourceUrls \union {Null}]
    /\ state \in [Panels -> [data : Data, loading : BOOLEAN, stale : BOOLEAN, error : BOOLEAN]]
    /\ \A p \in Panels \ mounted : url[p] = Null /\ state[p] = Blank
    /\ \A u \in ResourceUrls : inflight[u] # Null => inflight[u].readers \subseteq mounted

(* p waits for a fetch of u that somebody else began: another panel, or a   *)
(* prefetch.                                                               *)
Borrows(p, u) ==
    inflight[u] # Null /\ p \in inflight[u].readers /\ inflight[u].owner # p

(* What a panel newly shows is the data of its own last url, or none.  The  *)
(* answer to a fetch that its own effect began is never shown after its url *)
(* has changed, in whatever order cleanups, effects and responses come;    *)
(* only a fetch that somebody else began still reaches it then             *)
(* (useBffResource.js:43-49).                                              *)
ShowsOwnData ==
    [][\A p \in mounted' :
          \/ state'[p].data \in {previousUrl'[p], Null}
          \/ state'[p].data = state[p].data /\ previousUrl'[p] = previousUrl[p]
          \/ \E u \in ResourceUrls :
                Borrows(p, u) /\ inflight'[u] = Null /\ state'[p].data = u]_panelVars

Awaits(p, u) == url[p] = u /\ inflight[u] # Null /\ p \in inflight[u].readers

(* p loads, and no fetch that runs will tell it anything. *)
Deaf(p) == state[p].loading /\ \A u \in ResourceUrls : ~Awaits(p, u)

(* The abort of the fetch a panel waits for, by its own cleanup or by       *)
(* another panel's, is the only way to load for nothing (AbortError,       *)
(* useBffResource.js:43-60).                                               *)
DeafByAbort ==
    [][\A p \in Panels :
          Deaf(p)' /\ ~Deaf(p) =>
             \E u \in ResourceUrls : Aborted(u) /\ Awaits(p, u) /\ inflight'[u] = Null]_panelVars

(* A panel that keeps its url and loads stops loading, or the fetch it      *)
(* waits for is aborted; and no panel loads for nothing but by an abort.   *)
LoadingEnds ==
    /\ DeafByAbort
    /\ \A p \in Panels, u \in ResourceUrls :
          state[p].loading /\ Awaits(p, u) /\ ~Aborted(u) ~>
             ~state[p].loading \/ url[p] # u \/ (Awaits(p, u) /\ Aborted(u))

-----------------------------------------------------------------------------
(* What docs/unified-exploration-workspace-implementation-plan.md says.     *)

(* "Auto-refresh must never clear selection or replace an inspector with a  *)
(* different entity."                                                      *)
InspectorShowsSelection ==
    \A p \in mounted : url[p] # Null => state[p].data \in {url[p], Null}
=============================================================================
