------------------------------ MODULE Reading ------------------------------
(***************************************************************************)
(* Readers of the server while it is being written by uploads (the         *)
(* committed effect of Ingest's transactions) and by the backfill of the   *)
(* runs that are older than the submissions                                *)
(* (scripts/backfill-report-submissions.mjs), and two kinds of reader, the *)
(* list that is paged with a cursor and the operations overview of the web *)
(* (components/OperationsOverview.js), which merges pages of many scopes.  *)
(***************************************************************************)
EXTENDS Queries, Sequences

CONSTANTS Legacy,       \* the contents that may be stored without a submission
          Lists,        \* the queries of paged lists
          Scopes,       \* what the overview lists: projects, and All for every one
          All,
          BatchSize,    \* the runs a batch of the backfill reads
          MaxCrashes,   \* bound: interruptions of the backfill
          MaxChanges,   \* bound: changes while the overview is open
          MaxListChanges \* bound: changes while a list is paged

VARIABLES backfill,     \* the backfill's step, its batch, what it has selected and its interruptions
          pager,        \* a list being paged
          client,       \* the operations overview in a browser
          changes       \* the uploads, refreshes and switches of scope since one was opened

tables == <<run, overview, project, submission, pointer, stored>>
vars == <<tables, backfill, pager, client, changes>>

-----------------------------------------------------------------------------
(* Writers.                                                                 *)

(* buildRunValues: coverage and performance keep the run's tests. *)
RunValues(old, c) ==
    LET new == Content[c]
        preserve == old # None /\ new.kind \in {"coverage", "performance"}
    IN  [status |-> IF preserve THEN old.status ELSE new.status,
         total |-> IF preserve THEN old.total ELSE new.total,
         failed |-> IF preserve THEN old.failed ELSE new.failed,
         linesPct |-> IF preserve /\ (new.kind = "performance" \/ new.linesPct = None)
                      THEN old.linesPct ELSE new.linesPct,
         completedAt |-> new.completedAt, words |-> new.words]

(* updateReadProjections *)
RunProjection(old, c) ==
    LET new == Content[c]
        current == IF old # None THEN old
                   ELSE [status |-> "unknown", total |-> 0, failed |-> 0, linesPct |-> None]
    IN  [status |-> IF "tests" \in new.kinds THEN new.status ELSE current.status,
         total |-> IF "tests" \in new.kinds THEN new.total ELSE current.total,
         failed |-> IF "tests" \in new.kinds THEN new.failed ELSE current.failed,
         linesPct |-> IF "coverage" \in new.kinds THEN new.linesPct ELSE current.linesPct,
         completedAt |-> new.completedAt]

(* Faulty variant: the run that is being stored is not counted yet. *)
ProjectProjectionBefore(rows, p) ==
    LET own == {[id |-> r, completedAt |-> rows[r].completedAt] :
                   r \in {q \in Runs : rows[q] # None /\ RunProject[q] = p}}
    IN  IF own = {} THEN None ELSE [runCount |-> Cardinality(own) - 1, latestRun |-> Foremost(own, "newest").id]

ProjectProjection(rows, p) ==
    LET own == {[id |-> r, completedAt |-> rows[r].completedAt] :
                   r \in {q \in Runs : rows[q] # None /\ RunProject[q] = p}}
    IN  IF own = {} THEN None ELSE [runCount |-> Cardinality(own), latestRun |-> Foremost(own, "newest").id]

SameIdentity(c, d) == /\ Content[c].run = Content[d].run /\ Content[c].kind = Content[d].kind
                      /\ Content[c].producer = Content[d].producer

(* The pointers of the submission's fact kinds. *)
Selecting(r, c) == [pointer EXCEPT ![r] = [k \in FactKinds |-> IF k \in Content[c].kinds THEN c ELSE @[k]]]

(* Nothing is being read. *)
NoList == [query |-> None, pages |-> <<>>, next |-> None, done |-> FALSE, kept |-> {}]
Idle == pager = NoList /\ ~client.open

Counted == /\ pager # NoList => changes < MaxListChanges
           /\ client.open => changes < MaxChanges
           /\ changes' = IF Idle THEN changes ELSE changes + 1

(* A submission that is new, or a revision of its identity. *)
Upload(c) ==
    LET r == Content[c].run IN
    /\ c \notin Legacy /\ submission[c] = None /\ Counted
    /\ run' = [run EXCEPT ![r] = RunValues(@, c)]
    /\ submission' = [d \in Contents |-> IF d = c THEN "active"
                                         ELSE IF SameIdentity(c, d) /\ submission[d] = "active"
                                         THEN "superseded" ELSE submission[d]]
    /\ stored' = stored \union {c}
    /\ pointer' = Selecting(r, c)
    /\ overview' = [overview EXCEPT ![r] = RunProjection(@, c)]
    /\ project' = [project EXCEPT ![RunProject[r]] = ProjectProjection(overview', RunProject[r])]
    /\ UNCHANGED <<backfill, pager, client>>

(* A retry of an active submission writes the run and the selection again,  *)
(* and no projection.                                                      *)
Retry(c) ==
    /\ c \notin Legacy /\ submission[c] = "active" /\ Counted
    /\ run' = [run EXCEPT ![Content[c].run] = RunValues(@, c)]
    /\ pointer' = Selecting(Content[c].run, c)
    /\ UNCHANGED <<overview, project, submission, stored, backfill, pager, client>>

-----------------------------------------------------------------------------
(* The backfill.                                                            *)

Unadopted == {r \in Runs : /\ run[r] # None
                           /\ \/ \A c \in Contents : Content[c].run = r => submission[c] = None
                              \/ overview[r] = None}

(* The SELECT of a batch: the rows as they are now. *)
BackfillRead ==
    /\ backfill.pc = "read" /\ Unadopted # {}
    /\ backfill' = [backfill EXCEPT !.pc = "adopt",
                      !.batch = {[run |-> r, row |-> run[r]] :
                                   r \in {x \in Unadopted : Cardinality({y \in Unadopted : y < x}) < BatchSize}}]
    /\ UNCHANGED <<tables, pager, client, changes>>

OverviewOfRun(row) == [status |-> row.status, total |-> row.total, failed |-> row.failed,
                       linesPct |-> row.linesPct, completedAt |-> row.completedAt]


(* The transaction of a run: its stored report becomes a submission that    *)
(* every kind points to, its facts belong to it, and its projection is     *)
(* written from the row that was read with the batch.                      *)
Adopt(b) ==
    /\ submission' = [c \in Contents |-> IF c \in Legacy /\ Content[c].run = b.run THEN "active" ELSE submission[c]]
    /\ pointer' = [pointer EXCEPT ![b.run] = [k \in FactKinds |-> CHOOSE c \in Legacy : Content[c].run = b.run]]
    /\ overview' = [overview EXCEPT ![b.run] = OverviewOfRun(b.row)]

BackfillRun ==
    /\ backfill.pc = "adopt"
    /\ \E b \in backfill.batch :
          /\ \A o \in backfill.batch : b.run <= o.run
          /\ Adopt(b)
          /\ backfill' = [backfill EXCEPT !.batch = @ \ {b},
                                          !.pc = IF backfill.batch = {b} THEN "read" ELSE "adopt"]
    /\ UNCHANGED <<run, project, stored, pager, client, changes>>

NoRows == [p \in Projects |-> None]

(* No run is left: the projects' projections are made again, by one          *)
(* statement without any lock.  Its SELECT sees the runs committed before  *)
(* it began;                                                               *)
selectProjectOverviews ==
    /\ backfill.pc = "read" /\ Unadopted = {}
    /\ backfill' = [backfill EXCEPT !.pc = "rebuild", !.rows = [p \in Projects |-> ProjectProjection(overview, p)]]
    /\ UNCHANGED <<tables, pager, client, changes>>

(* its ON CONFLICT DO UPDATE writes them over what was committed since.      *)
rebuildProjectOverviews ==
    /\ backfill.pc = "rebuild"
    /\ project' = [p \in Projects |-> IF backfill.rows[p] = None THEN project[p] ELSE backfill.rows[p]]
    /\ backfill' = [backfill EXCEPT !.pc = "done", !.rows = NoRows]
    /\ UNCHANGED <<run, overview, submission, pointer, stored, pager, client, changes>>

(* The job dies between two transactions, or in its last statement, and is  *)
(* started again.                                                          *)
BackfillCrash ==
    /\ backfill.pc \in {"adopt", "rebuild"} /\ backfill.crashes < MaxCrashes
    /\ backfill' = [pc |-> "read", batch |-> {}, rows |-> NoRows, crashes |-> backfill.crashes + 1]
    /\ UNCHANGED <<tables, pager, client, changes>>

BackfillStep == BackfillRead \/ BackfillRun \/ selectProjectOverviews \/ rebuildProjectOverviews

-----------------------------------------------------------------------------
(* A list that is paged: the pages so far, and the rows that matched at     *)
(* every request of a page.                                                *)

(* The rows a list is of, whatever the page. *)
Listed(query) ==
    CASE query.list = "runs" ->
            {OverviewRow(r) : r \in {x \in Runs : /\ overview[x] # None
                                                  /\ RunProject[x] \in listProjects(Projects)
                                                  /\ query.project \in {None, RunProject[x]}
                                                  /\ OverviewMatches(OverviewRow(x), query)}}
      [] query.list = "suite" ->
            {t \in TestExecution : t.suite = query.suite /\ query.status \in {None, t.status}}
      [] query.list = "failures" -> FailuresMatching(Projects, query.run, query)
      [] query.list = "artifacts" -> {a \in ArtifactsSelected(Projects, query.run, None) :
                                         query.search = None \/ query.search = a.word}
      [] query.list = "coverage" ->
            LET snapshot == getCoverageSnapshotForRun(Projects, query.run)
            IN  IF snapshot = None THEN {} ELSE CoverageFilesOf(snapshot)

RunFeedPage(query) == PageOf(listRuns(Projects, [query EXCEPT !.limit = PageSize + 1]), PageSize, "newest")

SuitePage(query) ==
    PageOf(listTestsForSuiteRun(Projects, query.run, query.suite, [query EXCEPT !.limit = PageSize + 1]),
           PageSize, "id")

ListPage(query) ==
    CASE query.list = "runs" -> RunFeedPage(query)
      [] query.list = "suite" -> SuitePage(query)
      [] query.list = "failures" -> listRunFailures(Projects, query.run, query)
      [] query.list = "artifacts" -> artifactPage(Projects, query.run, query)
      [] query.list = "coverage" -> listCoverageFilePage(Projects, query.run, query)

Turned(page, matching, query, pages) ==
    pager' = [query |-> query, pages |-> Append(pages, page.rows), next |-> page.next,
              done |-> ~page.hasMore, kept |-> matching]

OpenList(query) ==
    /\ pager = NoList /\ ~client.open
    /\ Turned(ListPage([query EXCEPT !.after = None]), Listed(query), query, <<>>)
    /\ UNCHANGED <<tables, backfill, client, changes>>

NextPage ==
    /\ pager # NoList /\ ~pager.done
    /\ Turned(ListPage([pager.query EXCEPT !.after = pager.next]),
              pager.kept \intersect Listed(pager.query), pager.query, pager.pages)
    /\ UNCHANGED <<tables, backfill, client, changes>>

-----------------------------------------------------------------------------
(* The operations overview.                                                 *)

Closed == [open |-> FALSE, loaded |-> [r \in Runs |-> None], more |-> [s \in Scopes |-> TRUE], scope |-> All,
           visited |-> {All}, request |-> None, kept |-> {}]

ScopeOf(s) == IF s = All THEN None ELSE s

Feed(s, after) == RunFeedPage([list |-> "runs", project |-> ScopeOf(s), status |-> None, search |-> None,
                               after |-> after, limit |-> None])

(* mergeRuns: the loaded runs by id, the incoming one winning. *)
mergeRuns(loaded, rows) ==
    [r \in Runs |-> IF \E x \in rows : x.id = r
                    THEN [completedAt |-> (CHOOSE x \in rows : x.id = r).completedAt] ELSE loaded[r]]

FeedRows == {OverviewRow(r) : r \in {x \in Runs : overview[x] # None}}

(* The page the server rendered. *)
OpenOverview ==
    /\ ~client.open /\ pager = NoList
    /\ LET page == Feed(All, None) IN
       client' = [client EXCEPT !.open = TRUE, !.loaded = mergeRuns(@, page.rows),
                                !.more = [@ EXCEPT ![All] = page.hasMore], !.kept = FeedRows]
    /\ UNCHANGED <<tables, backfill, pager, changes>>

selectProject(s) ==
    /\ client.open /\ client.scope # s /\ Counted
    /\ client' = [client EXCEPT !.scope = s, !.visited = @ \union {s}]
    /\ UNCHANGED <<tables, backfill, pager>>

(* The cursor is that of the last loaded run of the scope: one of those     *)
(* completed first.                                                        *)
LoadedIn(s) == {r \in Runs : client.loaded[r] # None /\ (s = All \/ RunProject[r] = s)}

Oldest(s) == {[id |-> r, completedAt |-> client.loaded[r].completedAt] :
                r \in {x \in LoadedIn(s) : \A y \in LoadedIn(s) :
                          client.loaded[x].completedAt <= client.loaded[y].completedAt}}

loadMoreRuns ==
    /\ client.open /\ client.request = None /\ client.more[client.scope]
    /\ \E after \in IF LoadedIn(client.scope) = {} THEN {None} ELSE Oldest(client.scope) :
          client' = [client EXCEPT !.request = [scope |-> client.scope, after |-> after]]
    /\ UNCHANGED <<tables, backfill, pager, changes>>

requestFeed ==
    /\ client.request # None
    /\ LET page == Feed(client.request.scope, client.request.after) IN
       client' = [client EXCEPT !.loaded = mergeRuns(@, page.rows), !.request = None, !.kept = @ \intersect FeedRows,
                                !.more = [@ EXCEPT ![client.request.scope] = page.hasMore]]
    /\ UNCHANGED <<tables, backfill, pager, changes>>

(* Every minute: the first page of the scope; what more there is stays. *)
refreshRuns ==
    /\ client.open /\ Counted
    /\ client' = [client EXCEPT !.loaded = mergeRuns(@, Feed(client.scope, None).rows),
                                !.kept = @ \intersect FeedRows]
    /\ UNCHANGED <<tables, backfill, pager>>

(* The page is closed. *)
Leave ==
    /\ ~Idle
    /\ pager' = NoList /\ client' = Closed /\ changes' = 0
    /\ UNCHANGED <<tables, backfill>>

-----------------------------------------------------------------------------
(* Some runs are older than the submissions. *)
Init ==
    /\ stored \in SUBSET Legacy
    /\ run = [r \in Runs |-> IF \E c \in stored : Content[c].run = r
                             THEN RunValues(None, CHOOSE c \in stored : Content[c].run = r) ELSE None]
    /\ overview = [r \in Runs |-> None]
    /\ project = [p \in Projects |-> None]
    /\ submission = [c \in Contents |-> None]
    /\ pointer = [r \in Runs |-> [k \in FactKinds |-> None]]
    /\ changes = 0
    /\ backfill = [pc |-> "read", batch |-> {}, rows |-> NoRows, crashes |-> 0]
    /\ pager = NoList
    /\ client = Closed

Read == \/ \E query \in Lists : OpenList(query)
        \/ NextPage
        \/ OpenOverview \/ loadMoreRuns \/ requestFeed \/ refreshRuns
        \/ \E s \in Scopes : selectProject(s)
        \/ Leave

Next == \/ \E c \in Contents : Upload(c) \/ Retry(c)
        \/ BackfillStep \/ BackfillCrash
        \/ Read

Spec == Init /\ [][Next]_vars
(* The job runs until it has ended. *)
FairSpec == Spec /\ WF_vars(BackfillStep)

-----------------------------------------------------------------------------
(* Types.                                                                   *)

RunType == [status : {"passed", "failed", "unknown"}, total : Nat, failed : Nat, linesPct : Nat \union {None},
            completedAt : Nat, words : SUBSET STRING]
OverviewType == [status : {"passed", "failed", "unknown"}, total : Nat, failed : Nat,
                 linesPct : Nat \union {None}, completedAt : Nat]
ProjectType == [runCount : Nat \ {0}, latestRun : Runs]

(* Entries of the lists. *)
FeedRow == [id : Runs, completedAt : Nat, status : {"passed", "failed", "unknown"}, words : SUBSET STRING]
ArtifactRow == [id : Nat, run : Runs, sub : Contents \union {None}, test : Nat \union {None}, word : STRING]
FileRow == [id : Nat, snapshot : Contents, path : Nat, linesPct : Nat \union {None},
            package : STRING \union {None}]
Entries == FeedRow \union TestType \union ArtifactRow \union FileRow
SnapshotRow == [id : Contents, run : Runs, sub : Contents \union {None}, linesPct : Nat \union {None}]

(* What the overview has loaded of a run, a cursor, and a request.         *)
LoadedType == [completedAt : Nat]
CursorType == [id : Runs, completedAt : Nat]
RequestType == [scope : Scopes, after : CursorType \union {None}]

(* A query starts at the first page, of the size of its list; each list has *)
(* its order, and a list of tests is of a suite of the run.                *)
QueryType == [list : {"runs", "suite", "failures", "artifacts", "coverage"}, run : Runs \union {None},
              suite : Nat, project : Projects \union {None}, status : STRING \union {None},
              search : STRING \union {None}, after : {None}, limit : {None}, sort : STRING, order : STRING]

QueryOK(query) ==
    /\ query.list = "runs" => query.order = "newest"
    /\ query.list \in {"suite", "failures", "artifacts"} => query.order = "id"
    /\ query.list = "coverage" => query.order = query.sort /\ query.sort \in {"path-asc", "lines-asc", "lines-desc"}
    /\ query.list # "runs" => query.run # None
    /\ query.list = "suite" => \A c \in Contents : \A s \in Content[c].suites :
                                  s.id = query.suite => Content[c].run = query.run

(* A run that is older than the submissions has one report, which is taken  *)
(* for a combined one.  None is none of what it stands for the absence of. *)
ASSUME ReadingAssumption ==
    /\ Legacy \subseteq Contents
    /\ \A c \in Legacy : Content[c].kind = "combined"
    /\ \A c, d \in Legacy : Content[c].run = Content[d].run => c = d
    /\ Lists \subseteq QueryType /\ \A query \in Lists : QueryOK(query)
    /\ All \in Scopes /\ Scopes \subseteq Projects \union {All} /\ All \notin Projects /\ All # None
    /\ BatchSize \in Nat \ {0} /\ MaxCrashes \in Nat
    /\ MaxChanges \in Nat /\ MaxListChanges \in 0..MaxChanges
    /\ None \notin Nat \union Int \union STRING \union Contents \union Runs \union Projects \union Lists
    /\ None \notin {"active", "superseded", "failed"}
    /\ None \notin RunType \union OverviewType \union ProjectType \union Entries
    /\ None \notin SnapshotRow \union LoadedType \union CursorType \union RequestType

(* Every variable holds a value of its type. *)
TypeOK ==
    /\ run \in [Runs -> RunType \union {None}]
    /\ overview \in [Runs -> OverviewType \union {None}]
    /\ project \in [Projects -> ProjectType \union {None}]
    /\ submission \in [Contents -> {"active", "superseded", None}]
    /\ pointer \in [Runs -> [FactKinds -> stored \union {None}]]
    /\ stored \subseteq Contents /\ changes \in 0..MaxChanges
    /\ backfill.pc \in {"read", "adopt", "rebuild", "done"} /\ backfill.crashes \in 0..MaxCrashes
    /\ backfill.rows \in [Projects -> ProjectType \union {None}]
    /\ \A b \in backfill.batch : b.run \in Runs /\ b.row \in RunType
    /\ pager.query \in Lists \union {None} /\ pager.done \in BOOLEAN
    /\ client.scope \in client.visited /\ client.visited \subseteq Scopes

-----------------------------------------------------------------------------
(* Paging.                                                                  *)

OnPages(row) == {i \in DOMAIN pager.pages : row \in pager.pages[i]}

(* A list of coverage is ordered by percentages that are all known, or by   *)
(* paths which the database orders as JavaScript does.                     *)
Comparable(query) ==
    query.list = "coverage" =>
        \A c, d \in {x \in stored : Content[x].run = query.run} : \A f \in Content[c].files, g \in Content[d].files :
            IF query.sort = "path-asc" THEN f.path < g.path => Collation[f.path] < Collation[g.path]
            ELSE f.linesPct # None

(* What stayed is on one page, and the pages are in order. *)
ShownOnce ==
    /\ \A row \in pager.kept : Cardinality(OnPages(row)) = 1
    /\ \A i, j \in DOMAIN pager.pages : i < j =>
          \A a \in pager.pages[i] \intersect pager.kept, b \in pager.pages[j] \intersect pager.kept :
              Before(pager.query.order, a, b)

(* A list that was paged to its end has shown every entry that was there    *)
(* and unchanged at each of its requests exactly once, and in order,       *)
(* whatever was uploaded or adopted between the pages (the cursors         *)
(* of listRuns, listRunFailures, listTestsForSuiteRun, artifactPage and    *)
(* listCoverageFilePage; a list that is searched, and a list of coverage   *)
(* that is not Comparable, may skip entries).                              *)
PagesComplete == pager.done /\ pager.query.search = None /\ Comparable(pager.query) => ShownOnce

(* The same of every list that is not searched, by whatever it is ordered. *)
EveryPageComplete == pager.done /\ pager.query.search = None => ShownOnce

(* A list that is searched shows what matches the search, on every page. *)
SearchKept ==
    pager.query # None /\ pager.query.search # None /\ pager.query.list = "runs" =>
        \A i \in DOMAIN pager.pages : \A row \in pager.pages[i] : pager.query.search \in row.words

(* When the overview says that a scope has no more runs, those that were    *)
(* there when it was opened, unchanged since, are loaded; the scope is the *)
(* only one it has listed, or the only project beside the whole            *)
(* (mergeRuns, loadMoreRuns, refreshRuns).                                 *)
FeedComplete ==
    \A s \in client.visited :
        client.open /\ ~client.more[s] /\ client.visited \subseteq {All, s} =>
            \A row \in client.kept :
                s \in {All, RunProject[row.id]} => client.loaded[row.id] # None

(* The same, whatever scopes were listed: pagination, refresh and filters   *)
(* compose.                                                                *)
FeedKept ==
    \A s \in client.visited :
        client.open /\ ~client.more[s] =>
            \A row \in client.kept :
                s \in {All, RunProject[row.id]} => client.loaded[row.id] # None

-----------------------------------------------------------------------------
(* What is read of a run.  Nothing is being paged: every state of the       *)
(* tables is one of these.                                                 *)

(* What a submission's report bears that is shown as tests, or as coverage. *)
Holds(c, k) == IF k = "tests" THEN Content[c].tests # {} \/ Content[c].packages # {} ELSE Content[c].covered

Bears(c, r, k) == c \in stored /\ Content[c].run = r /\ Holds(c, k)

(* It is told which facts of the kind are the run's: a submission is         *)
(* selected, or no two that are stored bear any.                           *)
Told(r, k) == pointer[r][k] # None \/ \A c, d \in stored : Bears(c, r, k) /\ Bears(d, r, k) => c = d

(* What the facts of a kind may be of: the selected submission; when none   *)
(* is, any one submission of the run, or nothing.                          *)
Sources(r, k) == IF pointer[r][k] # None THEN {{pointer[r][k]}}
                 ELSE {{}} \union {{c} : c \in {d \in stored : Content[d].run = r}}

(* The report says itself that a package failed when a test of it did. *)
FailuresReported(c) ==
    \A p \in Content[c].packages, s \in Content[c].suites, t \in Content[c].tests :
        s.package = p.name /\ t.suite = s.id /\ t.status = "failed" => "failed" \in p.suites

TestsOf(r, source) ==
    LET own == UNION {Content[c].tests : c \in source}
        errors == UNION {Content[c].errors : c \in source}
        failed(p) == {t \in listTestsForRun(Projects, r, [Everything EXCEPT !.package = p.name]) : t.status = "failed"}
    IN  /\ listTestsForRun(Projects, r, Everything) = own
        /\ \A e \in getRunFailureEvidence(Projects, r) :
              /\ e.test # None => \E t \in own : t.id = e.test /\ t.status = "failed"
              /\ e.error # None /\ e.test # None => e.error.test = e.test /\ e.error.id \in Ids(errors)
        /\ (\A c \in source : FailuresReported(c)) =>
              \A p \in listRunPackages(Projects, r) : failed(p) # {} => p.status = "failed"

(* Compared with a run that has submissions, a run without any is shown no   *)
(* coverage of its own: loadActiveSubmissionIds is asked for both at once.  *)
CoverageOf(r, source) ==
    LET own == UNION {Content[c].files : c \in source}
        tests == listTestsForRun(Projects, r, Everything)
        file(p) == CHOOSE f \in own : f.path = p
    IN  /\ {f.path : f \in listRunFiles(Projects, r)}
             = {f.path : f \in own} \union ({t.file : t \in tests} \ {None})
        /\ \A compared \in {getRunCoverageComparison(Projects, r)} :
              LET both == loadActiveSubmissionIds({r, compared.previousRun} \ {None}, {"coverage", "combined"})
              IN  /\ \/ both # {} /\ \A c \in both : Content[c].run # r
                     \/ compared.current = findRun(Projects, r).linesPct
                  /\ \A c \in compared.fileChanges : c.current = file(c.key).linesPct
        /\ \A f \in Ids(own) : \E detail \in getCoverageFileDetail(Projects, r, f) :
              \A t \in detail.tests : t \in tests

(* Everything a run's pages show of its tests (suites, tests, the evidence  *)
(* of a failure, packages) is of the one selected tests submission, and    *)
(* everything they show of its coverage (snapshot, files, changes) of the  *)
(* one selected coverage submission, however they were superseded, retried *)
(* or adopted, and whatever the kinds are under which the facts were       *)
(* published.  Where nothing is selected, the facts of a kind are of one   *)
(* submission if no other one bears any (loadActiveSubmissionIds and the   *)
(* lists that use it).                                                     *)
FactsOfOneSubmission ==
    Idle => \A r \in Runs : run[r] # None =>
        /\ Told(r, "tests") => \E source \in Sources(r, "tests") : TestsOf(r, source)
        /\ Told(r, "coverage") => \E source \in Sources(r, "coverage") : CoverageOf(r, source)

(* The same, also where nothing is selected of several. *)
FactsNeverMixed ==
    Idle => \A r \in Runs : run[r] # None =>
        /\ \E source \in Sources(r, "tests") : TestsOf(r, source)
        /\ \E source \in Sources(r, "coverage") : CoverageOf(r, source)

Hidden(guest, r) ==
    /\ findProject(guest, RunProject[r]) = None /\ findRun(guest, r) = None
    /\ \A x \in listRunFeed(guest, [project |-> None, status |-> None, search |-> None,
                                   after |-> None, limit |-> Cardinality(Runs)]) : x.id # r
    /\ \A s \in {x \in SuiteRun : x.run = r} :
          listTestsForSuiteRun(guest, r, s.id, [after |-> None, status |-> None, search |-> None,
                                                limit |-> Cardinality(Contents)]) = {}
    /\ listArtifacts(guest, r, None, AllArtifacts) = {}
    /\ \A t \in TestExecution : getTestExplorerDetail(guest, r, t.id) = None
    /\ \A q \in Projects : \A x \in listCoverageTrend(guest, q, "project", None) : x.id # r
    /\ ~hasRunPerformance(guest, r) /\ getRunPublicationKinds(guest, r) = {}
    /\ listRunPerformanceStats(guest, r) = {}

(* An actor is shown nothing of a project that is neither public nor one of *)
(* its own, by whatever identifier it is asked for.                        *)
GuestsSeePublicOnly ==
    Idle => \A r \in Runs : \A guest \in SUBSET (Projects \ {RunProject[r]}) : Hidden(guest, r)

(* The badge of a project shows the coverage of no superseded submission,   *)
(* but for one that was published as performance and bears coverage        *)
(* nevertheless, and the test counts of the last run whose tests are       *)
(* known, of the runs that it reads (getPublicBadgeSummary).               *)
BadgeOfActive ==
    Idle => \A p \in Projects :
        LET badge == getPublicBadgeSummary(p)
            latest == {c \in stored : /\ RunProject[Content[c].run] = p /\ Content[c].covered
                                      /\ submission[c] = "superseded" => Content[c].kind = "performance"}
            newest(r) == {q \in Runs : /\ run[q] # None /\ RunProject[q] = p
                                      /\ run[q].completedAt >= run[r].completedAt}
        IN  /\ \A pct \in badge.linesPct : \E c \in latest : Content[c].linesPct = pct
            /\ badge.run # None => badge.failed = run[badge.run].failed
            /\ \A r \in Runs : r # badge.run /\ RunProject[r] = p /\ pointer[r]["tests"] # None =>
                  \/ Cardinality(newest(r)) > BadgeLimit
                  \/ badge.run # None /\ run[r].completedAt <= run[badge.run].completedAt

(* What is listed in pages is listed completely, by the server's cursors    *)
(* and by the overview that merges pages of several scopes.                 *)
NothingSkipped == PagesComplete /\ FeedComplete

(* What one answer says of a run or a project holds together, and is for    *)
(* those who may see it.                                                    *)
AnswersSound == FactsOfOneSubmission /\ GuestsSeePublicOnly /\ BadgeOfActive

-----------------------------------------------------------------------------
(* The backfill.                                                            *)

StoredOf(p) == {r \in Runs : run[r] # None /\ RunProject[r] = p}

(* The project's row counts its runs. *)
Counts(p) == StoredOf(p) # {} => project[p] # None /\ project[p].runCount = Cardinality(StoredOf(p))

(* An upload of the project was committed while the job was writing what it *)
(* had read before.                                                        *)
Overtaken(p) == /\ backfill.pc = "rebuild" /\ backfill.rows[p] # None
                /\ backfill.rows[p] # ProjectProjection(overview, p)


(* The same, whenever uploads are committed. *)
ProjectsCounted == \A p \in Projects : <>[]Counts(p)

(* What a publisher has uploaded is what the run shows, not the report the  *)
(* backfill has adopted.                                                   *)
UploadStands ==
    [][\A r \in Runs, k \in FactKinds :
          pointer[r][k] # None /\ pointer[r][k] \notin Legacy => pointer'[r][k] \notin Legacy]_vars
=============================================================================
