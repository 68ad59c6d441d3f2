------------------------------ MODULE Queries ------------------------------
(***************************************************************************)
(* The query service of the server, packages/server/graphql/               *)
(* query-service.js: what each GraphQL read returns from the tables that   *)
(* the ingestion service writes.                                           *)
(*                                                                         *)
(* The tables are the VARIABLES, which Reading changes.  A row of          *)
(* ReportSubmission and the facts stored with it are named by the content  *)
(* they came from, Content[c]: the rows of the fact tables are derived     *)
(* from it.  A row's reportSubmissionId is c, or None while the row is     *)
(* older than the submissions and has not been adopted.  Lists are sets of *)
(* rows: their order is the relation Before, a page is the rows that come  *)
(* first.                                                                  *)
(***************************************************************************)
EXTENDS Integers, FiniteSets

CONSTANTS Runs,        \* run ids, in their order
          Projects,
          RunProject,  \* the project of each run
          Contents,    \* submission ids, in their order
          Content,     \* what each submission holds
          PageSize,    \* entries of a page
          MaxCoverageChanges, \* entries of a list of coverage changes
          BadgeLimit,  \* the runs the badge is made of
          Collation,   \* the place of a path in the database's order
          None

VARIABLES run,          \* the rows of Run
          overview,     \* the rows of RunOverview
          project,      \* the rows of ProjectOverview
          submission,   \* submission[c]: the status of c's ReportSubmission, or None
          pointer,      \* pointer[r][k]: RunActiveSubmission
          stored        \* the contents whose facts are stored

FactKinds == {"tests", "coverage", "performance"}

(* What a submission holds: columns of its run, and the facts of its report, *)
(* which need not be of the kinds it is published as.  A path is its place  *)
(* in the order of JavaScript's localeCompare.                             *)
SuiteType == [id : Nat, package : STRING]
TestType == [id : Nat, suite : Nat, status : STRING, module : STRING \union {None},
             file : Nat \union {None}, word : STRING]
ErrorType == [id : Nat, test : Nat]
ArtifactType == [id : Nat, test : Nat \union {None}, word : STRING]
FileType == [id : Nat, path : Nat, linesPct : Nat \union {None}, package : STRING \union {None}]
PackageType == [name : STRING, status : STRING, total : Nat, failed : Nat, skipped : Nat, suites : SUBSET STRING]

ContentType ==
    [run : Runs, kind : {"tests", "coverage", "performance", "combined"}, kinds : SUBSET FactKinds,
     producer : STRING, completedAt : Nat, words : SUBSET STRING, status : {"passed", "failed", "unknown"},
     total : Nat, failed : Nat, covered : BOOLEAN, linesPct : Nat \union {None}, suites : SUBSET SuiteType,
     tests : SUBSET TestType, errors : SUBSET ErrorType, artifacts : SUBSET ArtifactType,
     files : SUBSET FileType, packages : SUBSET PackageType, statGroup : STRING \union {None}]

(* The tables' keys tell the facts of all submissions apart, and the files  *)
(* of a snapshot by their paths; a test is of a suite of its report, an    *)
(* error of a test, a file of its coverage.                                *)
KeysApart ==
    \A c, d \in Contents :
        /\ \A s \in Content[c].suites, t \in Content[d].suites : s.id = t.id => s = t /\ c = d
        /\ \A t \in Content[c].tests, u \in Content[d].tests : t.id = u.id => t = u
        /\ \A a \in Content[c].artifacts, b \in Content[d].artifacts : a.id = b.id => a = b /\ c = d
        /\ \A f \in Content[c].files, g \in Content[d].files : f.id = g.id => f = g /\ c = d
        /\ \A t \in Content[c].tests : \E s \in Content[c].suites : s.id = t.suite
        /\ \A e \in Content[c].errors : \E t \in Content[c].tests : t.id = e.test
        /\ \A f, g \in Content[c].files : f.path = g.path => f = g
        /\ Content[c].files # {} => Content[c].covered

ASSUME QueriesAssumption ==
    /\ IsFiniteSet(Runs) /\ Runs \subseteq Int
    /\ RunProject \in [Runs -> Projects]
    /\ IsFiniteSet(Contents) /\ Contents \subseteq Nat
    /\ PageSize \in Nat \ {0} /\ BadgeLimit \in Nat \ {0}
    /\ \A c \in Contents : \A f \in Content[c].files : f.path \in DOMAIN Collation /\ Collation[f.path] \in Nat
    /\ Content \in [Contents -> ContentType] /\ KeysApart
    /\ \A c \in Contents : /\ IsFiniteSet(Content[c].tests) /\ IsFiniteSet(Content[c].errors)
                           /\ IsFiniteSet(Content[c].artifacts) /\ IsFiniteSet(Content[c].files)
                           /\ Content[c].kind # "combined" => Content[c].kinds = {Content[c].kind}

-----------------------------------------------------------------------------
(* The rows of the fact tables.                                             *)

(* A fact knows its submission once the submission exists. *)
ReportSubmissionId(c) == IF submission[c] = None THEN None ELSE c

SuiteRun == UNION {{[id |-> s.id, run |-> Content[c].run, sub |-> ReportSubmissionId(c),
                         package |-> s.package] : s \in Content[c].suites} : c \in stored}

TestExecution == UNION {Content[c].tests : c \in stored}

ErrorOccurrence == UNION {{[id |-> e.id, run |-> Content[c].run, sub |-> ReportSubmissionId(c),
                                test |-> e.test] : e \in Content[c].errors} : c \in stored}

Artifact == UNION {{[id |-> a.id, run |-> Content[c].run, sub |-> ReportSubmissionId(c),
                         test |-> a.test, word |-> a.word] : a \in Content[c].artifacts} : c \in stored}

(* At most one snapshot a submission, when its report has coverage. *)
CoverageSnapshot == {[id |-> c, run |-> Content[c].run, sub |-> ReportSubmissionId(c),
                          linesPct |-> Content[c].linesPct] :
                            c \in {d \in stored : Content[d].covered}}

CoverageFile == UNION {{[id |-> f.id, snapshot |-> c, path |-> f.path, linesPct |-> f.linesPct,
                             package |-> f.package] : f \in Content[c].files} : c \in stored}

(* A point for the project and one for each file; package and module points *)
(* are made like those of the files.                                       *)
CoverageTrendPoint ==
    UNION {{[run |-> Content[c].run, sub |-> ReportSubmissionId(c), scope |-> "file", key |-> f.path,
             linesPct |-> f.linesPct, at |-> Content[c].completedAt] : f \in Content[c].files}
           \union {[run |-> s.run, sub |-> s.sub, scope |-> "project", key |-> None,
                    linesPct |-> s.linesPct, at |-> Content[c].completedAt] :
                      s \in {t \in CoverageSnapshot : t.id = c}} : c \in stored}

PerformanceStat == {[run |-> Content[c].run, sub |-> ReportSubmissionId(c),
                         group |-> Content[c].statGroup] :
                           c \in {d \in stored : Content[d].statGroup # None}}

-----------------------------------------------------------------------------
(* Orders and pages.                                                        *)

(* Percentages are compared when both are known; what is unknown comes last *)
(* in JavaScript and in an ascending ORDER BY, first in a descending one.  *)
PctBefore(order, a, b) ==
    CASE order = "lines-asc" -> IF b = None THEN a # None ELSE a # None /\ a < b
      [] order = "lines-desc" -> IF b = None THEN a # None ELSE a # None /\ a > b
      [] order = "sql-lines-desc" -> IF a = None THEN b # None ELSE b # None /\ a > b

ByPct == {"lines-asc", "lines-desc", "sql-lines-desc"}

Before(order, a, b) ==
    CASE order = "newest" -> \/ a.completedAt > b.completedAt
                             \/ a.completedAt = b.completedAt /\ a.id > b.id
      [] order = "id" -> a.id < b.id
      [] order = "path-asc" -> \/ a.path < b.path
                               \/ a.path = b.path /\ a.id < b.id
      [] order = "sql-path-asc" -> \/ Collation[a.path] < Collation[b.path]
                                   \/ Collation[a.path] = Collation[b.path] /\ a.id < b.id
      [] order \in ByPct -> \/ PctBefore(order, a.linesPct, b.linesPct)
                            \/ a.linesPct = b.linesPct /\ a.id < b.id

(* ORDER BY order LIMIT n, and the head and the last of a list. *)
First(rows, n, order) == {x \in rows : Cardinality({y \in rows : Before(order, y, x)}) < n}
Foremost(rows, order) == IF rows = {} THEN None ELSE CHOOSE x \in rows : First(rows, 1, order) = {x}
Last(rows, order) == IF rows = {} THEN None ELSE CHOOSE x \in rows : \A y \in rows \ {x} : Before(order, y, x)

-----------------------------------------------------------------------------
(* Submissions and what is selected of a run.                               *)

(* The pointers of the runs' kinds; only when there is none at all, the     *)
(* active submissions of these kinds and the combined ones.                *)
loadActiveSubmissionIds(runs, kinds) ==
    LET selected == {c \in stored : \E r \in runs, k \in kinds \intersect FactKinds : pointer[r][k] = c}
        active == {c \in stored : /\ submission[c] = "active" /\ Content[c].run \in runs
                                  /\ Content[c].kind \in kinds \union {"combined"}}
    IN  IF selected # {} THEN selected ELSE active

(* The condition a list of ids puts on the rows: none when the list is empty. *)
Selected(rows, runs, ids) == {x \in rows : x.run \in runs /\ (ids = {} \/ x.sub \in ids)}

loadPublicationKindsByRunId(r) == {k \in FactKinds : pointer[r][k] # None}

-----------------------------------------------------------------------------
(* Projects and runs.                                                       *)

(* An actor is the set of the projects that access gives to it. *)
listProjects(actor) == actor \intersect Projects

ProjectRow(p) ==
    LET o == project[p] IN
    [project |-> p, runCount |-> IF o = None THEN 0 ELSE o.runCount,
     latestRun |-> IF o = None THEN None ELSE o.latestRun,
     kinds |-> IF o = None THEN {} ELSE loadPublicationKindsByRunId(o.latestRun)]

findProject(actor, p) == IF p \in listProjects(actor) THEN ProjectRow(p) ELSE None

(* One record for a row of RunOverview as the feed shows it. *)
decorateProjectedRun(r) ==
    [id |-> r, completedAt |-> overview[r].completedAt, status |-> overview[r].status,
     total |-> overview[r].total, failed |-> overview[r].failed,
     linesPct |-> overview[r].linesPct, kinds |-> loadPublicationKindsByRunId(r)]

OverviewMatches(row, query) ==
    /\ query.status = None \/ row.status = query.status
    /\ query.search = None \/ query.search \in row.words

(* Faulty variant: runs that were completed at once are not told apart. *)
CompletedBefore(row, after) == row.completedAt < after.completedAt

AfterRun(row, after) == \/ row.completedAt < after.completedAt
                        \/ row.completedAt = after.completedAt /\ row.id < after.id

(* Correct variant: the cursor is a condition beside the search. *)
FeedWhereBoth(row, query) ==
    /\ OverviewMatches(row, query)
    /\ query.after = None \/ AfterRun(row, query.after)

(* The search and the cursor are both the one key Op.or of the condition:   *)
(* behind a cursor there is no search.                                     *)
FeedWhere(row, query) ==
    IF query.after = None THEN OverviewMatches(row, query)
    ELSE OverviewMatches(row, [query EXCEPT !.search = None]) /\ AfterRun(row, query.after)

OverviewRow(r) == [id |-> r, completedAt |-> overview[r].completedAt,
                       status |-> overview[r].status, words |-> run[r].words]

(* The ids of a page of runs, over the projection. *)
listRuns(actor, query) ==
    LET projects == {p \in listProjects(actor) : query.project \in {None, p}}
        rows == {OverviewRow(r) : r \in {x \in Runs : /\ overview[x] # None
                                                      /\ RunProject[x] \in projects
                                                      /\ overview[x].completedAt # None}}
    IN  First({x \in rows : FeedWhere(x, query)}, query.limit, "newest")

listRunFeed(actor, query) == {decorateProjectedRun(x.id) : x \in listRuns(actor, query)}

encodeRunCursor(row) == IF row = None \/ row.completedAt = None THEN None
                        ELSE [id |-> row.id, completedAt |-> row.completedAt]

Latest(rows) == IF rows = {} THEN None ELSE CHOOSE x \in rows : \A y \in rows : y.id <= x.id

(* A run is the stored row, with the coverage of its selected submission. *)
CoverageSnapshotOf(r) ==
    Latest(Selected(CoverageSnapshot, {r}, loadActiveSubmissionIds({r}, {"coverage", "combined"})))

Found(actor, r) == run[r] # None /\ RunProject[r] \in listProjects(actor)

findRun(actor, r) ==
    IF ~Found(actor, r) THEN None
    ELSE [id |-> r, project |-> RunProject[r], status |-> run[r].status,
          completedAt |-> run[r].completedAt,
          total |-> run[r].total, failed |-> run[r].failed,
          linesPct |-> IF CoverageSnapshotOf(r) = None THEN None ELSE CoverageSnapshotOf(r).linesPct]

getRunPublicationKinds(actor, r) == IF Found(actor, r) THEN loadPublicationKindsByRunId(r) ELSE {}

PerformanceOf(r) ==
    Selected(PerformanceStat, {r}, loadActiveSubmissionIds({r}, {"performance", "combined"}))

hasRunPerformance(actor, r) ==
    Found(actor, r) /\ \E s \in PerformanceOf(r) : s.group = "benchmark"

listRunPerformanceStats(actor, r) == IF Found(actor, r) THEN PerformanceOf(r) ELSE {}

-----------------------------------------------------------------------------
(* The facts of a run: suites, tests, failures, errors and artifacts.       *)

(* Faulty variant: the suites of every submission of the run. *)
listEverySuite(actor, r) == IF Found(actor, r) THEN {s \in SuiteRun : s.run = r} ELSE {}

listSuitesForRun(actor, r) ==
    IF Found(actor, r)
    THEN Selected(SuiteRun, {r}, loadActiveSubmissionIds({r}, {"tests"}))
    ELSE {}

Ids(rows) == {x.id : x \in rows}

listTestsForRun(actor, r, query) ==
    LET suites == listSuitesForRun(actor, r)
        packaged == {s \in suites : query.package \in {None, s.package}}
    IN  {t \in TestExecution : /\ t.suite \in Ids(packaged)
                               /\ query.status \in {None, t.status}
                               /\ query.module \in {None, t.module}
                               /\ query.file \in {None, t.file}}

Everything == [package |-> None, status |-> None, module |-> None, file |-> None]

(* A page of tests of one suite, which need not be of the selected          *)
(* submission, with the entry after it.                                    *)
listTestsForSuiteRun(actor, r, suite, query) ==
    IF \E s \in SuiteRun : s.id = suite /\ s.run = r /\ Found(actor, r)
    THEN First({t \in TestExecution : /\ t.suite = suite
                                      /\ query.after = None \/ t.id > query.after.id
                                      /\ query.status \in {None, t.status}
                                      /\ query.search = None \/ query.search = t.word},
               query.limit, "id")
    ELSE {}

(* A page as its caller shows it: its entries, whether there are more, and  *)
(* where the next one begins.                                              *)
PageOf(rows, limit, order) ==
    LET page == First(rows, limit, order)
    IN  [rows |-> page, hasMore |-> Cardinality(rows) > limit, next |-> Last(page, order)]

FailuresMatching(actor, r, query) ==
    {t \in listTestsForRun(actor, r, [Everything EXCEPT !.status = "failed"]) :
        query.search = None \/ query.search = t.word}

(* The rows that are read are one more than the page holds. *)
listRunFailures(actor, r, query) ==
    LET rows == {t \in FailuresMatching(actor, r, query) :
                    query.after = None \/ t.id > query.after.id}
    IN  PageOf(First(rows, PageSize + 1, "id"), PageSize, "id")

ArtifactsSelected(actor, r, test) ==
    {a \in Selected(Artifact, {r}, loadActiveSubmissionIds({r}, FactKinds)) :
        Found(actor, r) /\ test \in {None, a.test}}

(* The text is looked for in the rows the LIMIT has left. *)
listArtifacts(actor, r, test, query) ==
    LET rows == {a \in ArtifactsSelected(actor, r, test) :
                    query.after = None \/ a.id > query.after.id}
    IN  {a \in (IF query.limit = None THEN rows ELSE First(rows, query.limit, "id")) :
            query.search = None \/ query.search = a.word}

AllArtifacts == [after |-> None, limit |-> None, search |-> None]

artifactPage(actor, r, query) ==
    PageOf(listArtifacts(actor, r, None, [query EXCEPT !.limit = PageSize + 1]), PageSize, "id")

ErrorsOf(r, test) ==
    {e \in Selected(ErrorOccurrence, {r}, loadActiveSubmissionIds({r}, {"tests", "combined"})) :
        test \in {None, e.test}}

getTestExplorerDetail(actor, r, test) ==
    IF Found(actor, r) /\ \E t \in TestExecution : t.id = test /\ \E s \in SuiteRun : s.id = t.suite /\ s.run = r
    THEN [errors |-> ErrorsOf(r, test), artifacts |-> listArtifacts(actor, r, test, AllArtifacts)]
    ELSE None

(* The failed test is one row of those that match, in no order: the set of  *)
(* the answers the database may give.                                      *)
getRunFailureEvidence(actor, r) ==
    LET failed == listTestsForRun(actor, r, [Everything EXCEPT !.status = "failed"])
        shown == IF failed = {} THEN {None} ELSE Ids(failed)
    IN  IF Found(actor, r)
        THEN {[test |-> t, error |-> Latest(ErrorsOf(r, t)),
               artifacts |-> listArtifacts(actor, r, None, AllArtifacts)] : t \in shown}
        ELSE {}

-----------------------------------------------------------------------------
(* Coverage.                                                                *)

getCoverageSnapshotForRun(actor, r) == IF Found(actor, r) THEN CoverageSnapshotOf(r) ELSE None

(* The database orders paths by its collation, and NULL first when it       *)
(* descends.                                                               *)
SqlOrder(sort) == CASE sort = "lines-desc" -> "sql-lines-desc"
                    [] sort = "path-asc" -> "sql-path-asc"
                    [] sort = "lines-asc" -> sort

(* What the database is asked for behind a cursor: a comparison with NULL   *)
(* holds for no row, and a cursor without a percentage is compared by id.  *)
buildCoverageCursorWhere(f, cursor, sort) ==
    IF cursor = None THEN TRUE
    ELSE IF sort = "path-asc" THEN Before(SqlOrder(sort), cursor, f)
    ELSE IF cursor.linesPct = None THEN f.id > cursor.id
    ELSE f.linesPct # None /\ Before(sort, cursor, f)

CoverageFilesOf(snapshot) == {f \in CoverageFile : f.snapshot = snapshot.id}

(* Rows are read in the database's order and sorted again in JavaScript's. *)
listCoverageFilePage(actor, r, query) ==
    LET snapshot == getCoverageSnapshotForRun(actor, r)
        rows == First({f \in CoverageFilesOf(snapshot) : buildCoverageCursorWhere(f, query.after, query.sort)},
                      PageSize + 1, SqlOrder(query.sort))
        filtered == {f \in rows : query.after = None \/ Before(query.sort, query.after, f)}
    IN  IF snapshot = None THEN [rows |-> {}, hasMore |-> FALSE, next |-> None]
        ELSE PageOf(filtered, PageSize, query.sort)

(* The latest run that was completed before, whatever it bears. *)
PreviousRun(actor, r) ==
    Foremost({[id |-> p, completedAt |-> run[p].completedAt] :
            p \in {q \in Runs : /\ run[q] # None /\ RunProject[q] = RunProject[r]
                                /\ run[q].completedAt < run[r].completedAt}}, "newest")

(* The points of both runs are read with one list of submissions. *)
ComparedPoints(runs) ==
    Selected(CoverageTrendPoint, runs, loadActiveSubmissionIds(runs, {"coverage", "combined"}))

diffMetric(current, previous) == IF current = None \/ previous = None THEN None ELSE current - previous

(* The points of a scope with the previous point of the same key; the       *)
(* largest changes are kept.                                               *)
CoverageChange(points, r, previous, p) ==
    LET before == {q \in points : q.run = previous /\ q.scope = p.scope /\ q.key = p.key}
        pct == IF before = {} THEN None ELSE (CHOOSE q \in before : TRUE).linesPct
    IN  [key |-> p.key, current |-> p.linesPct, previous |-> pct, delta |-> diffMetric(p.linesPct, pct)]

Magnitude(change) == CASE change.delta = None -> 0 - 1
                       [] change.delta # None /\ change.delta < 0 -> 0 - change.delta
                       [] OTHER -> change.delta

LargerChange(a, b) == \/ Magnitude(a) > Magnitude(b)
                      \/ Magnitude(a) = Magnitude(b) /\ a.key < b.key

buildCoverageChanges(points, r, previous, scope) ==
    LET changes == {CoverageChange(points, r, previous, p) : p \in {q \in points : q.run = r /\ q.scope = scope}}
    IN  {c \in changes : Cardinality({d \in changes : LargerChange(d, c)}) < MaxCoverageChanges}

ProjectPct(points, r) ==
    LET own == {p \in points : p.run = r /\ p.scope = "project"}
    IN  IF own = {} THEN None ELSE (CHOOSE p \in own : TRUE).linesPct

getRunCoverageComparison(actor, r) ==
    LET previous == PreviousRun(actor, r)
        other == IF previous = None THEN None ELSE previous.id
        points == ComparedPoints({r, other} \ {None})
    IN  IF ~Found(actor, r) THEN None
        ELSE [previousRun |-> other, current |-> ProjectPct(points, r), previous |-> ProjectPct(points, other),
              delta |-> diffMetric(ProjectPct(points, r), ProjectPct(points, other)),
              fileChanges |-> buildCoverageChanges(points, r, other, "file")]

getCoverageFileDetail(actor, r, file) ==
    LET snapshot == getCoverageSnapshotForRun(actor, r) IN
    {[file |-> f, tests |-> listTestsForRun(actor, r, [Everything EXCEPT !.file = f.path]),
      change |-> {c \in getRunCoverageComparison(actor, r).fileChanges : c.key = f.path}] :
        f \in {x \in CoverageFile : snapshot # None /\ x.id = file /\ x.snapshot = snapshot.id}}

(* The points of every project the actor may see are limited first, those   *)
(* of the project asked for are picked after.                              *)
listCoverageTrend(actor, shown, scope, key) ==
    LET seen == {p \in CoverageTrendPoint : /\ RunProject[p.run] \in listProjects(actor)
                                            /\ p.scope = scope /\ p.key = key}
        rows == {[id |-> p.run, completedAt |-> p.at, linesPct |-> p.linesPct] : p \in seen}
    IN  {p \in First(rows, PageSize, "newest") : shown \in {None, RunProject[p.id]}}

-----------------------------------------------------------------------------
(* The report of a run, and what is made of it with the facts.              *)

(* The one selected submission; without any there is no report. *)
getActiveRunReport(actor, r, kind) ==
    LET ids == loadActiveSubmissionIds({r}, {kind})
    IN  IF ~Found(actor, r) \/ ids = {} THEN None
        ELSE Latest({[id |-> c, packages |-> Content[c].packages] : c \in ids})

deriveReportedCollectionStatus(p) ==
    LET known == p.suites \union {p.status}
    IN  IF "failed" \in known \/ (p.total > 0 /\ p.failed > 0) THEN "failed"
        ELSE IF p.total > 0 THEN IF p.skipped = p.total THEN "skipped" ELSE "passed"
        ELSE IF "passed" \in known THEN "passed" ELSE "skipped"

listRunPackages(actor, r) ==
    LET report == getActiveRunReport(actor, r, "tests")
    IN  IF report = None THEN {}
        ELSE {[name |-> p.name, status |-> deriveReportedCollectionStatus(p)] : p \in report.packages}

(* A file of a run has the tests that name it and the coverage of its path. *)
RunFile(path, tests, covered) ==
    [path |-> path, tests |-> Cardinality(tests), failed |-> Cardinality({t \in tests : t.status = "failed"}),
     status |-> IF \E t \in tests : t.status = "failed" THEN "failed"
                ELSE IF tests # {} THEN "passed"
                ELSE IF covered # {} THEN "covered" ELSE "unknown"]

listRunFiles(actor, r) ==
    LET tests == {t \in listTestsForRun(actor, r, Everything) : t.file # None}
        snapshot == getCoverageSnapshotForRun(actor, r)
        files == IF snapshot = None THEN {} ELSE CoverageFilesOf(snapshot)
    IN  {RunFile(path, {t \in tests : t.file = path}, {f \in files : f.path = path}) :
            path \in {t.file : t \in tests} \union {f.path : f \in files}}

-----------------------------------------------------------------------------
(* The public badge: it knows the active submissions, not the selection.    *)

(* The last hundred runs of the project: BadgeLimit of them. *)
BadgeRuns(p) == First({[id |-> r, completedAt |-> run[r].completedAt] :
                          r \in {q \in Runs : run[q] # None /\ RunProject[q] = p}}, BadgeLimit, "newest")

ActiveOf(runs, kinds) == {c \in stored : /\ submission[c] = "active"
                                         /\ Content[c].run \in Ids(runs) /\ Content[c].kind \in kinds}

(* The percentages the badge may show: any snapshot of the active           *)
(* submissions of the latest run that has one.                             *)
BadgeSnapshots(p) ==
    LET runs == BadgeRuns(p)
        known == ActiveOf(runs, {"tests", "coverage", "combined"})
        bearing == {x \in runs : \E c \in ActiveOf(runs, {"coverage", "combined"}) : Content[c].run = x.id}
    IN  IF known = {}
        THEN {s \in CoverageSnapshot : runs # {} /\ s.run = Foremost(runs, "newest").id}
        ELSE {s \in CoverageSnapshot :
                 /\ bearing # {} /\ s.run = Foremost(bearing, "newest").id
                 /\ s.sub \in ActiveOf(runs, {"coverage", "combined"})}

getPublicBadgeSummary(p) ==
    LET runs == BadgeRuns(p)
        tested == {x \in runs : \E c \in ActiveOf(runs, {"tests", "combined"}) : Content[c].run = x.id}
        shown == IF ActiveOf(runs, {"tests", "coverage", "combined"}) = {} THEN runs ELSE tested
    IN  [run |-> IF shown = {} THEN None ELSE Foremost(shown, "newest").id,
         total |-> IF shown = {} THEN 0 ELSE run[Foremost(shown, "newest").id].total,
         failed |-> IF shown = {} THEN 0 ELSE run[Foremost(shown, "newest").id].failed,
         linesPct |-> {s.linesPct : s \in BadgeSnapshots(p)}]
=============================================================================
