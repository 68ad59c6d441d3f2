------------------------------- MODULE Pipeline -------------------------------
(***************************************************************************)
(* From the suites of a project to the facts of a run: runReport executes  *)
(* its suites and builds the report (packages/core/src/run-report.js), a   *)
(* publisher or a script uploads it, the server stores it or refuses it,   *)
(* and a stored run is replayed, as often as somebody wants.               *)
(*                                                                         *)
(* One execution of a project, one upload and its replays.  What uploads   *)
(* of several reports do to a run is the subject of Ingest, timing that of *)
(* RunReport.                                                              *)
(***************************************************************************)
EXTENDS Adapters, Publish

CONSTANTS Setups,         \* the projects: suites, configuration, packages, execution
          Outcomes(_),    \* what the processes of a suite may do
          Publications,   \* how the report is published: [options, env]
          Posts,          \* how a script posts it: [projectKey, source, submission, fixture]
          OtherUploads    \* what uploads of other runs leave in the rows of the project and version

CONSTANTS Versions,       \* the tags that are semantic versions
          MaxReplays      \* bound: how often a run is replayed

VARIABLES setup,     \* the project that is executed
          phase,     \* how far it has come
          policy,    \* the context of the policy
          processes, \* what the processes of the suites have done so far
          results,   \* the results of the suites so far
          report,    \* the report
          disk,      \* what is written to the output directory: paths and contents
          upload,    \* what is uploaded
          run,       \* what the server stores of it
          replays    \* how often it has been replayed

vars == <<setup, phase, policy, processes, results, report, disk, upload, run, replays>>

IsList(s) == s \in Seq(ToSet(s))
TestFields == {"status", "module", "theme", "source"}
Statuses == {"passed", "failed", "skipped"}

(* What a runner leaves has lists where the adapters go through them.       *)
OutcomeOK(suite, outcome) ==
    /\ suite.adapter = "node-test" => IsList(outcome.events)
    /\ suite.adapter \in {"jest", "vitest"} =>
          \A left \in {outcome.file, outcome.stdout, outcome.stderr} \ {None} : IsList(left.assertions)
    /\ suite.adapter = "playwright" /\ outcome.payload # None => IsList(outcome.payload.specs)
    /\ suite.adapter = "shell" /\ suite.resultFormat = "suite-json-v1" /\ outcome.payload # None =>
          /\ IsList(outcome.payload.tests) /\ IsList(outcome.payload.performanceStats)
          /\ IsList(outcome.payload.rawArtifacts)
          /\ \A test \in ToSet(outcome.payload.tests) : TestFields \subseteq DOMAIN test

(* A plugin keeps the status of a test one, and its module a name.          *)
PatchOK(patch) ==
    /\ "status" \in DOMAIN patch => patch.status \in Statuses
    /\ "module" \in DOMAIN patch => patch.module # None

ASSUME PipelineAssumption ==
    /\ MaxReplays \in Nat
    /\ \A post \in Posts : DOMAIN post.source = SourceFields
    /\ None \notin {"uncategorized", "default", "plugin", "adapter", "suite", "suite-json-v1", "single-check-json-v1"}
    /\ \A s \in Setups :
          /\ IsList(s.suites) /\ IsList(s.packages) /\ IsList(gatherPluginEntries(s.config))
          /\ \A plugin \in ToSet(ResolvedEntries(s.builtIns, s.modules, s.config)) \ {None, Rejected} :
                \A path \in DOMAIN plugin.enrichTest : PatchOK(plugin.enrichTest[path])
          /\ \A path \in DOMAIN s.manifests :
                "thresholds" \in DOMAIN s.manifests[path] => IsList(s.manifests[path].thresholds.modules)
          /\ \A suite \in ToSet(s.suites) :
                /\ suite.adapter \in {"node-test", "jest", "vitest", "playwright", "shell"}
                /\ \A outcome \in Outcomes(suite) : OutcomeOK(suite, outcome)

Phases == {"start", "running", "reported", "published", "stored", "rejected", "refused"}

Init ==
    /\ setup \in Setups
    /\ phase = "start" /\ policy = None /\ processes = <<>> /\ results = <<>> /\ report = None
    /\ disk = <<>> /\ upload = None /\ run = None /\ replays = 0

-----------------------------------------------------------------------------
(* The execution                                                            *)

(* Configuration that does not load ends the execution. *)
Prepare ==
    LET context == preparePolicyContext(setup.manifests, setup.builtIns, setup.modules, setup.config) IN
    /\ phase = "start"
    /\ IF context = Rejected THEN phase' = "rejected" /\ UNCHANGED policy
       ELSE phase' = "running" /\ policy' = context
    /\ UNCHANGED <<setup, processes, results, report, disk, upload, run, replays>>

(* The configured packages, then those that only suites name; the suites    *)
(* run package by package.                                                  *)
resolvePackageCatalog(configured, suites) ==
    Dedupe(configured \o [i \in DOMAIN suites |-> suites[i].package])
SuitesOf(project) ==
    LET catalog == resolvePackageCatalog(project.packages, project.suites)
    IN FlattenSeq([i \in DOMAIN catalog |-> Where(project.suites, LAMBDA s : s.package = catalog[i])])
Suites == SuitesOf(setup)

(* An adapter that throws is a suite with one failed test. *)
FailedSuite(suite) ==
    [RawResult("failed", Counts(1, 0, 1, 0), <<RawTest(suite.id \o " failed", None, "failed", <<"error">>)>>,
               None, {}, <<>>)
     EXCEPT !.tests = [i \in DOMAIN @ |-> [@[i] EXCEPT !.module = "uncategorized",
                                                       !.theme = "uncategorized", !.source = "default"]]]

createDryRunSuiteResult(suite) ==
    normalizeSuiteResult(RawResult("skipped", Counts(0, 0, 0, 0), <<>>, None, {"dry run"}, <<>>), suite)

(* diagnosis: how the rerun of a failed suite ends. *)
attachDiagnostics(suite, result, diagnosis) ==
    IF result.status # "failed" \/ ~suite.diagnosed THEN result
    ELSE LET log == [relativePath |-> <<"diagnostics", suite.slug \o "-rerun.log">>, kind |-> "file",
                     content |-> diagnosis, sourcePath |-> None]
         IN [result EXCEPT !.warnings = @ \union {"diagnostics rerun"},
                           !.diagnostics = [status |-> diagnosis],
                           !.rawArtifacts = Append(@, log)]

(* raw: what the adapter returns, or Thrown. *)
ResultOf(suite, raw, outcome) ==
    IF setup.execution.dryRun THEN createDryRunSuiteResult(suite)
    ELSE attachDiagnostics(suite, normalizeSuiteResult(IF raw = Thrown THEN FailedSuite(suite) ELSE raw, suite),
                           outcome.diagnosis)

RunSuite ==
    /\ phase = "running"
    /\ Len(results) < Len(Suites)
    /\ LET suite == Suites[Len(results) + 1] IN
       \E outcome \in Outcomes(suite) :
          /\ processes' = Append(processes, outcome)
          /\ results' = Append(results, ResultOf(suite, AdapterRun(suite, setup.execution, outcome), outcome))
    /\ UNCHANGED <<setup, phase, policy, report, disk, upload, run, replays>>

(* The files of the report, then those of the suites in their order; one    *)
(* that is written again has the later content.  A directory is copied.     *)
SuiteFiles(suite, result) ==
    <<[path |-> <<"raw", suite.slug \o ".json">>, content |-> result]>>
        \o [i \in DOMAIN result.rawArtifacts |->
               [path |-> <<"raw">> \o result.rawArtifacts[i].relativePath,
                content |-> result.rawArtifacts[i].content]]

writeReportArtifacts(built, suites, suiteResults) ==
    <<[path |-> <<"report.json">>, content |-> built],
      [path |-> <<"modules.json">>, content |-> built.modules],
      [path |-> <<"ownership.json">>, content |-> {<<m.module, m.owner>> : m \in built.modules}]>>
        \o FlattenSeq([i \in DOMAIN suiteResults |-> SuiteFiles(suites[i], suiteResults[i])])

(* Policy, report and files; a hook that throws ends the execution.         *)
Finish ==
    /\ phase = "running"
    /\ Len(results) = Len(Suites)
    /\ IF \E i \in DOMAIN results : EnrichmentThrows(policy, results[i])
       THEN phase' = "rejected" /\ UNCHANGED <<results, report, disk>>
       ELSE /\ phase' = "reported"
            /\ results' = [i \in DOMAIN results |-> applyPolicyPipeline(policy, results[i])]
            /\ report' = buildReportFromSuiteResults(setup.meta, policy,
                                                     resolvePackageCatalog(setup.packages, setup.suites),
                                                     results', ~setup.execution.coverageExplicitlyDisabled)
            /\ disk' = writeReportArtifacts(report', Suites, results')
    /\ UNCHANGED <<setup, policy, processes, upload, run, replays>>

-----------------------------------------------------------------------------
(* Publication and storage                                                  *)

Publish ==
    /\ phase = "reported"
    /\ phase' = "published"
    /\ \/ \E p \in Publications : upload' = createIngestPayload(p.options, p.env, Versions, report, disk)
       \/ \E post \in Posts : upload' = postReport(post, report)
    /\ UNCHANGED <<setup, policy, processes, results, report, disk, run, replays>>

Percent(covered, total) == IF total <= 0 THEN None ELSE Percentage(covered, total)

(* The metrics of several files, as a point of a trend has them.            *)
aggregateCoverageMetrics(files) ==
    LET Total(m, count) ==
            FoldLeft(LAMBDA sum, f : IF f.metrics[m] = None THEN sum ELSE sum + f.metrics[m][count], 0, files)
    IN [m \in MetricNames |-> [covered |-> Total(m, "covered"), total |-> Total(m, "total"),
                               pct |-> Percent(Total(m, "covered"), Total(m, "total"))]]

(* A point for the project, each package, each module and each file.        *)
buildCoverageTrendPoints(project, snapshot, files) ==
    LET Point(scope, key, metrics) == [scope |-> scope, key |-> key, metrics |-> metrics]
        InPackage(name) == SelectSeq(files, LAMBDA f : f.package = name)
        InModule(key) == SelectSeq(files, LAMBDA f : <<f.package, f.module>> = key)
        packages == {f.package : f \in ToSet(files)} \ {None}
        modules == {<<f.package, f.module>> : f \in {g \in ToSet(files) : g.module # None}}
    IN (IF snapshot = None THEN {} ELSE {Point("project", <<project.key>>, snapshot)})
       \union {Point("package", <<name>>, aggregateCoverageMetrics(InPackage(name))) : name \in packages}
       \union {Point("module", key, aggregateCoverageMetrics(InModule(key))) : key \in modules}
       \union {Point("file", f.path, f.metrics) : f \in ToSet(files)}

(* The module that a fact belongs to: that of its package, or of none.      *)
ModuleRecord(normalized, package, module) ==
    IF module = None THEN None
    ELSE IF <<package, module>> \in DOMAIN normalized.modules THEN <<package, module>>
    ELSE IF <<None, module>> \in DOMAIN normalized.modules THEN <<None, module>> ELSE None

resolveProjectionBuildNumber(normalized) ==
    LET source == normalized.source
        version == normalized.projectVersion
        environment == OrElse(source.environment, NoEnvironment)
    IN OrElse(OrElse(IF version = None THEN None ELSE version.buildNumber, source.buildNumber), environment.runNumber)

NoOverview == [status |-> None, counts |-> None, linesPct |-> None, buildNumber |-> None, hasReportArtifact |-> FALSE]

HasReport(artifacts) ==
    \E i \in DOMAIN artifacts :
       artifacts[i].relativePath # <<>> /\ Last(artifacts[i].relativePath) = "index.html"

(* The projection of a run, which lists and overviews show: current until   *)
(* an upload has facts of that kind.  Coverage without lines has 0 percent. *)
RunOverview(current, normalized) ==
    LET kinds == normalized.submission.factKinds
        summary == normalized.summary
        lines == IF normalized.coverageSnapshot = None THEN None ELSE normalized.coverageSnapshot["lines"]
    IN [status |-> IF "tests" \in kinds THEN normalized.status ELSE current.status,
        counts |-> IF "tests" \in kinds
                   THEN Counts(summary.totalTests, summary.passedTests, summary.failedTests, summary.skippedTests)
                   ELSE current.counts,
        linesPct |-> IF "coverage" \notin kinds THEN current.linesPct ELSE IF lines = None THEN 0 ELSE lines.pct,
        buildNumber |-> resolveProjectionBuildNumber(normalized),
        hasReportArtifact |-> current.hasReportArtifact \/ HasReport(normalized.artifacts)]

(* What tells the submissions of a run apart, and their contents. *)
Revision(submission) ==
    [kind |-> submission.kind, producerKey |-> submission.producerKey,
     submissionKey |-> submission.submissionKey, content |-> submission.content]

SuitesClash(suites) == \E i, j \in DOMAIN suites : i # j /\ suites[i].suite = suites[j].suite

TestRecords(normalized) ==
    [i \in DOMAIN normalized.tests |->
        LET test == normalized.tests[i]
        IN test @@ [moduleRecord |-> ModuleRecord(normalized, test.package, test.module)]]

(* What an upload makes of the run (None: it is new).  What was active      *)
(* already, with this content, stores no facts again.  Two suites of one    *)
(* identifier break the unique index, and nothing is stored.  The rows of   *)
(* the submissions before stay.                                             *)
persistRun(existing, normalized) ==
    LET revision == Revision(normalized.submission) IN
    IF existing # None /\ existing.submission # None /\ existing.submission = revision
    THEN [existing EXCEPT !.facts = normalized]
    ELSE IF SuitesClash(normalized.suites) THEN Refused("suite_identifier")
    ELSE [facts |-> normalized, submission |-> revision,
          tests |-> TestRecords(normalized),
          trend |-> buildCoverageTrendPoints(normalized.project, normalized.coverageSnapshot,
                                             normalized.coverageFiles),
          overview |-> RunOverview(IF existing = None THEN NoOverview ELSE OrElse(existing.overview, NoOverview),
                                   normalized),
          artifacts |-> (IF existing = None THEN <<>> ELSE existing.artifacts) \o normalized.artifacts,
          rawReport |-> IF existing = None THEN None ELSE existing.rawReport]

(* The answer to an upload: the run, or an error and nothing stored.        *)
Stored(existing, payload) ==
    LET normalized == normalizeIngestPayload(payload) IN
    IF IsRefused(normalized) THEN normalized ELSE persistRun(existing, normalized)

(* A run of before submissions keeps its report, and has no overview yet;   *)
(* others keep none, their submissions do.                                  *)
Ingest ==
    /\ phase = "published"
    /\ LET stored == Stored(None, upload) IN
       \/ run' = stored
       \/ /\ ~IsRefused(stored) /\ upload.submission = normalizeSubmissionOptions(None)
          /\ run' = [stored EXCEPT !.rawReport = upload.report, !.submission = None, !.overview = None]
    /\ phase' = IF IsRefused(run') THEN "refused" ELSE "stored"
    /\ UNCHANGED <<setup, policy, processes, results, report, disk, upload, replays>>

(* What the run itself has left in the rows of its project and version.     *)
OwnRows(facts) ==
    [name |-> facts.project.name, repositoryUrl |-> facts.project.repositoryUrl,
     defaultBranch |-> facts.project.defaultBranch,
     buildNumber |-> IF facts.projectVersion = None THEN None ELSE facts.projectVersion.buildNumber]

ReplayOf(stored, rows) ==
    LET facts == stored.facts IN
    buildReplayPayload([key |-> facts.project.key, name |-> rows.name, repositoryUrl |-> rows.repositoryUrl,
                        defaultBranch |-> rows.defaultBranch],
                       IF facts.projectVersion = None THEN None ELSE rows.buildNumber,
                       facts.source, stored.rawReport, stored.artifacts)

(* A run that has its report is uploaded again from what is stored.         *)
Replay ==
    /\ phase = "stored"
    /\ replays < MaxReplays
    /\ hasReplayableRawReport(run)
    /\ \E rows \in {OwnRows(run.facts)} \union OtherUploads : upload' = ReplayOf(run, rows)
    /\ run' = LET again == Stored(run, upload') IN IF IsRefused(again) THEN run ELSE again
    /\ replays' = replays + 1
    /\ UNCHANGED <<setup, phase, policy, processes, results, report, disk>>

Next == Prepare \/ RunSuite \/ Finish \/ Publish \/ Ingest \/ Replay

Spec == Init /\ [][Next]_vars

-----------------------------------------------------------------------------
(* Properties                                                               *)

Ran == {i \in DOMAIN results : ~setup.execution.dryRun}
IsStored == phase = "stored"

(* Every suite of the project has at most one result, a report has one of   *)
(* every suite, and only what is published is stored.                       *)
TypeOK ==
    /\ phase \in Phases
    /\ Len(results) = Len(processes)
    /\ Len(results) <= Len(Suites)
    /\ \A i \in DOMAIN results : 
             /\ results[i].id = Suites[i].id
             /\ \A test \in ToSet(results[i].tests) : test.status \in Statuses
    /\ report # None => Len(results) = Len(Suites)
    /\ run # None => phase \in {"stored", "refused"}
    /\ replays \in 0..MaxReplays
    /\ IsStored => ~IsRefused(run)

ReportedTests(status) == MapThenSumSet(LAMBDA i : CountOf(results[i].tests, LAMBDA t : t.status = status),
                                       DOMAIN results)
ThemesOf(modules) == UNION {{<<m.module, t>> : t \in m.themes} : m \in modules}
TotalOf(status) ==
    CASE status = "passed"  -> report.summary.passedTests
      [] status = "failed"  -> report.summary.failedTests
      [] status = "skipped" -> report.summary.skippedTests

(* However tests are grouped (report.js 99-349, normalize.js 163-245), by   *)
(* suite, module or theme, no test is lost and none counted twice; every    *)
(* test is stored as a row that has its module, and its file, in the        *)
(* catalog of the project.                                                  *)
NothingLost ==
    /\ report # None =>
          \A status \in Statuses :
             /\ TotalOf(status) = ReportedTests(status)
             /\ MapThenSumSet(LAMBDA m : m.summary[status], report.modules) = ReportedTests(status)
             /\ MapThenSumSet(LAMBDA t : t[2].summary[status], ThemesOf(report.modules)) = ReportedTests(status)
    /\ IsStored =>
          /\ \A status \in Statuses :
                CountOf(run.tests, LAMBDA t : t.status = status) = ReportedTests(status)
          /\ \A i \in DOMAIN run.tests :
                /\ run.tests[i].moduleRecord = <<run.tests[i].package, run.tests[i].module>>
                /\ run.tests[i].file \in {None} \union DOMAIN run.facts.files

(* A runner whose process fails, is killed or leaves no report fails its    *)
(* suite, whatever it has reported; a failed suite fails its package and    *)
(* the run, even if no test of it has failed.  (The JSON formats of the     *)
(* shell adapter let the payload speak instead.)                            *)
FailureVisible ==
    /\ \A i \in Ran :
          Suites[i].resultFormat = None /\ exitCode(processes[i].code) # 0 => results[i].status = "failed"
    /\ report # None =>
          \A i \in DOMAIN results, p \in DOMAIN report.packages :
             results[i].status = "failed" /\ report.packages[p].name = results[i].package
                => report.packages[p].status = "failed"
    /\ IsStored =>
          (run.facts.status = "failed"
              <=> \E i \in DOMAIN results : \/ results[i].status = "failed"
                                            \/ \E test \in ToSet(results[i].tests) : test.status = "failed")

(* Coverage is divided among modules and neither lost nor multiplied        *)
(* (coverage.js 46-98, policy.js 139-195).  A package has a file once,      *)
(* however many of its suites cover it; it is attributed, the package's     *)
(* alone or nobody's, and its shares in modules add up to it.  The whole    *)
(* has a file once too, though several packages cover it: in modules it     *)
(* then counts for each of them (policy.js 146-191, report.js 411).         *)
CoverageConserved ==
    report # None =>
        LET packages == report.packages
            FileOf(c) == CoverageFilesOf(packages[c[1]])[c[2]]
            covered == UNION {{<<p, i>> : i \in DOMAIN CoverageFilesOf(packages[p])} : p \in DOMAIN packages}
            summary == report.summary.coverageAttribution
            overall == report.summary.coverage
            Shares(c) == {k \in DOMAIN report.attributed :
                             /\ report.attributed[k].package = packages[c[1]].name
                             /\ report.attributed[k].path = FileOf(c).path}
            Abs(n) == IF n < 0 THEN -n ELSE n
        IN /\ \A c, d \in covered : c[1] = d[1] /\ FileOf(c).path = FileOf(d).path => c = d
           /\ \A c \in covered :
                Shares(c) # {} => Abs(MapThenSumSet(LAMBDA k : report.attributed[k].weight, Shares(c)) - Unit)
                                     <= Cardinality(Shares(c))
           /\ summary.totalFiles = Cardinality(covered)
           /\ summary.totalFiles = summary.attributedFiles + summary.packageOnlySharedFiles
                                       + summary.unattributedFiles
           /\ overall # None =>
                /\ Len(overall.files) = Cardinality({FileOf(c).path : c \in covered})
                /\ \A m \in MetricNames : overall.metrics[m] # None =>
                      overall.metrics[m].covered \in 0..overall.metrics[m].total

(* A module whose measured coverage is below a minimum of the manifest, or  *)
(* that lacks a metric beside the measured ones, fails the rule unless it   *)
(* only warns (policy.js 609-760); the last rule for a module counts.       *)
ThresholdsEnforced ==
    report # None /\ ~setup.execution.coverageExplicitlyDisabled =>
        LET rules == OrElse(policy.manifests.thresholds, EmptyManifest).thresholds.modules
            Minima(rule) == {m \in MetricNames : resolveThresholdMetric(rule.coverage, m) # None}
            Measured(module, m) == module.coverage # None /\ module.coverage.metrics[m] # None
            Misses(module, rule) ==
                /\ \E m \in Minima(rule) : Measured(module, m)
                /\ \E m \in Minima(rule) :
                      Measured(module, m)
                          => module.coverage.metrics[m].pct < resolveThresholdMetric(rule.coverage, m)
        IN \A i \in DOMAIN rules, module \in report.modules :
             (/\ rules[i].module = module.module /\ Misses(module, rules[i])
              /\ \A j \in DOMAIN rules : j > i => rules[j].module # module.module)
             => \E verdict \in report.thresholds.verdicts :
                   /\ verdict.key = <<module.module>>
                   /\ verdict.status = IF rules[i].enforcement = "warn" THEN "warn" ELSE "failed"

(* What the server links to has been written (artifacts.js 4-86,            *)
(* ingest-report-utils.mjs 70-110): a file of a suite is in the directory   *)
(* that is published, with the content of that suite unless another one     *)
(* shares its slug.                                                         *)
ArtifactsFound ==
    IsStored =>
        \A i \in DOMAIN results :
           LET own == {a \in ToSet(run.facts.artifacts) : a.suite = results[i].id}
               raw == results[i].rawArtifacts
               WritesTo(path) == {w \in DOMAIN disk : disk[w].path = path}
           IN /\ \A a \in own : WritesTo(<<"raw">> \o a.relativePath) # {}
              /\ \A k \in DOMAIN raw :
                    /\ raw[k].relativePath \in {a.relativePath : a \in own}
                    /\ (\A j \in DOMAIN results : j # i => Suites[j].slug # Suites[i].slug)
                          => disk[Max(WritesTo(<<"raw">> \o raw[k].relativePath))].content = raw[k].content

(* What the source analysis tells of a test (plugin-source-analysis         *)
(* index.js 117-204) is said in it: a test that the runner places on a line *)
(* where one test begins has the assertions and the mocks that are in no    *)
(* other test, and no hook that is around it is missing.                    *)
DetailsOfTheTest ==
    report # None =>
        LET sources == UNION {DOMAIN plugin.sources : plugin \in ToSet(policy.plugins)}
            Reader(path) == CHOOSE plugin \in ToSet(policy.plugins) : path \in DOMAIN plugin.sources
            Calls(path) == Reader(path).sources[path].calls
            Around(calls, i) ==
                LET Outer[k \in 0..Len(calls)] == IF k = 0 THEN {} ELSE {k} \union Outer[calls[k].within]
                IN Outer[calls[i].within]
            Read(path) == path # None /\ path \in sources /\ Reader(path).sources[path].parses
        IN \A i \in DOMAIN results : \A test \in ToSet(results[i].tests) : Read(test.path) =>
              LET calls == Calls(test.path)
                  Is(k, class) == classifyCall(calls[k].chain) = class
                  here == {k \in DOMAIN calls : Is(k, "test") /\ calls[k].line = test.line}
                  InIt(k, t) ==
                      /\ t \in Around(calls, k)
                      /\ \A n \in Around(calls, k) : n > t => ~Is(n, "test")
                      /\ \A n \in Around(calls, k) : n >= t /\ (n = t \/ Is(n, "hook")) => calls[n].block
              IN \A t \in here : Cardinality(here) = 1 =>
                    /\ ToSet(test.assertions) = {calls[k].line : k \in {k \in DOMAIN calls :
                                                    isAssertionCall(calls[k].chain) /\ InIt(k, t)}}
                    /\ \A k \in DOMAIN calls :
                          /\ Is(k, "hook") /\ Around(calls, k) \subseteq Around(calls, t)
                                => Contains(test.setup, calls[k].line)
                          /\ summarizeMock(calls[k]) # None /\ InIt(k, t)
                                => Contains(test.mocks, summarizeMock(calls[k]))

(* Nothing that the runners reported is lost or counted twice on the way to *)
(* the database: tests, what is said of them, covered lines and files.      *)
ReportComplete == NothingLost /\ CoverageConserved /\ ArtifactsFound /\ DetailsOfTheTest

(* A failure is one everywhere: of a process, and of a threshold.           *)
FailuresEnforced == FailureVisible /\ ThresholdsEnforced

(* The overview shows these facts. *)
Shown(overview, facts) ==
    LET own == RunOverview(NoOverview, facts) IN
    /\ "tests" \in facts.submission.factKinds => overview.status = own.status /\ overview.counts = own.counts
    /\ "coverage" \in facts.submission.factKinds => overview.linesPct = own.linesPct
    /\ HasReport(facts.artifacts) => overview.hasReportArtifact

(* A replay (regenerate-stored-reports.mjs 57-112) is accepted, whatever    *)
(* other uploads have left in the rows of the project and its version       *)
(* meanwhile, and however often it is done: it finds the same run, project, *)
(* version and kinds of facts, in the same state; the run loses no artifact *)
(* and gets none that it had not, its overview shows what was stored; and   *)
(* what the source said it says still, except that a project is public.     *)
Replayed(stored, again) ==
    /\ again.facts.externalKey = stored.facts.externalKey
    /\ again.facts.project.key = stored.facts.project.key
    /\ again.facts.submission.kind = stored.facts.submission.kind
    /\ again.facts.submission.factKinds = stored.facts.submission.factKinds
    /\ again.facts.status = stored.facts.status
    /\ \/ again.facts.projectVersion = None /\ stored.facts.projectVersion = None
       \/ /\ again.facts.projectVersion.versionKey = stored.facts.projectVersion.versionKey
          /\ again.facts.projectVersion.versionKind = stored.facts.projectVersion.versionKind
    /\ \A field \in SourceFields \ {"isPublic"} :
          stored.facts.source[field] # None => again.facts.source[field] = stored.facts.source[field]
    /\ again.tests = stored.tests /\ again.trend = stored.trend
    /\ ToSet(again.artifacts) = ToSet(stored.artifacts)
    /\ ToSet(again.facts.artifacts) = ToSet(stored.facts.artifacts)
    /\ Shown(again.overview, stored.facts)

ReplayKeepsFacts ==
    [][replays' # replays => ~IsRefused(Stored(run, upload')) /\ Replayed(run, run')]_vars

(* What a replay does not keep (README, disagreements): the number of the   *)
(* artifacts, as each replay uploads those of all before; that a project is *)
(* public, which a replayed source never says; and the build number, which  *)
(* it may take from another run of the version.                             *)
ReplayAddsNothing ==
    [][replays' # replays => /\ Len(run'.artifacts) = Len(run.artifacts)
                             /\ run'.facts.project.isPublic = run.facts.project.isPublic
                             /\ run'.facts.source.buildNumber = run.facts.source.buildNumber]_vars

===============================================================================
