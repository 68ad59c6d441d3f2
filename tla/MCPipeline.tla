------------------------------ MODULE MCPipeline ------------------------------
(* Projects of two suites: every two of ten suites, of all adapters, under  *)
(* a policy that leaves no part of it without something to decide.         *)
EXTENDS Pipeline

MCAssignments == [token \in {"MODE=ci"} |-> <<"MODE", "ci">>]
MCVersions == ("v1.0.0" :> "1.0.0")

Suite(name, package, adapter) ==
    [id |-> name, package |-> package, packageRoot |-> <<"packages", package>>,
     cwd |-> <<"packages", package>>, adapter |-> adapter, command |-> <<"node", "--test">>,
     scripts |-> << >>, env |-> << >>, slug |-> name,
     coverage |-> [enabled |-> TRUE, command |-> None, strategy |-> "browser-istanbul"],
     resultFormat |-> None, statusField |-> None, file |-> None, line |-> None, assertions |-> <<>>, module |-> None, diagnosed |-> FALSE]

-----------------------------------------------------------------------------
(* Configurations                                                           *)

MCKeys == {"classification", "coverageAttribution", "ownership", "thresholds"}
Sections == [key \in MCKeys |-> [manifestPath |-> None, plugins |-> <<>>]]
Plain == [manifests |-> [key \in MCKeys |-> None], sections |-> Sections, plugins |-> <<>>,
          sourceAnalysis |-> [plugins |-> <<>>, enabled |-> FALSE]]

Plugin(id) == [id |-> id, classifyTest |-> NoHook, enrichTest |-> NoHook,
               attributeCoverageFile |-> NoHook, lookupOwner |-> NoHook, throws |-> {},
               sources |-> NoHook]

SrcA == <<"packages", "web", "src", "a.js">>
SrcB == <<"packages", "web", "src", "b.js">>
SrcC == <<"packages", "web", "src", "c.js">>
SrcD == <<"packages", "web", "src", "lib", "d.js">>
TestA == <<"packages", "web", "test", "a.js">>
TestB == <<"packages", "web", "test", "b.js">>

(* b.js belongs to three modules, one of which shares it. *)
Target(module, theme) == [module |-> module, theme |-> theme, shared |-> FALSE]
Attributor ==
    [Plugin("attributor") EXCEPT
        !.attributeCoverageFile = (SrcB :> [targets |-> <<Target("ui", "forms"), Target("api", None), Target("db", "core")>>,
                                            shared |-> TRUE, packageOnly |-> FALSE, source |-> None]),
        !.classifyTest = (TestB :> [module |-> "api", theme |-> None, source |-> None]),
        !.enrichTest = (TestB :> [failureMessages |-> <<"seen">>])]

(* The sources of the tests: x twice, calls that are in no test, a test     *)
(* without a body, one that is made of a table, and what does not parse.    *)
Call(chain, title, line, within) ==
    [chain |-> chain, title |-> title, line |-> line, within |-> within, block |-> TRUE]
Brief(call) == [call EXCEPT !.block = FALSE]
Source(calls) == [parses |-> TRUE, calls |-> calls]
SourceA == Source(<<
    Call(<<"vi", "mock">>, "http", 1, 0),
    Call(<<"test">>, "x", 2, 0), Call(<<"expect">>, None, 3, 2), Call(<<"vi", "spyOn">>, "log", 4, 2),
    Call(<<"describe">>, "again", 5, 0),
      Call(<<"beforeEach">>, None, 6, 5), Call(<<"expect">>, None, 7, 6),
      Call(<<"test">>, "x", 8, 5), Call(<<"expect">>, None, 9, 8), Call(<<"t", "test">>, "deep", 10, 8),
        Call(<<"expect">>, None, 11, 10), Call(<<"afterEach">>, None, 12, 8),
        Call(<<"test", "step">>, "step", 13, 8), Call(<<"expect">>, None, 14, 13),
      Call(<<>>, "each", 15, 5), Brief(Call(<<"test", "each">>, None, 15, 15)), Call(<<"expect">>, None, 16, 15),
    Call(<<"mock", "module">>, None, 17, 0)>>)
SourceB == Source(<<
    Brief(Call(<<"describe">>, "b", 1, 0)), Brief(Call(<<"it">>, "y", 3, 1)), Call(<<"expect">>, None, 3, 2)>>)
Analyzer == [Plugin("source-analysis") EXCEPT
    !.sources = (TestA :> SourceA) @@ (TestB :> SourceB) @@ (SrcA :> [parses |-> FALSE, calls |-> <<>>])]

Thrower == [Plugin("thrower") EXCEPT !.throws = {TestB}]

Rule(include, module, theme) ==
    [package |-> None, include |-> include, exclude |-> {}, module |-> module, theme |-> theme,
     targets |-> None, shared |-> FALSE, scope |-> None]
Minimum(pct) == [pctForm |-> NoMetrics, plain |-> [NoMetrics EXCEPT !["lines"] = pct], nested |-> NoMetrics]
Threshold(module, theme, enforcement, pct) ==
    [module |-> module, theme |-> theme, enforcement |-> enforcement, coverage |-> Minimum(pct)]

(* Lines are measured, functions are not. *)
Functions(module) == [Threshold(module, None, None, 100) EXCEPT !.coverage.pctForm["functions"] = 100]

Manifests ==
    (<<"rules">> :> [rules |-> <<[Rule({}, "none", "none") EXCEPT !.package = "docs"],
                              [Rule({<<"test", "*">>}, "ui", "forms") EXCEPT !.exclude = {<<"**", "b.js">>}]>>])
    @@ (<<"coverage">> :> [coverageRules |->
          <<Rule({<<"packages", "web", "src", "a.js">>}, "ui", "forms"),
            [Rule({<<"**", "c.js">>}, None, None) EXCEPT !.scope = "package-only"],
            [Rule({<<"**", "d.js">>}, None, None) EXCEPT !.targets = <<Target("ui", None), Target("db", "core")>>]>>])
    @@ (<<"owners">> :> [ownership |-> [modules |-> <<[module |-> "ui", owner |-> "team"]>>, themes |-> <<>>]])
    @@ (<<"strict">> :> [thresholds |-> [modules |-> <<Threshold("ui", None, "warn", 9000), Threshold("ui", None, None, 8000),
                                                     Functions("db")>>,
                                         themes |-> <<Threshold("ui", "forms", "warn", 9000)>>]])

Strict == [Plain EXCEPT
    !.manifests = ("classification" :> <<"rules">> @@ "coverageAttribution" :> <<"coverage">>
                      @@ "ownership" :> <<"owners">> @@ "thresholds" :> <<"strict">>),
    !.plugins = <<[kind |-> "inline", plugin |-> Attributor], [kind |-> "module", name |-> "attributor"]>>]
Analysed == [Plain EXCEPT !.sourceAnalysis.enabled = TRUE,
                          !.sections["classification"].manifestPath = <<"rules">>]
Throwing == [Plain EXCEPT !.plugins = <<[kind |-> "inline", plugin |-> Thrower]>>]
Broken == [Plain EXCEPT !.plugins = <<[kind |-> "module", name |-> "missing"]>>]

-----------------------------------------------------------------------------
(* Projects                                                                 *)

\* Coverage on, off by default, or off because somebody said so.
Execution(coverage, disabled, dryRun) ==
    [coverage |-> coverage, coverageExplicitlyDisabled |-> disabled, dryRun |-> dryRun]
Measured == Execution(TRUE, FALSE, FALSE)

Job == [runNumber |-> 7, repository |-> "web", actor |-> "bot"]

Project(suites, config, execution) ==
    [suites |-> suites, config |-> config, packages |-> <<"web", "docs">>, manifests |-> Manifests,
     builtIns |-> ("source-analysis" :> Analyzer), modules |-> ("attributor" :> Plugin("attributor")),
     execution |-> execution,
     meta |-> [projectName |-> "web", environment |-> IF execution = Measured THEN Job ELSE None]]

NodeSuite == [Suite("node", "web", "node-test") EXCEPT
    !.command = <<"yarn", "test", "--", "--only">>, !.diagnosed = TRUE,
    !.scripts = ("test" :> <<"MODE=ci", "node", "--test", "--test-reporter", "spec">>)]
LoopSuite == [Suite("loop", "web", "node-test") EXCEPT
    !.command = <<"yarn", "run", "test">>, !.scripts = ("test" :> <<"yarn", "test">>)]
LostSuite == [Suite("lost", "web", "node-test") EXCEPT !.command = <<"node", "--test-reporter", "--test">>]
JsonSuite == [Suite("json", "web", "shell") EXCEPT !.resultFormat = "suite-json-v1"]
CheckSuite == [Suite("check", "api", "shell") EXCEPT !.resultFormat = "single-check-json-v1",
    !.statusField = "state", !.module = "ops", !.assertions = <<"answers">>]
ShellSuite == Suite("shell", "web", "shell")
JestSuite == Suite("jest", "web", "jest")
\* Covers what the suites of another package cover: it runs in the root directory.
FarSuite == [Suite("far", "api", "jest") EXCEPT !.cwd = <<>>]
VitestSuite == Suite("vitest", "web", "vitest")
BrowserSuite == Suite("browser", "web", "playwright")

MCSuites == {NodeSuite, LoopSuite, LostSuite, JsonSuite, CheckSuite, ShellSuite, JestSuite, FarSuite, VitestSuite, BrowserSuite}

MCSetups ==
    {Project(<<a, b>>, config, Measured) : a \in MCSuites, b \in MCSuites, config \in {Strict, Analysed}}
        \union {Project(<<LostSuite, JestSuite>>, Strict, Execution(FALSE, FALSE, FALSE)),
                Project(<<JsonSuite, JestSuite>>, Strict, Execution(FALSE, FALSE, FALSE)),
                Project(<<JsonSuite, ShellSuite>>, Strict, Execution(FALSE, TRUE, FALSE)),
                Project(<<NodeSuite, CheckSuite>>, Plain, Execution(TRUE, FALSE, TRUE)),
                Project(<<ShellSuite>>, Broken, Measured),
                Project(<<NodeSuite, BrowserSuite>>, Throwing, Measured)}

-----------------------------------------------------------------------------
(* Outcomes                                                                 *)

NoOutcome == [code |-> 0, coverageCode |-> 0, diagnosis |-> "passed", events |-> <<>>, coverageEvents |-> <<>>,
              fileExists |-> FALSE, file |-> None, stdout |-> None, stderr |-> None,
              coverageSummary |-> None, payload |-> None, pages |-> <<>>, summaryLine |-> None]

Event(type, name, file, line) ==
    [type |-> type, name |-> name, file |-> file, line |-> line, isFile |-> FALSE, skip |-> FALSE,
     messages |-> IF type = "test:fail" THEN <<"failed">> ELSE <<>>, files |-> <<>>, counts |-> None]
FileEvent(type, file) == [Event(type, "file", file, 1) EXCEPT !.isFile = TRUE]
SkipEvent(name, file, line) == [Event("test:pass", name, file, line) EXCEPT !.skip = TRUE]

Lines(covered, total) == [m \in MetricNames |->
    IF m = "lines" THEN [covered |-> covered * Unit, total |-> total * Unit] ELSE None]
Entry(path, covered, total) == [path |-> path, counts |-> Lines(covered, total)]
CoverageEvent(entries) == [Event("test:coverage", None, None, None) EXCEPT !.files = entries]

NodeOutcomes ==
    {[NoOutcome EXCEPT !.events = <<Event("test:pass", "x", TestA, 2), Event("test:fail", "y", TestB, 3),
                                    Event("test:pass", "y", TestB, 3), FileEvent("test:pass", TestB)>>,
                       !.coverageEvents = <<CoverageEvent(<<Entry(SrcA, 1, 2), Entry(SrcB, 3, 3)>>)>>],
     [NoOutcome EXCEPT !.events = <<Event("test:fail", "x", TestA, 2), SkipEvent("y", TestB, 3)>>, !.code = 1,
                       !.coverageEvents = <<CoverageEvent(<<Entry(SrcA, 2, 2)>>)>>, !.coverageCode = 1],
     [NoOutcome EXCEPT !.code = None, !.diagnosis = "failed"]}

Assertion(name, file, status) ==
    [name |-> name, fullName |-> <<name>>, file |-> file, line |-> None, status |-> status, messages |-> <<>>]
Again == [Assertion("x", TestA, "passed") EXCEPT !.fullName = <<"again", "x">>]
JestReport(assertions) ==
    [assertions |-> assertions, numTotalTests |-> Len(assertions), numPassedTests |-> None,
     numFailedTests |-> None, numPendingTests |-> None, numTodoTests |-> None]
JestOutcomes ==
    {[NoOutcome EXCEPT !.fileExists = TRUE,
                       !.file = JestReport(<<Assertion("x", TestA, "passed"), [Again EXCEPT !.line = 8], Assertion("y", TestB, "failed")>>),
                       !.code = 1, !.coverageSummary = <<Entry(SrcA, 1, 2), Entry(SrcC, 1, 3), Entry(SrcD, 1, 4)>>],
     [NoOutcome EXCEPT !.fileExists = TRUE, !.file = JestReport(<<Assertion("x", TestA, "todo")>>),
                       !.coverageSummary = <<Entry(SrcA, 2, 2)>>],
     [NoOutcome EXCEPT !.stdout = JestReport(<<Again>>)],
     [NoOutcome EXCEPT !.code = 1, !.stderr = JestReport(<<>>)],
     [NoOutcome EXCEPT !.fileExists = TRUE]}

Try(status) == [status |-> status, errors |-> IF status = "failed" THEN <<"failed">> ELSE <<>>]
Spec1(name, file, tries) == [name |-> name, fullName |-> <<name>>, file |-> file, line |-> 2, tests |-> <<[status |-> None, results |-> tries]>>]
Page(path, hit) == [path |-> path, hit |-> hit, total |-> 4]
BrowserOutcomes ==
    {[NoOutcome EXCEPT !.payload = [specs |-> <<Spec1("flaky", TestA, <<Try("failed"), Try("passed")>>)>>, errors |-> {}],
                       !.pages = <<Page(SrcA, {1, 2}), Page(SrcA, {2, 3})>>],
     [NoOutcome EXCEPT !.payload = [specs |-> <<Spec1("y", TestB, <<Try("timedOut")>>)>>, errors |-> {"worker"}], !.code = 1],
     [NoOutcome EXCEPT !.payload = None, !.code = 1]}

Stat(scope, test, value) ==
    [group |-> "load", name |-> "p95", scope |-> scope, test |-> test, value |-> value, text |-> None]
JsonPayload(status, tests, stats) ==
    [status |-> status, summary |-> None, tests |-> tests, coverage |-> None, warnings |-> {}, rawArtifacts |-> <<>>,
     performanceStats |-> stats]
Named(path) ==
    [relativePath |-> path, kind |-> "file", content |-> <<"named", path>>, sourcePath |-> None]
\* Coverage that a payload brings along, measured or not.
Brought == [metrics |-> NoMetrics, files |-> <<CoverageFile(SrcA, None, [m \in MetricNames |-> CountedMetric(Lines(1, 2)[m])])>>]
\* A file below raw whatever its path says, and two of no name.
NamedFiles == <<Named(<<"..", "traces", "z.log">>), Named(<<"..", ".">>), Named(None)>>
JsonOutcomes ==
    {[NoOutcome EXCEPT !.payload = [JsonPayload("passed", <<RawTest("z", SrcA, "passed", <<>>)>>, <<Stat(None, None, 7)>>)
                                     EXCEPT !.coverage = Brought]],
     [NoOutcome EXCEPT !.payload = [JsonPayload("failed", <<RawTest("z", SrcA, "passed", <<>>)>>, <<>>)
                                     EXCEPT !.rawArtifacts = NamedFiles]],
     [NoOutcome EXCEPT !.payload = JsonPayload(None, <<>>, <<Stat("package", None, 7)>>)],
     [NoOutcome EXCEPT !.payload = JsonPayload("skipped", <<>>, <<Stat("run", None, None)>>)],
     [NoOutcome EXCEPT !.code = 1]}

CheckOutcomes ==
    {[NoOutcome EXCEPT !.payload = [field |-> "error", warnings |-> {"slow"}], !.code = 1],
     [NoOutcome EXCEPT !.payload = [field |-> None, warnings |-> {}], !.code = 1],
     [NoOutcome EXCEPT !.payload = [field |-> "skipped", warnings |-> {}]]}

ShellOutcomes ==
    {NoOutcome, [NoOutcome EXCEPT !.code = 1], [NoOutcome EXCEPT !.summaryLine = Counts(3, 2, 0, 1)],
     [NoOutcome EXCEPT !.code = 1, !.summaryLine = Counts(3, 3, 0, 0)]}

MCOutcomes(suite) ==
    CASE suite.adapter = "node-test"  -> NodeOutcomes
      [] suite.adapter \in {"jest", "vitest"} -> JestOutcomes
      [] suite.adapter = "playwright" -> BrowserOutcomes
      [] suite.resultFormat = "suite-json-v1" -> JsonOutcomes
      [] suite.resultFormat = "single-check-json-v1" -> CheckOutcomes
      [] OTHER -> ShellOutcomes

-----------------------------------------------------------------------------
(* Publication                                                              *)

Env == [headRef |-> None, refType |-> "branch", refName |-> "main", sha |-> "c1", runNumber |-> 7, runId |-> 70,
        sourceRunId |-> None, actor |-> "bot", job |-> "test", workflow |-> "ci", repository |-> "web",
        buildStartedAt |-> None, buildCompletedAt |-> None, event |-> None]
Options1 == [projectKey |-> "web", buildStartedAt |-> None, buildCompletedAt |-> None, sourceRunId |-> None,
            submission |-> None, storage |-> [bucket |-> None, prefix |-> <<>>, baseUrl |-> None]]
MCPublications ==
    {[options |-> Options1, env |-> Env],
     [options |-> [Options1 EXCEPT !.submission = [kind |-> "coverage", producerKey |-> None, submissionKey |-> "s"],
                                  !.storage = [bucket |-> "b", prefix |-> <<"p">>, baseUrl |-> "u"]],
      env |-> [Env EXCEPT !.refType = "tag", !.refName = "v1.0.0", !.runId = None,
                          !.event = [NoEvent EXCEPT !.fullName = "org/web"]]]}

\* A fixture of a project that is public, and a report of which the source tells little.
NoSource == [field \in SourceFields |-> None]
MCPosts ==
    {[projectKey |-> "web", submission |-> [kind |-> "combined", producerKey |-> "benchmark", submissionKey |-> "s"],
      fixture |-> TRUE,
      source |-> [NoSource EXCEPT !.provider = "fixture", !.runId = 1, !.branch = "fixtures", !.commitSha = "c2",
                                !.completedAt = "then", !.projectName = "Fixture", !.isPublic = TRUE]],
     [projectKey |-> "web", submission |-> None, fixture |-> TRUE,
      source |-> [NoSource EXCEPT !.branch = "fixtures", !.isPublic = TRUE]],
     [projectKey |-> "web", submission |-> None, fixture |-> FALSE, source |-> [NoSource EXCEPT !.isPublic = FALSE]]}

\* Another run of the version, which named the project otherwise.
MCOtherUploads == {[name |-> "site", repositoryUrl |-> None, defaultBranch |-> "trunk", buildNumber |-> 9]}
===============================================================================
