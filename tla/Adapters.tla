------------------------------- MODULE Adapters -------------------------------
(***************************************************************************)
(* The adapters: what packages/adapter-*/src/index.js make of a runner.    *)
(*                                                                         *)
(* outcome is what the processes of a suite do: exit codes (code; None for *)
(* one that a signal ends or that does not start), and what they leave, in *)
(* the form the adapter reads it: events, a report, a payload.  JSON that  *)
(* does not parse is None.  The order of tests, which every adapter sorts  *)
(* by file and line, durations, output and details are left out.           *)
(***************************************************************************)
EXTENDS Report, Commands

exitCode(code) == OrElse(code, 1)

RawTest(name, path, status, messages) ==
    [name |-> name, fullName |-> <<name>>, path |-> path, line |-> None, status |-> status,
     failureMessages |-> messages, module |-> None, theme |-> None, source |-> None,
     assertions |-> <<>>, setup |-> <<>>, mocks |-> <<>>, snippet |-> None, analysis |-> None]
LocatedTest(test, fullName, line) == [test EXCEPT !.fullName = fullName, !.line = line]

RawResult(status, summary, tests, coverage, warnings, rawArtifacts) ==
    [status |-> status, summary |-> summary, tests |-> tests, coverage |-> coverage,
     warnings |-> warnings, rawArtifacts |-> rawArtifacts, performanceStats |-> <<>>]

(* A file of the suite; its slug stands for those of its package and id. *)
RawFile(suite, kind, content) ==
    [relativePath |-> <<suite.slug \o kind>>, kind |-> "file", content |-> content,
     sourcePath |-> None, absolute |-> FALSE]

deriveSuiteStatus(summary, code) ==
    IF code # 0 \/ summary.failed > 0 THEN "failed"
    ELSE IF summary.total = 0 \/ summary.skipped = summary.total THEN "skipped" ELSE "passed"

coverageEnabled(suite, execution) == execution.coverage /\ suite.coverage.enabled

-----------------------------------------------------------------------------
(* Files of coverage: entry.counts[m] is what a runner counted of m.        *)

excludedDirectories == {"node_modules", "coverage", "artifacts", "playwright-report", "test-results"}

shouldIncludeCoverageFile(path, root) ==
    path # None /\ IsPrefix(root, path) /\ ToSet(path) \intersect excludedDirectories = {}

CoverageFile(path, package, metrics) ==
    [path |-> path, package |-> package, metrics |-> metrics, module |-> None, theme |-> None,
     shared |-> FALSE, source |-> None, weight |-> None]

(* Without counts there is no metric; Jest's adapter makes it 0 of 0. *)
CountedMetric(count) == IF count = None THEN None ELSE createCoverageMetric(count.covered, count.total)
JestMetric(count) == LET c == OrElse(count, [covered |-> 0, total |-> 0])
                     IN [covered |-> c.covered, total |-> c.total,
                         pct |-> IF c.total > 0 THEN Percentage(c.covered, c.total) ELSE 10000]

SumOfFiles(files, m) ==
    LET valid == SelectSeq(files, LAMBDA file : file.metrics[m] # None)
    IN [covered |-> FoldLeft(LAMBDA sum, file : sum + file.metrics[m].covered, 0, valid),
        total |-> FoldLeft(LAMBDA sum, file : sum + file.metrics[m].total, 0, valid)]

createCoverageSummary(files) ==
    IF files = <<>> THEN None
    ELSE [metrics |-> [m \in MetricNames |->
                          IF \A i \in DOMAIN files : files[i].metrics[m] = None THEN None
                          ELSE CountedMetric(SumOfFiles(files, m))],
          files |-> files]

normalizeNodeCoverage(entries, root) ==
    LET NodeFile(entry) ==
            CoverageFile(entry.path, None, [m \in MetricNames |->
                IF m = "statements" THEN None ELSE CountedMetric(entry.counts[m])])
        files == [i \in DOMAIN entries |-> NodeFile(entries[i])]
    IN createCoverageSummary(SelectSeq(files, LAMBDA file : shouldIncludeCoverageFile(file.path, root)))

JestFiles(entries, root) ==
    LET files == [i \in DOMAIN entries |->
                     CoverageFile(entries[i].path, None, [m \in MetricNames |-> JestMetric(entries[i].counts[m])])]
    IN SelectSeq(files, LAMBDA file : shouldIncludeCoverageFile(file.path, root))

(* Jest's summary of no files is complete. *)
normalizeJestCoverage(entries, root) ==
    LET files == JestFiles(entries, root)
    IN [metrics |-> [m \in MetricNames |-> JestMetric(SumOfFiles(files, m))], files |-> files]

normalizeVitestCoverage(entries, root) ==
    LET files == [i \in DOMAIN entries |->
                     CoverageFile(entries[i].path, None, [m \in MetricNames |-> CountedMetric(entries[i].counts[m])])]
    IN createCoverageSummary(SelectSeq(files, LAMBDA file : shouldIncludeCoverageFile(file.path, root)))

-----------------------------------------------------------------------------
(* node:test                                                                *)

(* The event of a file as a whole; and any of a test on its first line. *)
isNodeFileHarnessEvent(event) == event.file # None /\ (event.isFile \/ event.line = 1)

(* The last event of a test counts, and the last summary and coverage; the  *)
(* summary of the runner is taken unless it has counted nothing.            *)
parseNodeEvents(events, root) ==
    LET ends == Where(events, LAMBDA e : /\ e.type \in {"test:pass", "test:fail", "test:skip"}
                                         /\ ~isNodeFileHarnessEvent(e))
        Key(e) == <<e.file, e.line, e.name>>
        keys == Dedupe([i \in DOMAIN ends |-> Key(ends[i])])
        LastOf(key) == ends[Max({i \in DOMAIN ends : Key(ends[i]) = key})]
        Status(e) == IF e.skip \/ e.type = "test:skip" THEN "skipped"
                     ELSE IF e.type = "test:pass" THEN "passed" ELSE "failed"
        tests == [i \in DOMAIN keys |->
                    LET e == LastOf(keys[i])
                    IN LocatedTest(RawTest(e.name, e.file, Status(e), e.messages), <<e.name>>, e.line)]
        With(type) == SelectSeq(events, LAMBDA e : e.type = type)
        counted == IF With("test:summary") = <<>> THEN None ELSE Last(With("test:summary")).counts
    IN [tests |-> tests,
        coverage |-> IF With("test:coverage") = <<>> THEN None
                     ELSE normalizeNodeCoverage(Last(With("test:coverage")).files, root),
        summary |-> IF counted = None \/ counted.total = 0 THEN summarizeTests(tests)
                    ELSE [counted EXCEPT !.skipped = @ + counted.todo]]

(* A second pass measures coverage; that it fails is a warning. *)
NodeCoveragePass(suite, resolved, outcome) ==
    IF ~resolved.direct
    THEN [coverage |-> None, warnings |-> {"coverage skipped"}, rawArtifacts |-> <<>>]
    ELSE [coverage |-> parseNodeEvents(outcome.coverageEvents, suite.cwd).coverage,
          warnings |-> IF exitCode(outcome.coverageCode) # 0 THEN {"coverage failed"} ELSE {},
          rawArtifacts |-> <<RawFile(suite, "-node-coverage.ndjson", outcome.coverageEvents)>>]

(* resolved, covered: the command of the run and of the pass for coverage. *)
NodeRuns(suite, execution, outcome, resolved, covered) ==
    LET measured == coverageEnabled(suite, execution)
        Result(parsed, pass) ==
            RawResult(deriveSuiteStatus(parsed.summary, exitCode(outcome.code)), parsed.summary,
                      parsed.tests, pass.coverage, pass.warnings,
                      <<RawFile(suite, "-node.ndjson", outcome.events)>> \o pass.rawArtifacts)
    IN IF \/ executeNodeTestRun(suite.env, resolved, FALSE) = Thrown
          \/ measured /\ covered.direct /\ executeNodeTestRun(suite.env, covered, TRUE) = Thrown
       THEN Thrown
       ELSE Result(parseNodeEvents(outcome.events, suite.cwd),
                   IF measured THEN NodeCoveragePass(suite, covered, outcome)
                   ELSE [coverage |-> None, warnings |-> {}, rawArtifacts |-> <<>>])

NodeTestRun(suite, execution, outcome) ==
    NodeRuns(suite, execution, outcome,
             resolveNodeTestCommand(suite.scripts, suite.command),
             resolveNodeTestCommand(suite.scripts, OrElse(suite.coverage.command, suite.command)))

-----------------------------------------------------------------------------
(* Jest and Vitest                                                          *)

normalizeJestStatus(status) ==
    IF status = "passed" THEN "passed"
    ELSE IF status \in {"pending", "skipped", "todo"} THEN "skipped" ELSE "failed"

(* a || b, where 0 is false *)
OrCount(a, b) == IF a \in {None, 0} THEN b ELSE a

(* report: its assertions and its own counts, which go before those of the  *)
(* assertions unless they are 0 or missing.                                 *)
parseJestReport(report) ==
    LET tests == [i \in DOMAIN report.assertions |->
                     LET a == report.assertions[i]
                     IN LocatedTest(RawTest(a.name, a.file, normalizeJestStatus(a.status), a.messages),
                                    a.fullName, a.line)]
        With(status) == Len(SelectSeq(tests, LAMBDA test : test.status = status))
    IN [tests |-> tests,
        summary |-> Counts(OrCount(report.numTotalTests, Len(tests)),
                           OrCount(report.numPassedTests, With("passed")),
                           OrCount(report.numFailedTests, With("failed")),
                           OrElse(report.numPendingTests, 0) + OrElse(report.numTodoTests, 0))]

(* The report file, or what a stream holds; a file that does not parse      *)
(* throws at once.                                                          *)
readPrimaryReport(outcome) ==
    IF outcome.fileExists THEN OrElse(outcome.file, Thrown)
    ELSE IF outcome.stdout # None THEN outcome.stdout ELSE OrElse(outcome.stderr, Thrown)

(* summary: coverage-summary.json of the second pass, from an empty         *)
(* directory; one that is not there is no coverage.                         *)
JestRun(suite, execution, outcome) ==
    LET report == readPrimaryReport(outcome)
        parsed == parseJestReport(report)
        pass == coverageEnabled(suite, execution)
        measured == pass /\ outcome.coverageSummary # None
    IN IF report = Thrown THEN Thrown
       ELSE RawResult(deriveSuiteStatus(parsed.summary, exitCode(outcome.code)), parsed.summary,
                      parsed.tests,
                      IF measured THEN normalizeJestCoverage(outcome.coverageSummary, suite.cwd) ELSE None,
                      IF pass /\ exitCode(outcome.coverageCode) # 0 THEN {"coverage failed"} ELSE {},
                      <<RawFile(suite, "-jest.json", report)>>
                          \o IF measured THEN <<RawFile(suite, "-jest-coverage-summary.json", outcome.coverageSummary)>>
                             ELSE <<>>)

(* Vitest's tests have no line. *)
parseVitestReport(report) ==
    LET parsed == parseJestReport(report)
    IN [parsed EXCEPT !.tests = [i \in DOMAIN @ |-> [@[i] EXCEPT !.line = None]]]

(* Vitest's report is read from its file alone. *)
VitestRun(suite, execution, outcome) ==
    LET report == IF outcome.fileExists THEN OrElse(outcome.file, Thrown) ELSE Thrown
        parsed == parseVitestReport(report)
        pass == coverageEnabled(suite, execution)
        measured == pass /\ outcome.coverageSummary # None
    IN IF report = Thrown THEN Thrown
       ELSE RawResult(deriveSuiteStatus(parsed.summary, exitCode(outcome.code)), parsed.summary,
                      parsed.tests,
                      IF measured THEN normalizeVitestCoverage(outcome.coverageSummary, suite.cwd) ELSE None,
                      IF pass /\ exitCode(outcome.coverageCode) # 0 THEN {"coverage failed"} ELSE {},
                      <<RawFile(suite, "-vitest.json", report)>>
                          \o IF measured THEN <<RawFile(suite, "-vitest-coverage-summary.json", outcome.coverageSummary)>>
                             ELSE <<>>)

-----------------------------------------------------------------------------
(* Playwright                                                               *)

shouldCollectBrowserCoverage(suite, execution) ==
    coverageEnabled(suite, execution) /\ suite.coverage.strategy = "browser-istanbul"

(* What stdout holds, or stderr; nothing at all is an empty report. *)
extractJsonPayload(outcome) == OrElse(outcome.payload, Thrown)

normalizePlaywrightStatus(status) ==
    IF status \in {"passed", "expected"} THEN "passed"
    ELSE IF status \in {"pending", "skipped", "todo"} THEN "skipped" ELSE "failed"

(* specs: those of all suites.  The last try of the last project counts.    *)
collectPlaywrightTests(specs) ==
    LET Status(spec) ==
            IF spec.tests = <<>> THEN "passed"
            ELSE LET test == Last(spec.tests) IN
                 IF test.results = <<>> THEN OrElse(test.status, "passed")
                 ELSE OrElse(OrElse(Last(test.results).status, test.status), "passed")
        Messages(spec) == IF spec.tests = <<>> \/ Last(spec.tests).results = <<>> THEN <<>>
                          ELSE Last(Last(spec.tests).results).errors
    IN [i \in DOMAIN specs |->
           LocatedTest(RawTest(specs[i].name, specs[i].file, normalizePlaywrightStatus(Status(specs[i])),
                               Messages(specs[i])),
                       specs[i].fullName, specs[i].line)]

parsePlaywrightReport(report) ==
    LET tests == collectPlaywrightTests(report.specs) IN [tests |-> tests, summary |-> summarizeTests(tests)]

(* pages: what windows have left in files that parse, each with the lines   *)
(* it has hit of a file; istanbul joins what is hit.                        *)
mergeBrowserCoverage(pages, suite) ==
    LET paths == Dedupe([i \in DOMAIN pages |-> pages[i].path])
        inside == SelectSeq(paths, LAMBDA path : IsPrefix(suite.cwd, path))
        Of(path) == {pages[i] : i \in {j \in DOMAIN pages : pages[j].path = path}}
        Metric(path) == createCoverageMetric(Unit * Cardinality(UNION {page.hit : page \in Of(path)}),
                                             Unit * Max({page.total : page \in Of(path)}))
        files == [i \in DOMAIN inside |->
                     CoverageFile(inside[i], suite.package, [m \in MetricNames |-> Metric(inside[i])])]
    IN IF files = <<>> THEN None ELSE createCoverageSummary(files)

(* Errors outside of tests are warnings. *)
PlaywrightRun(suite, execution, outcome) ==
    LET payload == extractJsonPayload(outcome)
        parsed == parsePlaywrightReport(payload)
        collect == shouldCollectBrowserCoverage(suite, execution)
        coverage == IF collect THEN mergeBrowserCoverage(outcome.pages, suite) ELSE None
        Below(name) == [RawFile(suite, "-playwright-coverage", coverage) EXCEPT !.relativePath = @ \o <<name>>]
        directory == [RawFile(suite, "-playwright-coverage", outcome.pages) EXCEPT !.kind = "directory"]
        merged == <<Below("coverage-summary.json"), Below("merged-coverage.json")>>
    IN IF payload = Thrown THEN Thrown
       ELSE RawResult(deriveSuiteStatus(parsed.summary, exitCode(outcome.code)), parsed.summary,
                      parsed.tests, coverage,
                      payload.errors \union (IF collect /\ coverage = None THEN {"no coverage"} ELSE {}),
                      <<RawFile(suite, "-playwright.json", payload)>>
                          \o (IF collect THEN <<directory>> ELSE <<>>)
                          \o (IF coverage # None THEN merged ELSE <<>>))

-----------------------------------------------------------------------------
(* Shell                                                                    *)

(* The counts of the last line of the output that has some, if any. *)
ShellRun(suite, outcome) ==
    LET passed == exitCode(outcome.code) = 0
        test == [RawTest(suite.id, None, IF passed THEN "passed" ELSE "failed",
                         IF passed THEN <<>> ELSE <<"output">>)
                 EXCEPT !.assertions = <<"completed">>]
        counted == outcome.summaryLine # None /\ outcome.summaryLine.total > 0
    IN RawResult(test.status,
                 IF counted THEN outcome.summaryLine ELSE summarizeTests(<<test>>),
                 <<test>>, None, {}, <<RawFile(suite, "-shell.log", outcome.summaryLine)>>)

normalizeSummary(summary) ==
    IF summary = None \/ \E count \in DOMAIN summary : summary[count] = None THEN None ELSE summary

(* Without tests the suite itself is the one that passed or failed. *)
synthesizeSummaryFromTests(tests, status) ==
    IF tests # <<>> THEN summarizeTests(tests)
    ELSE CASE status = "passed" -> Counts(1, 1, 0, 0)
           [] status = "failed" -> Counts(1, 0, 1, 0)
           [] status = "skipped" -> Counts(0, 0, 0, 0)

(* The payload speaks for the suite; the exit code only when it does not.   *)
buildSuiteJsonResult(suite, outcome) ==
    LET payload == outcome.payload
        synthetic == IF exitCode(outcome.code) = 0 THEN "passed" ELSE "failed"
        status == IF payload # None /\ payload.status \in {"passed", "failed", "skipped"}
                  THEN payload.status ELSE synthetic
        tests == IF payload = None THEN <<>> ELSE payload.tests
        summary == IF payload = None THEN None ELSE normalizeSummary(payload.summary)
        files == IF payload = None THEN <<>> ELSE payload.rawArtifacts
    IN [RawResult(status, OrElse(summary, synthesizeSummaryFromTests(tests, status)), tests,
                  IF payload = None THEN None ELSE payload.coverage,
                  IF payload = None THEN {} ELSE payload.warnings,
                  Where(files, LAMBDA file : file.relativePath # None)
                      \o <<RawFile(suite, "-shell.json", payload)>>)
        EXCEPT !.performanceStats = IF payload = None THEN <<>> ELSE payload.performanceStats]

(* Any text that the configured field holds is the status. *)
deriveJsonCheckStatus(suite, outcome) ==
    IF suite.statusField # None /\ outcome.payload # None /\ outcome.payload.field # None
    THEN outcome.payload.field
    ELSE IF exitCode(outcome.code) = 0 THEN "passed" ELSE "failed"

buildSingleCheckJsonResult(suite, outcome) ==
    LET status == deriveJsonCheckStatus(suite, outcome)
        test == [RawTest(suite.id, suite.file, status, IF status = "failed" THEN <<"message">> ELSE <<>>)
                 EXCEPT !.module = suite.module, !.source = "adapter", !.line = suite.line,
                        !.assertions = suite.assertions]
    IN RawResult(status,
                 Counts(1, IF status = "passed" THEN 1 ELSE 0, IF status = "failed" THEN 1 ELSE 0, 0),
                 <<test>>, None,
                 IF outcome.payload = None THEN {} ELSE outcome.payload.warnings,
                 <<RawFile(suite, "-shell.json", outcome.payload)>>)

-----------------------------------------------------------------------------
(* What the adapter of the suite returns, or Thrown. *)
AdapterRun(suite, execution, outcome) ==
    CASE suite.adapter = "node-test"  -> NodeTestRun(suite, execution, outcome)
      [] suite.adapter = "jest"       -> JestRun(suite, execution, outcome)
      [] suite.adapter = "vitest"     -> VitestRun(suite, execution, outcome)
      [] suite.adapter = "playwright" -> PlaywrightRun(suite, execution, outcome)
      [] suite.adapter = "shell"      ->
            CASE suite.resultFormat = "suite-json-v1"        -> buildSuiteJsonResult(suite, outcome)
              [] suite.resultFormat = "single-check-json-v1" -> buildSingleCheckJsonResult(suite, outcome)
              [] OTHER                                       -> ShellRun(suite, outcome)
===============================================================================
