------------------------------- MODULE Normalize -------------------------------
(***************************************************************************)
(* packages/server/ingest/normalize.js and the rows that service.js makes  *)
(* of it: an upload becomes the facts of a run.                            *)
(*                                                                         *)
(* An identifier, a key or a name that the code joins from parts is the    *)
(* tuple of these parts.  A list of the upload that is no list, and an     *)
(* entry of one that is no object, are not told from missing ones.         *)
(***************************************************************************)
EXTENDS Report

SUPPORTED_REPORT_SCHEMA_VERSION == "1"

(* A ValidationError about a field. *)
Refused(field) == [refused |-> field]
IsRefused(value) == "refused" \in DOMAIN value

(* The first that is given of a field of the entries. *)
FirstGiven(entries, field) ==
    LET given == {i \in DOMAIN entries : entries[i][field] # None} IN
    IF given = {} THEN None ELSE entries[Min(given)][field]

normalizeReport(report) ==
    IF report = None THEN Refused("report")
    ELSE IF report.schemaVersion # SUPPORTED_REPORT_SCHEMA_VERSION THEN Refused("schemaVersion")
    ELSE IF report.packages = None THEN Refused("packages") ELSE report

(* What is unknown stays; what is missing is unknown. *)
normalizeFactStatus(status) == OrElse(status, "unknown")

normalizeArtifactList(artifacts) ==
    Where(artifacts, LAMBDA a : <<a.relativePath, a.href, a.sourceUrl>> # <<None, None, None>>)

-----------------------------------------------------------------------------
(* Suites and tests                                                         *)

(* The publisher may have located a suite's own artifacts. *)
LocatedArtifacts(suite) ==
    normalizeArtifactList([i \in DOMAIN suite.rawArtifacts |->
        LET artifact == suite.rawArtifacts[i] IN
        [relativePath |-> artifact.relativePath, href |-> None,
         sourceUrl |-> IF "sourceUrl" \in DOMAIN artifact THEN artifact.sourceUrl ELSE None]])

SuiteRowsOf(package) ==
    [i \in DOMAIN package.suites |->
        LET suite == package.suites[i] IN
        [suite |-> OrElse(suite.id, <<package.name, i>>), package |-> package.name,
         runtime |-> OrElse(suite.runtime, "unknown"), status |-> normalizeFactStatus(suite.status),
         summary |-> suite.summary, warnings |-> suite.warnings,
         rawArtifacts |-> LocatedArtifacts(suite)]]

SuiteRows(report) ==
    FlattenSeq([p \in DOMAIN report.packages |->
        IF report.packages[p].name = None THEN <<>> ELSE SuiteRowsOf(report.packages[p])])

TestRowsOf(package) ==
    FlattenSeq([i \in DOMAIN package.suites |->
        LET id == OrElse(package.suites[i].id, <<package.name, i>>)
            tests == package.suites[i].tests
        IN [k \in DOMAIN tests |->
               [test |-> <<id, k, tests[k].fullName>>, suite |-> id, package |-> package.name,
                status |-> normalizeFactStatus(tests[k].status), file |-> tests[k].path,
                module |-> OrElse(tests[k].module, "uncategorized"),
                theme |-> OrElse(tests[k].theme, "uncategorized"),
                source |-> tests[k].source, messages |-> tests[k].failureMessages,
                line |-> tests[k].line, snippet |-> tests[k].snippet, details |-> tests[k].analysis,
                assertions |-> tests[k].assertions, setup |-> tests[k].setup, mocks |-> tests[k].mocks]]])

TestRows(report) ==
    FlattenSeq([p \in DOMAIN report.packages |->
        IF report.packages[p].name = None THEN <<>> ELSE TestRowsOf(report.packages[p])])

(* Warnings of suites and the messages of failures. *)
ErrorRows(suites, tests) ==
    UNION {{[suite |-> suites[i].suite, test |-> None, level |-> "warning", message |-> warning] :
               warning \in suites[i].warnings} : i \in DOMAIN suites}
        \union UNION {{[suite |-> tests[i].suite, test |-> tests[i].test, level |-> "error",
                        message |-> message] : message \in ToSet(tests[i].messages)} : i \in DOMAIN tests}

ArtifactRow(artifact, scope, suite) ==
    [scope |-> scope, suite |-> suite, relativePath |-> artifact.relativePath,
     href |-> artifact.href, sourceUrl |-> artifact.sourceUrl]

ArtifactRows(suites, runArtifacts) ==
    FlattenSeq([i \in DOMAIN suites |->
        [k \in DOMAIN suites[i].rawArtifacts |->
            ArtifactRow(suites[i].rawArtifacts[k], "suite", suites[i].suite)]])
        \o [i \in DOMAIN runArtifacts |-> ArtifactRow(runArtifacts[i], "run", None)]

-----------------------------------------------------------------------------
(* Coverage: the files of the report's own summary, not the shares of its   *)
(* modules.                                                                 *)

CoverageRow(file) ==
    [package |-> file.package, module |-> file.module, path |-> file.path, metrics |-> file.metrics,
     shared |-> file.shared, source |-> file.source, weight |-> OrElse(file.weight, Unit)]

CoverageRows(report) ==
    LET coverage == report.summary.coverage IN
    IF coverage = None THEN <<>>
    ELSE [i \in DOMAIN coverage.files |-> CoverageRow(coverage.files[i])]

CoverageSnapshot(report) ==
    IF report.summary.coverage = None THEN None ELSE report.summary.coverage.metrics

-----------------------------------------------------------------------------
(* Catalogs: a package by its name, a module by that of its package (or     *)
(* None) and its own, a file by its path.                                   *)

extractModulePackageNames(module) ==
    module.packages
        \union UNION {theme.packageNames \union {package.name : package \in theme.packages} :
                         theme \in module.themes}

ModuleKeys(module) ==
    LET names == extractModulePackageNames(module) IN
    {<<name, module.module>> : name \in IF names = {} THEN {None} ELSE names}

(* The owners that the report names. *)
buildReportModuleIndex(modules) ==
    [key \in UNION {ModuleKeys(module) : module \in modules} |->
        (CHOOSE module \in modules : key \in ModuleKeys(module)).owner]

PackageCatalog(report, coverageFiles) ==
    ({package.name : package \in ToSet(report.packages)}
        \union UNION {extractModulePackageNames(module) : module \in report.modules}
        \union {file.package : file \in ToSet(coverageFiles)}) \ {None}

ModuleCatalog(report, tests, coverageFiles) ==
    LET index == buildReportModuleIndex(report.modules)
        rows == {<<test.package, test.module>> : test \in ToSet(tests)}
                    \union {<<file.package, file.module>> : file \in
                               {f \in ToSet(coverageFiles) : f.module # None}}
    IN [key \in DOMAIN index \union rows |-> IF key \in DOMAIN index THEN index[key] ELSE None]

(* Of a file that several rows have the first package and module count.     *)
FileCatalog(tests, coverageFiles) ==
    LET located == SelectSeq(tests, LAMBDA test : test.file # None)
        entries == [i \in DOMAIN located |->
                       [path |-> located[i].file, package |-> located[i].package, module |-> located[i].module]]
                   \o [i \in DOMAIN coverageFiles |->
                          [path |-> coverageFiles[i].path, package |-> coverageFiles[i].package,
                           module |-> coverageFiles[i].module]]
        Of(path) == SelectSeq(entries, LAMBDA entry : entry.path = path)
    IN [path \in {entry.path : entry \in ToSet(entries)} |->
           [package |-> FirstGiven(Of(path), "package"), module |-> FirstGiven(Of(path), "module")]]

-----------------------------------------------------------------------------
(* Performance statistics                                                   *)

normalizePerformanceStatScope(entry) ==
    OrElse(entry.scope, IF entry.test # None THEN "test" ELSE IF entry.suite # None THEN "suite" ELSE "run")

normalizeReportPerformanceStat(entry, suites, tests) ==
    LET scope == normalizePerformanceStatScope(entry)
        matching == SelectSeq(tests, LAMBDA test : test.test = entry.test)
    IN IF scope \notin {"run", "suite", "test"} THEN Refused("scope")
       ELSE IF scope # "run" /\ entry.suite = None THEN Refused("suiteIdentifier")
       ELSE IF scope = "suite" /\ \A i \in DOMAIN suites : suites[i].suite # entry.suite
       THEN Refused("suiteIdentifier")
       ELSE IF scope = "test" /\ (entry.test = None \/ matching = <<>>) THEN Refused("testIdentifier")
       ELSE IF scope = "test" /\ Head(matching).suite # entry.suite THEN Refused("performanceStats")
       ELSE IF entry.group = None THEN Refused("statGroup")
       ELSE IF entry.name = None THEN Refused("statName")
       ELSE IF entry.value = None /\ entry.text = None THEN Refused("performanceStats")
       ELSE [scope |-> scope, suite |-> IF scope = "run" THEN None ELSE entry.suite,
             test |-> IF scope = "test" THEN entry.test ELSE None,
             group |-> entry.group, name |-> entry.name, value |-> entry.value, text |-> entry.text]

normalizeReportPerformanceStats(entries, suites, tests) ==
    [i \in DOMAIN entries |-> normalizeReportPerformanceStat(entries[i], suites, tests)]

(* The durations of the run, its suites and its tests, each as "timing".    *)
TimingRows(suites, tests) ==
    LET Timing(scope, suite, test) ==
            [scope |-> scope, suite |-> suite, test |-> test, group |-> "timing", name |-> "duration",
             value |-> "ms", text |-> None]
    IN <<Timing("run", None, None)>>
       \o [i \in DOMAIN suites |-> Timing("suite", suites[i].suite, None)]
       \o [i \in DOMAIN tests |-> Timing("test", tests[i].suite, tests[i].test)]

-----------------------------------------------------------------------------
(* The run and its submission                                               *)

(* A report that lacks a summary has no such field. *)
deriveRunStatus(report) ==
    LET given == "summary" \in DOMAIN report
        summary == report.summary
        statuses == {normalizeFactStatus(package.status) : package \in ToSet(report.packages)}
    IN IF given /\ (summary.failedTests > 0 \/ summary.failedSuites > 0) THEN "failed"
       ELSE IF given /\ (summary.totalTests = 0 \/ summary.skippedTests = summary.totalTests)
       THEN "skipped"
       ELSE IF given /\ summary.passedTests > 0 THEN "passed"
       ELSE IF "failed" \in statuses THEN "failed"
       ELSE IF "passed" \in statuses THEN "passed" ELSE "unknown"

(* The kinds of facts there are: tests where a suite has counted some.      *)
KindsPresent(suites, coverage, stats) ==
    {kind \in {"tests", "coverage", "performance"} :
        CASE kind = "tests"       -> \E i \in DOMAIN suites : suites[i].summary.total > 0
          [] kind = "coverage"    -> coverage # None
          [] kind = "performance" -> stats # <<>>}

deriveSubmissionFactKinds(suites, coverage, stats, kind) ==
    LET present == KindsPresent(suites, coverage, stats) IN
    IF kind \in {"tests", "coverage", "performance"} THEN {kind}
    ELSE IF present = {} THEN {"tests"} ELSE present

deriveSubmissionKind(suites, coverage, stats) ==
    LET present == KindsPresent(suites, coverage, stats) IN
    IF Cardinality(present) = 1 THEN CHOOSE kind \in present : TRUE ELSE "combined"

(* supplied: what the upload says of itself.  The content stands for its    *)
(* hash.                                                                    *)
buildReportSubmission(supplied, upload, suites, coverage, stats) ==
    LET given == IF supplied.kind \in {"tests", "coverage", "performance", "combined"}
                 THEN supplied.kind ELSE None
        kind == OrElse(given, deriveSubmissionKind(suites, coverage, stats))
        source == upload.source
    IN [kind |-> kind,
        producerKey |-> OrElse(OrElse(OrElse(supplied.producerKey, source.job), source.workflow), "default"),
        submissionKey |-> OrElse(OrElse(supplied.submissionKey, source.job), "default"),
        content |-> <<upload.report, upload.artifacts>>,
        factKinds |-> deriveSubmissionFactKinds(suites, coverage, stats, kind)]

deriveExternalKey(projectKey, source, report) ==
    IF source.provider # None /\ source.runId # None THEN <<projectKey, source.provider, source.runId>>
    ELSE <<projectKey, OrElse(source.commitSha, "unknown"),
           OrElse(OrElse(source.startedAt, report.generatedAt), "unknown"),
           IF "summary" \in DOMAIN report THEN report.summary.totalTests ELSE 0>>

(* A report names its project first. *)
buildProject(projectKey, report, source) ==
    [key |-> projectKey,
     name |-> OrElse(OrElse(OrElse(report.meta.projectName, source.projectName), source.repository), projectKey),
     repositoryUrl |-> source.repositoryUrl, defaultBranch |-> OrElse(source.defaultBranch, source.branch),
     isPublic |-> source.isPublic]

(* Of several names of a version the most lasting one is its key.           *)
buildProjectVersion(source) ==
    LET names == <<"tag", "semanticVersion", "commitSha", "branch">>
        given == {i \in DOMAIN names : source[names[i]] # None}
        Named(i) == <<names[i], source[names[i]]>>
    IN IF source.versionKey = None /\ given = {} THEN None
       ELSE [versionKey |-> IF source.versionKey # None THEN source.versionKey ELSE Named(Min(given)),
             versionKind |-> IF given = {} THEN "branch" ELSE names[Min(given)],
             buildNumber |-> source.buildNumber]

normalizeIngestPayload(upload) ==
    LET report == normalizeReport(upload.report)
        suites == SuiteRows(report)
        tests == TestRows(report)
        coverageFiles == CoverageRows(report)
        stats == normalizeReportPerformanceStats(report.performanceStats, suites, tests)
        refusals == {i \in DOMAIN stats : IsRefused(stats[i])}
        runArtifacts == normalizeArtifactList(upload.artifacts)
    IN IF upload.projectKey = None THEN Refused("projectKey")
       ELSE IF IsRefused(report) THEN report
       ELSE IF refusals # {} THEN stats[Min(refusals)]
       ELSE [project |-> buildProject(upload.projectKey, report, upload.source),
             projectVersion |-> buildProjectVersion(upload.source),
             submission |-> buildReportSubmission(upload.submission, upload, suites,
                                                  CoverageSnapshot(report), stats),
             externalKey |-> deriveExternalKey(upload.projectKey, upload.source, report),
             status |-> deriveRunStatus(report), summary |-> report.summary,
             packages |-> PackageCatalog(report, coverageFiles),
             modules |-> ModuleCatalog(report, tests, coverageFiles),
             files |-> FileCatalog(tests, coverageFiles),
             suites |-> suites, tests |-> tests,
             coverageSnapshot |-> CoverageSnapshot(report), coverageFiles |-> coverageFiles,
             errors |-> ErrorRows(suites, tests),
             performanceStats |-> TimingRows(suites, tests) \o stats,
             artifacts |-> ArtifactRows(suites, runArtifacts),
             source |-> upload.source]
===============================================================================
