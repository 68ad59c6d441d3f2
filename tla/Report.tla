-------------------------------- MODULE Report --------------------------------
(***************************************************************************)
(* packages/core/src/report.js: the results of suites become a report.     *)
(*                                                                         *)
(* The modules of a report, their themes and the packages in a theme are   *)
(* sets here, and lists in the order of their names in the code.  The id   *)
(* of a suite stands for its id and its label.  Durations are left out.    *)
(***************************************************************************)
EXTENDS Policy

Counts(total, passed, failed, skipped) ==
    [total |-> total, passed |-> passed, failed |-> failed, skipped |-> skipped]

(* A count that is no number is 0. *)
createSummary(values) ==
    [count \in {"total", "passed", "failed", "skipped"} |->
        IF count \in DOMAIN values THEN OrElse(values[count], 0) ELSE 0]

normalizeStatus(status) == IF status \in {"failed", "skipped"} THEN status ELSE "passed"

CountOf(entries, Has(_)) == Cardinality({i \in DOMAIN entries : Has(entries[i])})

(* What is neither failed nor skipped has passed. *)
summarizeTests(tests) ==
    LET failed == CountOf(tests, LAMBDA test : test.status = "failed")
        skipped == CountOf(tests, LAMBDA test : test.status = "skipped")
    IN Counts(Len(tests), Len(tests) - failed - skipped, failed, skipped)

summarizeSuites(suites) ==
    LET Add(sum, suite) == [count \in DOMAIN sum |-> sum[count] + suite.summary[count]]
    IN FoldLeft(Add, createSummary(<<>>), suites)

deriveStatusFromSummary(summary) ==
    IF summary.total = 0 THEN "skipped"
    ELSE IF summary.failed > 0 THEN "failed"
    ELSE IF summary.skipped = summary.total THEN "skipped" ELSE "passed"

(* reported: the statuses an adapter or the suites of a package report; one *)
(* that is unknown is none.                                                 *)
deriveCollectionStatus(summary, reported) ==
    IF "failed" \in reported THEN "failed"
    ELSE IF summary.total > 0 THEN deriveStatusFromSummary(summary)
    ELSE IF "passed" \in reported THEN "passed" ELSE "skipped"

(* Faulty variant: the status is taken as the adapter gives it. *)
keepTestResult(test) ==
    [test EXCEPT !.module = OrElse(@, "uncategorized"), !.theme = OrElse(@, "uncategorized"),
                 !.source = OrElse(@, "default")]

normalizeTestResult(test) ==
    [test EXCEPT !.status = normalizeStatus(OrElse(@, "passed")),
                 !.module = OrElse(@, "uncategorized"), !.theme = OrElse(@, "uncategorized"),
                 !.source = OrElse(@, "default")]

(* A statistic without group or name is dropped. *)
normalizePerformanceStats(stats) ==
    LET valid == Where(stats, LAMBDA s : s.group # None /\ s.name # None)
    IN [i \in DOMAIN valid |-> [valid[i] EXCEPT !.scope = OrElse(@, "suite")]]

(* "." and ".." and empty segments go; nothing that is left is no path. *)
normalizeRelativeArtifactPath(path) ==
    IF path = None THEN <<>> ELSE SelectSeq(path, LAMBDA segment : segment \notin {"", ".", ".."})

(* A relative source is found from the working directory of the suite. *)
normalizeRawArtifact(artifact, suite) ==
    [relativePath |-> normalizeRelativeArtifactPath(artifact.relativePath),
     kind |-> IF artifact.kind = "directory" THEN "directory" ELSE "file",
     content |-> artifact.content,
     sourcePath |-> IF artifact.sourcePath = None THEN None
                    ELSE IF artifact.absolute THEN artifact.sourcePath
                    ELSE OrElse(suite.cwd, <<>>) \o artifact.sourcePath]

normalizeRawArtifacts(artifacts, suite) ==
    LET normalized == [i \in DOMAIN artifacts |-> normalizeRawArtifact(artifacts[i], suite)]
    IN Where(normalized, LAMBDA artifact : artifact.relativePath # <<>>)

(* raw: what an adapter returns. *)
normalizeSuiteResult(raw, suite) ==
    LET tests == [i \in DOMAIN raw.tests |-> normalizeTestResult(raw.tests[i])]
        summary == OrElse(raw.summary, summarizeTests(tests))
    IN [id |-> suite.id, package |-> suite.package, packageRoot |-> suite.packageRoot,
        cwd |-> suite.cwd, runtime |-> suite.adapter,
        status |-> deriveCollectionStatus(summary, {raw.status}),
        summary |-> summary, tests |-> tests,
        coverage |-> normalizeCoverageSummary(raw.coverage, suite.package),
        warnings |-> raw.warnings, diagnostics |-> None,
        rawArtifacts |-> normalizeRawArtifacts(raw.rawArtifacts, suite),
        performanceStats |-> normalizePerformanceStats(raw.performanceStats)]

-----------------------------------------------------------------------------
(* Packages.                                                                *)

(* Faulty variant: a failed suite whose tests all passed does not count. *)
finalizePackageByTests(name, suites) ==
    [name |-> name, suites |-> suites, summary |-> summarizeSuites(suites),
     status |-> deriveCollectionStatus(summarizeSuites(suites), {}),
     coverage |-> mergeCoverageSummaries([i \in DOMAIN suites |-> suites[i].coverage]),
     modules |-> UNION {{test.module : test \in ToSet(suites[i].tests)} : i \in DOMAIN suites},
     frameworks |-> {suites[i].runtime : i \in DOMAIN suites}]

finalizePackageResult(name, suites) ==
    [name |-> name, suites |-> suites, summary |-> summarizeSuites(suites),
     status |-> deriveCollectionStatus(summarizeSuites(suites), {suites[i].status : i \in DOMAIN suites}),
     coverage |-> mergeCoverageSummaries([i \in DOMAIN suites |-> suites[i].coverage]),
     modules |-> UNION {{test.module : test \in ToSet(suites[i].tests)} : i \in DOMAIN suites},
     frameworks |-> {suites[i].runtime : i \in DOMAIN suites}]

(* The packages of the catalog in its order, with or without suites, then   *)
(* those that only suites name.                                             *)
PackagesOf(catalog, suites) ==
    LET names == Dedupe(catalog \o [i \in DOMAIN suites |-> OrElse(suites[i].package, "default")])
        SuitesIn(name) == Where(suites, LAMBDA s : OrElse(s.package, "default") = name)
    IN [i \in DOMAIN names |-> finalizePackageResult(names[i], SuitesIn(names[i]))]

-----------------------------------------------------------------------------
(* Modules.                                                                 *)

(* Every test, with the package and the suite it ran in. *)
TestEntries(packages) ==
    FlattenSeq([i \in DOMAIN packages |->
        FlattenSeq([j \in DOMAIN packages[i].suites |->
            LET suite == packages[i].suites[j] IN
            [k \in DOMAIN suite.tests |->
                [package |-> packages[i].name, suite |-> suite, test |-> suite.tests[k]]]])])

TestsOf(entries) == [i \in DOMAIN entries |-> entries[i].test]

coverageSummaryFromFiles(files) ==
    IF files = <<>> THEN None
    ELSE normalizeCoverageSummary([metrics |-> NoMetrics, files |-> files], None)

(* A suite as a module, a theme and a package see it: with their tests of   *)
(* it, under the status of the first suite of its id.                       *)
SuiteSlice(entries, id) ==
    LET own == SelectSeq(entries, LAMBDA e : e.suite.id = id)
        summary == summarizeTests(TestsOf(own))
    IN [id |-> id, tests |-> TestsOf(own), summary |-> summary,
        status |-> deriveCollectionStatus(summary, {own[1].suite.status})]

ensurePackageEntry(entries, name) ==
    LET own == SelectSeq(entries, LAMBDA e : e.package = name)
        suites == {SuiteSlice(own, own[i].suite.id) : i \in DOMAIN own}
        summary == summarizeTests(TestsOf(own))
    IN [name |-> name, suites |-> suites, summary |-> summary,
        status |-> deriveCollectionStatus(summary, {suite.status : suite \in suites})]

PackagesNamed(entries, files) ==
    ({entries[i].package : i \in DOMAIN entries} \union {files[i].package : i \in DOMAIN files}) \ {None}

ensureThemeEntry(policy, moduleName, theme, moduleEntries, moduleFiles) ==
    LET entries == SelectSeq(moduleEntries, LAMBDA e : e.test.theme = theme)
        files == SelectSeq(moduleFiles, LAMBDA file : OrElse(file.theme, "uncategorized") = theme)
    IN [theme |-> theme, summary |-> summarizeTests(TestsOf(entries)),
        packages |-> {ensurePackageEntry(entries, name) : name \in PackagesNamed(entries, files)},
        packageNames |-> PackagesNamed(entries, files),
        owner |-> lookupOwner(policy, moduleName, theme),
        coverage |-> coverageSummaryFromFiles(files)]

ensureModuleEntry(policy, name, allEntries, allFiles) ==
    LET entries == SelectSeq(allEntries, LAMBDA e : e.test.module = name)
        files == SelectSeq(allFiles, LAMBDA file : file.module = name)
        themes == {entries[i].test.theme : i \in DOMAIN entries}
                      \union {OrElse(files[i].theme, "uncategorized") : i \in DOMAIN files}
    IN [module |-> name, summary |-> summarizeTests(TestsOf(entries)),
        packages |-> PackagesNamed(entries, files),
        frameworks |-> {entries[i].suite.runtime : i \in DOMAIN entries},
        owner |-> lookupOwner(policy, name, None),
        coverage |-> coverageSummaryFromFiles(files),
        themes |-> {ensureThemeEntry(policy, name, theme, entries, files) : theme \in themes}]

buildModulesFromPackages(policy, packages, coverageFiles) ==
    LET entries == TestEntries(packages)
        names == {entries[i].test.module : i \in DOMAIN entries}
                     \union {OrElse(coverageFiles[i].module, "uncategorized") : i \in DOMAIN coverageFiles}
    IN {ensureModuleEntry(policy, name, entries, coverageFiles) : name \in names}

-----------------------------------------------------------------------------
(* The report.                                                              *)

summarizeClassification(tests) ==
    LET modules == {tests[i].module : i \in DOMAIN tests}
        InModule(m) == SelectSeq(tests, LAMBDA test : test.module = m)
        ThemesOf(m) == {test.theme : test \in ToSet(InModule(m))}
    IN [uncategorized |-> Len(InModule("uncategorized")),
        modules |-> {[module |-> m, total |-> Len(InModule(m)),
                      themes |-> {[theme |-> t,
                                   total |-> CountOf(InModule(m), LAMBDA test : test.theme = t)] :
                                  t \in ThemesOf(m)}] : m \in modules}]

summarizeDiagnostics(suites) ==
    LET diagnosed == SelectSeq(suites, LAMBDA suite : suite.diagnostics # None)
        With(status) == CountOf(diagnosed, LAMBDA suite : suite.diagnostics.status = status)
    IN [totalSuites |-> Len(diagnosed), passedSuites |-> With("passed"),
        failedSuites |-> With("failed"), skippedSuites |-> With("skipped")]

flattenReportPerformanceStats(suites) ==
    FlattenSeq([i \in DOMAIN suites |->
        [j \in DOMAIN suites[i].performanceStats |->
            suites[i].performanceStats[j] @@ [suite |-> suites[i].id]]])

(* The report of these packages, attribution, modules and thresholds.       *)
(* meta: the name of the project, and the variables of the job that it is   *)
(* made in, if any; "generated" is when.                                    *)
ReportOf(meta, packages, attribution, modules, thresholds, suites) ==
    LET allSuites == FlattenSeq([i \in DOMAIN packages |-> packages[i].suites])
        tests == TestsOf(TestEntries(packages))
        TestsWith(status) == CountOf(tests, LAMBDA test : test.status = status)
        PackagesWith(status) == CountOf(packages, LAMBDA package : package.status = status)
    IN [schemaVersion |-> "1", generatedAt |-> "generated", meta |-> meta,
        packages |-> packages, modules |-> modules, thresholds |-> thresholds,
        attributed |-> attribution.files,
        performanceStats |-> flattenReportPerformanceStats(suites),
        diagnostics |-> summarizeDiagnostics(allSuites),
        summary |-> [totalPackages |-> Len(packages), totalModules |-> Cardinality(modules),
                     passedPackages |-> PackagesWith("passed"),
                     failedPackages |-> PackagesWith("failed"),
                     skippedPackages |-> PackagesWith("skipped"),
                     totalSuites |-> Len(allSuites),
                     failedSuites |-> CountOf(allSuites, LAMBDA suite : suite.status = "failed"),
                     totalTests |-> Len(tests), passedTests |-> TestsWith("passed"),
                     failedTests |-> TestsWith("failed"), skippedTests |-> TestsWith("skipped"),
                     coverage |-> mergeCoverageSummaries([i \in DOMAIN packages |-> packages[i].coverage]),
                     classification |-> summarizeClassification(tests),
                     coverageAttribution |-> attribution.summary,
                     filterModules |-> {m.module : m \in modules}]]

buildReportFromSuiteResults(meta, policy, catalog, suites, coverageEnabled) ==
    LET OfModules(packages, attribution, modules) ==
            ReportOf(meta, packages, attribution, modules,
                     evaluateCoverageThresholds(policy, modules, coverageEnabled), suites)
        OfFiles(packages, attribution) ==
            OfModules(packages, attribution, buildModulesFromPackages(policy, packages, attribution.files))
        OfPackages(packages) == OfFiles(packages, collectCoverageAttribution(policy, packages))
    IN OfPackages(PackagesOf(catalog, suites))
===============================================================================
