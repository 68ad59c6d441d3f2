----------------------------- MODULE RunReport ------------------------------
(***************************************************************************)
(* `test-station run`: packages/core/src/run-report.js, with the adapters  *)
(* it runs, the statuses of packages/core/src/report.js, the artifacts and *)
(* the exit code of packages/cli/src/index.js.                             *)
(*                                                                         *)
(* Executions follow each other over the same output directory.  A summary *)
(* is the set of the statuses it counts at least one test of, with "other" *)
(* when its total is more than these: no status of a suite or a package    *)
(* depends on more.                                                        *)
(***************************************************************************)
EXTENDS Naturals, SequencesExt

CONSTANTS ConfiguredPackages, \* workspaceDiscovery.packages
          Suites,             \* config.suites
          Filters,            \* the workspace filters of the command line; {} is none
          Summaries,          \* bound: the sets of statuses a runner counts
          MaxExecutions,      \* bound: executions of the command
          None

Statuses == {"passed", "failed", "skipped"}
Tallies == Statuses \union {"other"}
SuiteIndexes == 1..Len(Suites)
PackageNames == ToSet(ConfiguredPackages) \union {Suites[i].package : i \in SuiteIndexes}

(* adapter: node-test and playwright read the output of the runner's        *)
(* process ("stream"), vitest, and jest before it tries the output, a file *)
(* it writes ("file"), "shell" its exit code and perhaps a line that       *)
(* counts; with a result format the shell adapter reads a JSON payload,    *)
(* of a suite ("suite-json") or of a single check ("check-json");          *)
(* "unknown" is no adapter.                                                *)
(* diagnostics: none, without a command ("empty"), with or without timeout. *)
JsonFormats == {"suite-json", "check-json"}
SuiteType == [package : PackageNames,
              adapter : {"stream", "file", "shell", "unknown"} \union JsonFormats,
              diagnostics : {"none", "empty", "untimed", "timed"}]

Diagnosis == [status : Statuses, timedOut : BOOLEAN]
Result == [suite : SuiteIndexes, status : Statuses, summary : SUBSET Tallies,
           from : 0..MaxExecutions, diagnostics : Diagnosis \union {None}]

ASSUME RunAssumption ==
    /\ ConfiguredPackages \in Seq(STRING) /\ Suites \in Seq(SuiteType)
    /\ Filters \subseteq SUBSET STRING /\ Summaries \subseteq SUBSET Statuses
    /\ MaxExecutions \in Nat
    /\ None \notin Diagnosis \union Result
    /\ None \notin Tallies \union {"success", "failure", "rejected"}

VARIABLES
    step,       \* "idle", "suites", "rerun" or "artifacts"
    execution,  \* the number of executions so far
    dryRun,     \* context.execution.dryRun
    selected,   \* the suites that pass the workspace filters
    packageCatalog, \* the packages of the execution, in order
    announced,  \* the statuses of the package-complete events
    queue,      \* the suites of the current package that are left
    results,    \* suiteResults
    current,    \* the result whose diagnostics run
    child,      \* the process of the diagnostics rerun
    report,     \* the report of this execution, or None
    exitCode,   \* "success" (0), "failure" (1) or "rejected"; None before the end
    outputs,    \* outputs[i]: what the runner of suite i last wrote to its file
    saved,      \* what report.json and the raw files of the suites are of
    failures    \* history: the suites whose command failed in this execution, and
                \* whether the payload of the command says otherwise

configVars == <<dryRun, selected, packageCatalog>>
controlVars == <<step, execution, configVars>>
progressVars == <<announced, queue, results>>
rerunVars == <<current, child>>
endVars == <<report, exitCode, saved>>
vars == <<controlVars, progressVars, rerunVars, endVars, outputs, failures>>

-----------------------------------------------------------------------------
(* Statuses.                                                                *)

deriveStatusFromSummary(summary) ==
    IF summary = {} THEN "skipped"
    ELSE IF "failed" \in summary THEN "failed"
    ELSE IF summary = {"skipped"} THEN "skipped" ELSE "passed"

(* reported: the status an adapter reports, or those of a package's suites. *)
deriveCollectionStatus(summary, reported) ==
    IF "failed" \in reported THEN "failed"
    ELSE IF summary # {} THEN deriveStatusFromSummary(summary)
    ELSE IF "passed" \in reported THEN "passed" ELSE "skipped"

(* The four runner adapters have the same function. *)
deriveSuiteStatus(summary, code) ==
    IF code # 0 \/ "failed" \in summary THEN "failed"
    ELSE IF summary \subseteq {"skipped"} THEN "skipped" ELSE "passed"

ResultsOf(package) == {r \in ToSet(results) : Suites[r.suite].package = package}
SummaryOf(package) == UNION {r.summary : r \in ResultsOf(package)}

(* Faulty variant: a package without suites has no status. *)
derivePackageStatusOfSuites(package) ==
    IF ResultsOf(package) = {} THEN None
    ELSE IF "failed" \in SummaryOf(package) THEN "failed"
    ELSE IF "passed" \in SummaryOf(package) THEN "passed" ELSE "skipped"

(* The status of the package-complete event. *)
derivePackageStatus(package) ==
    IF "failed" \in SummaryOf(package) THEN "failed"
    ELSE IF "passed" \in SummaryOf(package) THEN "passed" ELSE "skipped"

(* The status of the package in the report. *)
finalizePackageResult(package) ==
    deriveCollectionStatus(SummaryOf(package), {r.status : r \in ResultsOf(package)})

-----------------------------------------------------------------------------
(* Packages.                                                                *)

(* The configured packages first, then those only suites name, each once. *)
Catalog(suites) ==
    LET configured == Len(ConfiguredPackages)
        AddName(catalog, name) == IF Contains(catalog, name) THEN catalog ELSE Append(catalog, name)
        catalog[n \in 0..(configured + Len(Suites))] ==
            IF n = 0 THEN <<>>
            ELSE IF n <= configured THEN AddName(catalog[n - 1], ConfiguredPackages[n])
            ELSE IF n - configured \in suites THEN AddName(catalog[n - 1], Suites[n - configured].package)
            ELSE catalog[n - 1]
    IN catalog[configured + Len(Suites)]

SuitesOf(suites, package) == {i \in suites : Suites[i].package = package}

(* The suites of the n-th package. *)
SuitesLeft(suites, catalog, n) ==
    IF n \in DOMAIN catalog THEN SuitesOf(suites, catalog[n]) ELSE {}

(* The next suite of the package, in the order of the configuration. *)
Upcoming == {i \in queue : \A j \in queue : i <= j}

NoChild == [phase |-> "none", hangs |-> FALSE, killed |-> FALSE, code |-> None]

(* An execution begins; filters = {} selects every suite. *)
Start(dry, filters) ==
    LET suites == {i \in SuiteIndexes : filters = {} \/ Suites[i].package \in filters}
        found == filters = {} \/ suites # {}
    IN /\ step = "idle" /\ execution < MaxExecutions
       /\ step' = IF found THEN "suites" ELSE "idle"
       /\ execution' = execution + 1
       /\ dryRun' = dry /\ selected' = suites /\ packageCatalog' = Catalog(suites)
       /\ announced' = <<>> /\ queue' = SuitesLeft(suites, packageCatalog', 1) /\ results' = <<>>
       /\ report' = None /\ failures' = {}
       /\ exitCode' = IF found THEN None ELSE "rejected"
       /\ UNCHANGED <<rerunVars, outputs, saved>>

-----------------------------------------------------------------------------
(* One suite.                                                               *)

Completed(result) ==
    /\ results' = Append(results, result)
    /\ queue' = queue \ {result.suite}

DryRunSuite ==
    /\ step = "suites" /\ dryRun
    /\ \E i \in Upcoming :
          Completed([suite |-> i, status |-> "skipped", summary |-> {},
                     from |-> execution, diagnostics |-> None])
    /\ UNCHANGED <<controlVars, announced, rerunVars, endVars, outputs, failures>>

(* resolveAdapterForSuite throws outside of the try: runReport rejects. *)
UnresolvedAdapter ==
    /\ step = "suites" /\ ~dryRun
    /\ \E i \in Upcoming : Suites[i].adapter = "unknown"
    /\ step' = "idle" /\ exitCode' = "rejected"
    /\ UNCHANGED <<execution, configVars, progressVars, rerunVars, report, saved, outputs, failures>>

attachDiagnostics(result, diagnostics) == [result EXCEPT !.diagnostics = diagnostics]

(* A failed suite is rerun for diagnostics; without a command the rerun is  *)
(* skipped.                                                                *)
Finish(result) ==
    LET diagnostics == Suites[result.suite].diagnostics IN
    IF result.status # "failed" \/ diagnostics = "none"
    THEN Completed(result) /\ UNCHANGED <<step, rerunVars>>
    ELSE IF diagnostics = "empty"
    THEN /\ Completed(attachDiagnostics(result, [status |-> "skipped", timedOut |-> FALSE]))
         /\ UNCHANGED <<step, rerunVars>>
    ELSE /\ step' = "rerun" /\ current' = result
         /\ \E hangs \in BOOLEAN :
               /\ hangs => diagnostics = "timed"
               /\ child' = [NoChild EXCEPT !.phase = "running", !.hangs = hangs]
         /\ UNCHANGED <<queue, results>>

(* normalizeSuiteResult of what the adapter returns. *)
Normalized(i, summary, reported, from) ==
    [suite |-> i, status |-> deriveCollectionStatus(summary, {reported}),
     summary |-> summary, from |-> from, diagnostics |-> None]

(* An adapter that throws leaves a failed suite with one failed test. *)
Thrown(i) == Normalized(i, {"failed"}, "failed", execution)

ByExitCode(code) == IF code = 0 THEN "passed" ELSE "failed"

(* Whether a JSON payload that says this of its status is listened to: one  *)
(* of a suite must name a status, of a check any text will do.             *)
Speaks(i, said) ==
    \/ Suites[i].adapter = "suite-json" /\ said \in Statuses
    \/ Suites[i].adapter = "check-json" /\ said # None

(* What the adapter of suite i makes of an exit code and of what its runner *)
(* counted, wrote (in its file, or as the summary of its payload) and said. *)
Adapted(i, code, counted, wrote, said) ==
    LET reported == IF Speaks(i, said) THEN said ELSE ByExitCode(code) IN
    CASE Suites[i].adapter = "stream" ->
           Normalized(i, counted, deriveSuiteStatus(counted, code), execution)
      [] Suites[i].adapter = "shell" ->
           Normalized(i, IF counted = {} THEN {reported} ELSE counted, reported, execution)
      [] Suites[i].adapter = "suite-json" ->
           Normalized(i, IF wrote THEN counted ELSE {reported} \ {"skipped"}, reported, execution)
      [] Suites[i].adapter = "check-json" ->
           Normalized(i, IF reported \in {"passed", "failed"} THEN {reported} ELSE {"other"},
                      reported, execution)
      [] Suites[i].adapter = "file" ->
           IF outputs'[i] = None THEN Thrown(i)
           ELSE Normalized(i, outputs'[i].summary, deriveSuiteStatus(outputs'[i].summary, code),
                           outputs'[i].execution)

(* History: the command of suite i fails by its exit code, by a test that   *)
(* it counts or by what it says.                                           *)
Noted(i, code, counted, said) ==
    IF code # 0 \/ "failed" \in counted \/ said = "failed"
    THEN failures \union {[suite |-> i, overruled |-> /\ Speaks(i, said) /\ said # "failed"
                                                     /\ "failed" \notin counted]}
    ELSE failures

(* The command of suite i ends, perhaps before it has counted, written or   *)
(* said anything.                                                          *)
CommandEnds(i, code, counted, wrote, said) ==
    /\ Suites[i].adapter # "unknown"
    /\ wrote => Suites[i].adapter \in {"file", "suite-json"}
    /\ Suites[i].adapter \in {"file", "suite-json"} => wrote \/ counted = {}
    /\ Suites[i].adapter = "check-json" => counted = {}
    /\ said # None => Suites[i].adapter \in JsonFormats
    /\ outputs' = IF wrote /\ Suites[i].adapter = "file"
                  THEN [outputs EXCEPT ![i] = [execution |-> execution, summary |-> counted]]
                  ELSE outputs
    /\ failures' = Noted(i, code, counted, said)
    /\ Finish(Adapted(i, code, counted, wrote, said))

(* The adapter runs the command of the suite. *)
RunSuite ==
    /\ step = "suites" /\ ~dryRun
    /\ \E i \in Upcoming, code \in {0, 1}, counted \in Summaries, wrote \in BOOLEAN,
          said \in Tallies \union {None} : CommandEnds(i, code, counted, wrote, said)
    /\ UNCHANGED <<execution, configVars, announced, endVars>>

(* The adapter throws: no command, or output that it cannot parse. *)
AdapterThrows ==
    /\ step = "suites" /\ ~dryRun
    /\ \E i \in Upcoming :
          /\ Suites[i].adapter # "unknown"
          /\ failures' = failures \union {[suite |-> i, overruled |-> FALSE]}
          /\ Finish(Thrown(i))
    /\ UNCHANGED <<execution, configVars, announced, endVars, outputs>>

(* A package without suites completes at once. *)
CompletePackage ==
    /\ step = "suites" /\ queue = {}
    /\ Len(announced) < Len(packageCatalog)
    /\ announced' = Append(announced, derivePackageStatus(packageCatalog[Len(announced) + 1]))
    /\ queue' = SuitesLeft(selected, packageCatalog, Len(announced) + 2)
    /\ UNCHANGED <<controlVars, results, rerunVars, endVars, outputs, failures>>

-----------------------------------------------------------------------------
(* The diagnostics rerun.                                                   *)

(* Faulty variant: the timeout is noted and the process runs on. *)
TimeoutWithoutKill ==
    /\ step = "rerun" /\ Suites[current.suite].diagnostics = "timed" /\ ~child.killed
    /\ child' = [child EXCEPT !.killed = child.phase = "exited"]
    /\ UNCHANGED <<controlVars, progressVars, current, endVars, outputs, failures>>

(* The timer runs until the rerun is settled, also while the process has    *)
(* ended and its output is still being read.                               *)
Timeout ==
    /\ step = "rerun" /\ Suites[current.suite].diagnostics = "timed" /\ ~child.killed
    /\ child' = [child EXCEPT !.killed = TRUE]
    /\ UNCHANGED <<controlVars, progressVars, current, endVars, outputs, failures>>

(* The process ends: by itself, or by SIGTERM and then without exit code. *)
ChildExit ==
    /\ step = "rerun" /\ child.phase = "running"
    /\ \E code \in {0, 1, None} :
          /\ child.hangs => child.killed
          /\ code = None => child.killed
          /\ child.hangs => code = None
          /\ child' = [child EXCEPT !.phase = "exited", !.code = code]
    /\ UNCHANGED <<controlVars, progressVars, current, endVars, outputs, failures>>

(* Faulty variant: the exit code alone decides. *)
CloseByCode ==
    /\ step = "rerun" /\ child.phase = "exited"
    /\ step' = "suites" /\ current' = None /\ child' = NoChild
    /\ Completed(attachDiagnostics(current, [status |-> IF child.code = 0 THEN "passed" ELSE "failed",
                                             timedOut |-> child.killed]))
    /\ UNCHANGED <<execution, configVars, announced, endVars, outputs, failures>>

(* "close": the rerun passed if it was not timed out and exited with 0. *)
ChildClose ==
    /\ step = "rerun" /\ child.phase = "exited"
    /\ step' = "suites" /\ current' = None /\ child' = NoChild
    /\ Completed(attachDiagnostics(current,
                    [status |-> IF ~child.killed /\ child.code = 0 THEN "passed" ELSE "failed",
                     timedOut |-> child.killed]))
    /\ UNCHANGED <<execution, configVars, announced, endVars, outputs, failures>>

(* "error": the process cannot be spawned, or not be killed. *)
ChildError ==
    /\ step = "rerun" /\ child.phase = "running"
    /\ step' = "suites" /\ current' = None /\ child' = NoChild
    /\ Completed(attachDiagnostics(current, [status |-> "failed", timedOut |-> child.killed]))
    /\ UNCHANGED <<execution, configVars, announced, endVars, outputs, failures>>

-----------------------------------------------------------------------------
(* The report.                                                              *)

AllAnnounced == step = "suites" /\ queue = {} /\ Len(announced) = Len(packageCatalog)

(* A policy plugin throws: runReport rejects. *)
PolicyThrows ==
    /\ AllAnnounced
    /\ step' = "idle" /\ exitCode' = "rejected"
    /\ UNCHANGED <<execution, configVars, progressVars, rerunVars, report, saved, outputs, failures>>

(* failedThresholds: a coverage threshold of the policy failed. *)
BuildReport ==
    /\ AllAnnounced
    /\ \E failedThresholds \in BOOLEAN :
          report' = [packages |-> [n \in DOMAIN announced |-> finalizePackageResult(packageCatalog[n])],
                     failedSuites |-> {r.suite : r \in {s \in ToSet(results) : s.status = "failed"}},
                     failedThresholds |-> failedThresholds]
    /\ step' = "artifacts"
    /\ UNCHANGED <<execution, configVars, progressVars, rerunVars, exitCode, saved, outputs, failures>>

Exit ==
    IF \/ \E n \in DOMAIN report.packages : report.packages[n] = "failed"
       \/ report.failedSuites # {}
       \/ report.failedThresholds
    THEN "failure" ELSE "success"

(* Faulty variant: the report is written when the raw files are. *)
WriteReportLast ==
    /\ step = "artifacts"
    /\ \E written \in 0..Len(results), rendered \in BOOLEAN :
          /\ saved' = [report |-> IF written = Len(results) THEN execution ELSE saved.report,
                       raw |-> [i \in SuiteIndexes |->
                                  IF \E n \in 1..written : results[n].suite = i
                                  THEN execution ELSE saved.raw[i]]]
          /\ exitCode' = IF written = Len(results) /\ rendered THEN Exit ELSE "rejected"
    /\ step' = "idle"
    /\ UNCHANGED <<execution, configVars, progressVars, rerunVars, report, outputs, failures>>

(* report.json first, then the raw files of the suites one by one; copying  *)
(* an artifact of a suite, or rendering the HTML page, may fail, which      *)
(* rejects the execution.                                                  *)
WriteReportArtifacts ==
    /\ step = "artifacts"
    /\ \E written \in 0..Len(results), rendered \in BOOLEAN :
          /\ saved' = [report |-> execution,
                       raw |-> [i \in SuiteIndexes |->
                                  IF \E n \in 1..written : results[n].suite = i
                                  THEN execution ELSE saved.raw[i]]]
          /\ exitCode' = IF written = Len(results) /\ rendered THEN Exit ELSE "rejected"
    /\ step' = "idle"
    /\ UNCHANGED <<execution, configVars, progressVars, rerunVars, report, outputs, failures>>

-----------------------------------------------------------------------------
Init ==
    /\ step = "idle" /\ execution = 0 /\ dryRun = FALSE /\ selected = {} /\ packageCatalog = <<>>
    /\ announced = <<>> /\ queue = {} /\ results = <<>>
    /\ current = None /\ child = NoChild
    /\ report = None /\ exitCode = None
    /\ outputs = [i \in SuiteIndexes |-> None]
    /\ saved = [report |-> 0, raw |-> [i \in SuiteIndexes |-> 0]]
    /\ failures = {}

RunStep == \/ DryRunSuite \/ UnresolvedAdapter \/ RunSuite \/ AdapterThrows
           \/ CompletePackage \/ ChildClose \/ PolicyThrows \/ BuildReport \/ WriteReportArtifacts

Next == \/ \E dry \in BOOLEAN, filters \in Filters : Start(dry, filters)
        \/ RunStep \/ Timeout \/ ChildExit \/ ChildError

Spec == Init /\ [][Next]_vars

(* The tool goes on, timers fire, and a command ends, of itself or killed. *)
FairSpec == Spec /\ WF_vars(RunStep) /\ WF_vars(Timeout) /\ WF_vars(ChildExit)

-----------------------------------------------------------------------------
(* Every variable holds a value of its type. *)
TypeOK ==
    /\ step \in {"idle", "suites", "rerun", "artifacts"}
    /\ execution \in 0..MaxExecutions /\ dryRun \in BOOLEAN
    /\ selected \in SUBSET SuiteIndexes /\ queue \in SUBSET SuiteIndexes
    /\ packageCatalog \in Seq(PackageNames)
    /\ announced \in Seq(Statuses) /\ results \in Seq(Result)
    /\ current \in Result \union {None}
    /\ child \in [phase : {"none", "running", "exited"}, hangs : BOOLEAN,
                  killed : BOOLEAN, code : {0, 1, None}]
    /\ report = None \/ report \in [packages : Seq(Statuses), failedSuites : SUBSET SuiteIndexes,
                                    failedThresholds : BOOLEAN]
    /\ exitCode \in {"success", "failure", "rejected", None}
    /\ outputs \in [SuiteIndexes -> [execution : 0..MaxExecutions, summary : SUBSET Statuses]
                                     \union {None}]
    /\ saved \in [report : 0..MaxExecutions, raw : [SuiteIndexes -> 0..MaxExecutions]]
    /\ failures \in SUBSET [suite : SuiteIndexes, overruled : BOOLEAN]

(* The place of a package in the catalog. *)
Place(package) == CHOOSE n \in DOMAIN packageCatalog : packageCatalog[n] = package

(* However its suites end, an execution that is reported has run each of    *)
(* the selected suites once, in the order of the catalog and, in a package, *)
(* of the configuration; a listed package without suites is skipped.       *)
EverySuiteReported ==
    report # None =>
        /\ {r.suite : r \in ToSet(results)} = selected
        /\ \A m, n \in DOMAIN results : m < n =>
              LET i == results[m].suite  j == results[n].suite IN
              \/ Place(Suites[i].package) < Place(Suites[j].package)
              \/ Suites[i].package = Suites[j].package /\ i < j
        /\ \A n \in DOMAIN report.packages :
              SuitesOf(selected, packageCatalog[n]) = {} => report.packages[n] = "skipped"

(* A command that fails, in its exit code, in the tests it counts or in     *)
(* what it says, makes the execution exit with 1, whatever adapter, rerun   *)
(* or package status lies between, unless a result format is configured and *)
(* the payload says otherwise and counts no failed test; and the execution  *)
(* exits with 1 only if something failed.                                  *)
FailureReachesExit ==
    /\ exitCode = "success" =>
          /\ ~report.failedThresholds
          /\ \A f \in failures : f.overruled /\ Suites[f.suite].adapter \in JsonFormats
    /\ exitCode = "failure" => report.failedThresholds \/ \E r \in ToSet(results) : r.status = "failed"

(* The status a package is announced with is the one it has in the report,  *)
(* unless one of its suites failed without a failed test, or passed by the  *)
(* word of a JSON payload without a passed one.                            *)
AnnouncedAsReported ==
    report # None =>
        \A n \in DOMAIN announced :
            \/ announced[n] = report.packages[n]
            \/ \E r \in ResultsOf(packageCatalog[n]) :
                  /\ r.status = report.packages[n] /\ r.status \notin r.summary
                  /\ \/ r.status = "failed"
                     \/ r.status = "passed" /\ Suites[r.suite].adapter \in JsonFormats

(* The suites that carry diagnostics are the failed ones that configure     *)
(* them; no rerun makes a failure good, and none that ran into its timeout *)
(* counts as passed, even if the process had ended well by then.           *)
RerunOfFailuresOnly ==
    \A r \in ToSet(results) :
        /\ r.diagnostics # None <=> r.status = "failed" /\ Suites[r.suite].diagnostics # "none"
        /\ r.diagnostics # None /\ r.diagnostics.status = "passed" => ~r.diagnostics.timedOut

(* After an execution that exits with 0 or 1 report.json and the raw files  *)
(* of its suites are of that execution; after one that is rejected half    *)
(* way no raw file is newer than report.json.                              *)
ArtifactsOfOneExecution ==
    /\ \A i \in SuiteIndexes : saved.raw[i] <= saved.report
    /\ exitCode \in {"success", "failure"} =>
          /\ saved.report = execution
          /\ \A r \in ToSet(results) : saved.raw[r.suite] = execution

(* What a failed command leads to: the exit code, and a rerun that does not *)
(* hide it.                                                                *)
FailuresStand == FailureReachesExit /\ RerunOfFailuresOnly

(* The console, report.json and the raw files tell of every suite once, and *)
(* of the same execution.                                                  *)
ReportSound == EverySuiteReported /\ AnnouncedAsReported /\ ArtifactsOfOneExecution

(* An execution ends: a rerun that hangs is ended by its timeout. *)
ExecutionEnds == step # "idle" ~> step = "idle"

-----------------------------------------------------------------------------
(* What packages/adapter-vitest/src/index.js asserts.                       *)

(* "Vitest adapter expected JSON report at ...": what a suite reports is    *)
(* what its runner wrote in this execution.                                *)
ResultsOfThisExecution == \A r \in ToSet(results) : r.from = execution
=============================================================================
