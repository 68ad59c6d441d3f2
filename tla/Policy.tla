-------------------------------- MODULE Policy --------------------------------
(***************************************************************************)
(* packages/core/src/policy.js: manifests and plugins, the classification  *)
(* of tests, the attribution of coverage, owners and thresholds.           *)
(*                                                                         *)
(* A path is the sequence of its segments, and so is a glob, whose "*"     *)
(* stands for a segment and "**" for any number of them; the name of no    *)
(* directory is the beginning of that of another.                          *)
(* A hook of a plugin is a function of what it has an answer for; a hook   *)
(* that a plugin lacks is the empty one.  plugin.sources are the files     *)
(* that the source analysis reads; other plugins read none.                *)
(***************************************************************************)
EXTENDS Coverage, TLC

Rejected == [error |-> "rejected"]
NoHook == << >>

-----------------------------------------------------------------------------
(* Manifests.                                                               *)

(* config.manifests[key], or the manifestPath of the older section. *)
resolveManifestPath(config, key) == OrElse(config.manifests[key], config.sections[key].manifestPath)

EmptyManifest == [rules |-> <<>>, coverageRules |-> <<>>,
                  ownership |-> [modules |-> <<>>, themes |-> <<>>],
                  thresholds |-> [modules |-> <<>>, themes |-> <<>>]]

(* files: the manifests there are, by path.  One that is missing is none. *)
loadManifestEntry(files, path) ==
    IF path \notin DOMAIN files THEN None
    ELSE [part \in DOMAIN EmptyManifest |->
             IF part \in DOMAIN files[path] THEN files[path][part] ELSE EmptyManifest[part]]

loadPolicyManifests(files, config) ==
    [key \in {"classification", "coverageAttribution", "ownership", "thresholds"} |->
        loadManifestEntry(files, resolveManifestPath(config, key))]

(* Of several entries for a key the last one counts. *)
Last1(entries, Key(_), key) ==
    LET at == {i \in DOMAIN entries : Key(entries[i]) = key} IN
    IF at = {} THEN None ELSE entries[Max(at)]

ModuleOfEntry(entry) == entry.module
ThemeOfEntry(entry) == <<entry.module, entry.theme>>

buildOwnershipLookup(manifests) ==
    LET ownership == OrElse(manifests.ownership, EmptyManifest).ownership IN
    [modules |-> SelectSeq(ownership.modules, LAMBDA e : e.module # None /\ e.owner # None),
     themes |-> SelectSeq(ownership.themes,
                          LAMBDA e : e.module # None /\ e.theme # None /\ e.owner # None)]

-----------------------------------------------------------------------------
(* Plugins.                                                                 *)

(* entry: nothing, an object with hooks ("inline", "plugin"), the name of a *)
(* built-in ("builtin"), a module that is loaded ("module"), or anything    *)
(* else.  builtIns and modules: the plugins they make.                      *)
resolvePluginEntry(builtIns, modules, entry) ==
    IF entry = None THEN None
    ELSE CASE entry.kind \in {"inline", "plugin"} -> entry.plugin
           [] entry.kind = "builtin" -> builtIns[entry.name]
           [] entry.kind = "module" -> IF entry.name \in DOMAIN modules THEN modules[entry.name]
                                       ELSE Rejected
           [] OTHER -> None

(* The plugins of every section, then those of the source analysis, which   *)
(* is there itself unless it is disabled or has plugins of its own.         *)
gatherPluginEntries(config) ==
    LET analysis == config.sourceAnalysis IN
    config.plugins \o config.sections["classification"].plugins
        \o config.sections["coverageAttribution"].plugins \o config.sections["ownership"].plugins
        \o (IF analysis.plugins # <<>> THEN analysis.plugins
            ELSE IF analysis.enabled THEN <<[kind |-> "builtin", name |-> "source-analysis"]>>
            ELSE <<>>)

ResolvedEntries(builtIns, modules, config) ==
    LET entries == gatherPluginEntries(config)
    IN [i \in DOMAIN entries |-> resolvePluginEntry(builtIns, modules, entries[i])]

(* The first plugin of an id counts. *)
resolvePolicyPlugins(builtIns, modules, config) ==
    LET entries == ResolvedEntries(builtIns, modules, config)
        SameId(i, j) == entries[i] # None /\ entries[i].id = entries[j].id
    IN EntriesAt(entries, {j \in DOMAIN entries : entries[j] # None /\ \A i \in 1..(j - 1) : ~SameId(i, j)})

(* The policy of an execution, or its rejection. *)
preparePolicyContext(files, builtIns, modules, config) ==
    LET manifests == loadPolicyManifests(files, config) IN
    IF Rejected \in ToSet(ResolvedEntries(builtIns, modules, config)) THEN Rejected
    ELSE [manifests |-> manifests, plugins |-> resolvePolicyPlugins(builtIns, modules, config),
          ownershipLookup |-> buildOwnershipLookup(manifests)]

(* The answer of the first plugin that has one. *)
FirstAnswer(plugins, hook, key) ==
    LET answering == {i \in DOMAIN plugins : key \in DOMAIN plugins[i][hook]} IN
    IF answering = {} THEN None ELSE plugins[Min(answering)][hook][key]

-----------------------------------------------------------------------------
(* Paths and rules.                                                         *)

matchSimpleGlob(path, pattern) ==
    LET match[i \in 1..(Len(pattern) + 1), j \in 1..(Len(path) + 1)] ==
            IF i > Len(pattern) THEN j > Len(path)
            ELSE IF pattern[i] = "**" /\ i = Len(pattern) THEN j <= Len(path)
            ELSE IF pattern[i] = "**" THEN \E k \in j..(Len(path) + 1) : match[i + 1, k]
            ELSE /\ j <= Len(path)
                 /\ pattern[i] \in {"*", path[j]}
                 /\ match[i + 1, j + 1]
    IN match[1, 1]

MatchesAny(path, patterns) == \E pattern \in patterns : matchSimpleGlob(path, pattern)

matchesConfiguredRule(rule, path, packageName) ==
    /\ path # None
    /\ rule.package \in {None, packageName} \/ packageName = None
    /\ rule.include = {} \/ MatchesAny(path, rule.include)
    /\ ~MatchesAny(path, rule.exclude)

Relative(root, path) ==
    IF IsPrefix(root, path) THEN <<SubSeq(path, Len(root) + 1, Len(path))>> ELSE <<>>

(* The path as seen from the package, its directory, the working directory *)
(* and the project, whose root is <<>>.                                     *)
getPackageRelativeCandidates(suite, path) ==
    LET named == IF suite.package = None THEN <<>>
                 ELSE <<<<"packages", suite.package>>, <<suite.package>>>>
        roots == (IF suite.packageRoot = None THEN <<>> ELSE <<suite.packageRoot>>)
                     \o named \o (IF suite.cwd = None THEN <<>> ELSE <<suite.cwd>>) \o <<<<>>>>
    IN IF path = None THEN {}
       ELSE ToSet(FlattenSeq([i \in DOMAIN roots |-> Relative(roots[i], path)]))

-----------------------------------------------------------------------------
(* Classification of tests.                                                 *)

normalizeClassification(value, fallback) ==
    IF value = None \/ value.module = None THEN None
    ELSE [module |-> value.module, theme |-> OrElse(value.theme, "uncategorized"),
          source |-> OrElse(value.source, fallback)]

runPluginClassification(policy, test) ==
    normalizeClassification(FirstAnswer(policy.plugins, "classifyTest", test.path), "plugin")

(* The first rule that matches the path seen from anywhere. *)
matchClassificationManifest(policy, suite, test) ==
    LET rules == OrElse(policy.manifests.classification, EmptyManifest).rules
        candidates == getPackageRelativeCandidates(suite, test.path)
        matching == {i \in DOMAIN rules :
                        \E path \in candidates : matchesConfiguredRule(rules[i], path, suite.package)}
    IN IF matching = {} THEN None
       ELSE LET rule == rules[Min(matching)] IN
            [module |-> OrElse(rule.module, "uncategorized"),
             theme |-> OrElse(rule.theme, "uncategorized"), source |-> "manifest"]

resolveTestClassification(policy, suite, test) ==
    LET plugin == runPluginClassification(policy, test)
        manifest == matchClassificationManifest(policy, suite, test)
    IN IF plugin # None THEN plugin
       ELSE IF manifest # None THEN manifest
       ELSE IF test.module \notin {None, "uncategorized"}
       THEN [module |-> test.module, theme |-> OrElse(test.theme, "uncategorized"),
             source |-> OrElse(test.source, "adapter")]
       ELSE [module |-> "uncategorized", theme |-> "uncategorized", source |-> "default"]

(***************************************************************************)
(* Source analysis, the built-in plugin                                    *)
(* (packages/plugin-source-analysis/src/index.js).                         *)
(*                                                                         *)
(* A source is the sequence of its calls in the order in which they begin: *)
(* call.within is the call it is part of, or 0; call.block says that the   *)
(* callback has a body of statements, which is then the only part of a     *)
(* describe, test or hook that is listed.  call.chain are the names of the *)
(* callee, call.title what its first argument names, if anything; its      *)
(* lines stand for its text.  The options have their defaults.             *)
(***************************************************************************)
HookNames == {"beforeEach", "beforeAll", "afterEach", "afterAll"}

classifyCall(chain) ==
    IF chain = <<>> THEN None
    ELSE IF chain[1] = "describe" \/ (chain[1] = "test" /\ Contains(chain, "describe")) THEN "describe"
    ELSE IF chain[1] \in HookNames THEN "hook"
    ELSE IF chain[1] \in {"test", "it"} THEN "test" ELSE None

isAssertionCall(chain) ==
    /\ chain # <<>>
    /\ chain[1] \in {"expect", "assert"} \/ (chain[1] = "t" /\ Len(chain) > 1)

MockCalls == {<<"vi", "mock">>, <<"jest", "mock">>, <<"vi", "spyOn">>, <<"mock", "module">>}

summarizeMock(call) ==
    IF \E mock \in MockCalls : IsPrefix(mock, call.chain) THEN OrElse(call.title, "<dynamic>") ELSE None

FileContext == [titles |-> <<>>, test |-> 0, visited |-> TRUE]

(* The context of what is in the call: of a test or hook without a body of *)
(* statements nothing is visited.                                          *)
ContextWithin(context, call, tests) ==
    LET class == classifyCall(call.chain) IN
    CASE class = "describe" -> IF call.block /\ call.title # None
                               THEN [context EXCEPT !.titles = Append(@, call.title)] ELSE context
      [] class = "hook" -> [context EXCEPT !.visited = @ /\ call.block]
      [] class = "test" -> [context EXCEPT !.visited = @ /\ call.block, !.test = Len(tests) + 1]
      [] OTHER -> context

(* What a call adds to the file, or to the test that it is in.  Its first  *)
(* name counts: test.step is a test, t.test an assertion.                  *)
RecordCall(analysis, context, call) ==
    LET class == classifyCall(call.chain)
        title == OrElse(call.title, "[dynamic test]")
        mock == summarizeMock(call)
        t == context.test
    IN CASE class = "test" ->
              [analysis EXCEPT !.tests = Append(@,
                  [title |-> title, fullName |-> Append(context.titles, title), line |-> call.line,
                   snippet |-> call.line, assertions |-> <<>>, setup |-> <<>>, mocks |-> <<>>])]
         [] class = "hook" /\ t = 0 -> [analysis EXCEPT !.sharedSetup = Append(@, call.line)]
         [] class = "hook" /\ t # 0 -> [analysis EXCEPT !.tests[t].setup = Append(@, call.line)]
         [] class = None /\ t # 0 ->
              [analysis EXCEPT !.tests[t].assertions = IF isAssertionCall(call.chain) THEN Append(@, call.line) ELSE @,
                               !.tests[t].mocks = IF mock # None THEN Append(@, mock) ELSE @]
         [] class = None /\ t = 0 /\ mock # None -> [analysis EXCEPT !.sharedMocks = Append(@, mock)]
         [] OTHER -> analysis

traverseNode(calls) ==
    LET Visit(seen, call) ==
            LET context == IF call.within = 0 THEN FileContext ELSE seen.contexts[call.within]
                recorded == IF context.visited THEN RecordCall(seen, context, call) ELSE seen
            IN [recorded EXCEPT !.contexts = Append(@, ContextWithin(context, call, seen.tests))]
    IN FoldLeft(Visit, [contexts |-> <<>>, tests |-> <<>>, sharedSetup |-> <<>>, sharedMocks |-> <<>>], calls)

(* sources: the scripts there are; one that does not parse, as TypeScript   *)
(* does not, tells nothing.                                                 *)
analyzeTestFile(sources, path) ==
    IF path \in DOMAIN sources /\ sources[path].parses THEN traverseNode(sources[path].calls) ELSE None

FirstThat(entries, Is(_)) == LET found == SelectSeq(entries, Is) IN IF found = <<>> THEN None ELSE found[1]

(* By line, else by full name, else by title. *)
matchAnalyzedTest(analysis, test) ==
    LET byLine == FirstThat(analysis.tests, LAMBDA entry : entry.line = test.line)
        byFullName == FirstThat(analysis.tests, LAMBDA entry : entry.fullName = test.fullName)
    IN IF test.line # None /\ byLine # None THEN byLine
       ELSE IF byFullName # None THEN byFullName
       ELSE FirstThat(analysis.tests, LAMBDA entry : entry.title = test.name)

(* The hooks and mocks outside of tests are those of every test.           *)
sourceAnalysisPatch(sources, test) ==
    LET analysis == analyzeTestFile(sources, test.path)
        matched == matchAnalyzedTest(analysis, test)
        shared == [analysis |-> [matched |-> matched # None],
                   setup |-> analysis.sharedSetup, mocks |-> analysis.sharedMocks]
    IN IF test.path = None \/ analysis = None THEN << >>
       ELSE IF matched = None THEN shared
       ELSE [analysis |-> shared.analysis, assertions |-> matched.assertions, snippet |-> matched.snippet,
             setup |-> shared.setup \o matched.setup, mocks |-> shared.mocks \o matched.mocks]

-----------------------------------------------------------------------------
(* Enrichment of tests.                                                     *)

Dedupe(values) ==
    EntriesAt(values, {j \in DOMAIN values : values[j] # None /\ \A i \in 1..(j - 1) : values[i] # values[j]})

ListFields == {"assertions", "setup", "mocks", "failureMessages"}

(* The fields of the patch replace those of the test; lists are joined. *)
mergeTestPatch(test, patch) ==
    [field \in DOMAIN test |->
        IF field \notin DOMAIN patch THEN test[field]
        ELSE IF field \in ListFields THEN Dedupe(test[field] \o patch[field]) ELSE patch[field]]

(* A hook that throws ends the execution. *)
EnrichmentThrows(policy, suite) ==
    \E i \in DOMAIN suite.tests, p \in DOMAIN policy.plugins :
        suite.tests[i].path \in policy.plugins[p].throws

(* What the plugin answers of the test: what is fixed for its file, or what *)
(* the sources tell that the plugin reads.                                  *)
PatchOf(plugin, test) ==
    IF test.path \in DOMAIN plugin.enrichTest THEN plugin.enrichTest[test.path]
    ELSE sourceAnalysisPatch(plugin.sources, test)

(* A test with its classification and the patches of every plugin. *)
EnrichedTest(policy, suite, test) ==
    LET class == resolveTestClassification(policy, suite, test)
        classified == [test EXCEPT !.module = class.module, !.theme = class.theme,
                                   !.source = class.source]
        Patched[n \in 0..Len(policy.plugins)] ==
            IF n = 0 THEN classified
            ELSE mergeTestPatch(Patched[n - 1], PatchOf(policy.plugins[n], Patched[n - 1]))
    IN Patched[Len(policy.plugins)]

applyPolicyPipeline(policy, suite) ==
    [suite EXCEPT !.tests = [i \in DOMAIN @ |-> EnrichedTest(policy, suite, @[i])]]

-----------------------------------------------------------------------------
(* Attribution of coverage.                                                 *)

normalizeCoverageTargets(rule) ==
    LET targets == IF rule.targets # None THEN rule.targets
                   ELSE IF rule.module # None
                   THEN <<[module |-> rule.module, theme |-> rule.theme, shared |-> FALSE]>>
                   ELSE <<>>
        named == SelectSeq(targets, LAMBDA target : target.module # None)
    IN [i \in DOMAIN named |-> [named[i] EXCEPT !.shared = @ \/ rule.shared]]

matchCoverageManifestRule(policy, path, packageName) ==
    LET rules == OrElse(policy.manifests.coverageAttribution, EmptyManifest).coverageRules
        matching == {i \in DOMAIN rules : matchesConfiguredRule(rules[i], path, packageName)}
    IN IF matching = {} THEN None
       ELSE LET rule == rules[Min(matching)]
                targets == normalizeCoverageTargets(rule)
            IN [targets |-> targets, shared |-> rule.shared, source |-> "manifest",
                packageOnly |-> rule.scope = "package-only" \/ targets = <<>>]

(* What a plugin says, its own source or "plugin". *)
normalizeCoverageAttribution(value) ==
    IF value = None THEN None ELSE [value EXCEPT !.source = OrElse(@, "plugin")]

classifyCoverageFile(policy, packageName, file) ==
    LET plugin == normalizeCoverageAttribution(
                      FirstAnswer(policy.plugins, "attributeCoverageFile", file.path))
        manifest == matchCoverageManifestRule(policy, file.path, packageName)
    IN IF plugin # None THEN plugin
       ELSE IF manifest # None THEN manifest
       ELSE IF file.module # None
       THEN [targets |-> <<[module |-> file.module, theme |-> file.theme, shared |-> file.shared]>>,
             shared |-> file.shared, packageOnly |-> FALSE, source |-> OrElse(file.source, "adapter")]
       ELSE [targets |-> <<>>, shared |-> FALSE, packageOnly |-> FALSE, source |-> "default"]

(* Faulty variant: every target gets the whole file. *)
WholeFiles(attribution, packageName, file) ==
    IF attribution.packageOnly THEN <<>>
    ELSE [i \in DOMAIN attribution.targets |->
             [file EXCEPT !.package = packageName, !.module = attribution.targets[i].module,
                          !.theme = attribution.targets[i].theme, !.weight = Unit]]

(* A share for each target; a file of the package alone, or of nobody, has  *)
(* none.                                                                    *)
AttributedFiles(attribution, packageName, file) ==
    LET n == Len(attribution.targets)
        weight == IF n > 1 THEN (2 * Unit + n) \div (2 * n) ELSE Unit
        Attributed(target) ==
            [file EXCEPT !.package = packageName, !.module = target.module, !.theme = target.theme,
                         !.shared = target.shared \/ attribution.shared,
                         !.source = attribution.source, !.weight = weight]
    IN IF attribution.packageOnly THEN <<>>
       ELSE [i \in 1..n |-> Attributed(attribution.targets[i])]

CoverageFilesOf(package) == IF package.coverage = None THEN <<>> ELSE package.coverage.files

(* files: the shares of every file of every package. *)
AttributedFilesOf(policy, packages) ==
    LET PackageFiles(package) ==
            LET files == CoverageFilesOf(package) IN
            FlattenSeq([i \in DOMAIN files |->
                AttributedFiles(classifyCoverageFile(policy, package.name, files[i]), package.name, files[i])])
    IN FlattenSeq([i \in DOMAIN packages |-> PackageFiles(packages[i])])

(* summary: how many files there are of each kind. *)
AttributionCounts(classes) ==
    LET attributed == {i \in DOMAIN classes : ~classes[i].packageOnly /\ classes[i].targets # <<>>}
        Of(source) == Cardinality({i \in attributed : classes[i].source = source})
    IN [totalFiles |-> Len(classes),
        attributedFiles |-> Cardinality(attributed),
        sharedFiles |-> Cardinality({i \in DOMAIN classes : classes[i].shared}),
        moduleOnlyFiles |-> Cardinality({i \in attributed :
                                \A j \in DOMAIN classes[i].targets : classes[i].targets[j].theme = None}),
        packageOnlySharedFiles |-> Cardinality({i \in DOMAIN classes : classes[i].packageOnly}),
        unattributedFiles |-> Cardinality({i \in DOMAIN classes :
                                  ~classes[i].packageOnly /\ classes[i].targets = <<>>}),
        manifestFiles |-> Of("manifest"), heuristicFiles |-> Of("heuristic"), pluginFiles |-> Of("plugin")]

AttributionSummary(policy, packages) ==
    AttributionCounts(
        FlattenSeq([i \in DOMAIN packages |->
            LET files == CoverageFilesOf(packages[i]) IN
            [j \in DOMAIN files |-> classifyCoverageFile(policy, packages[i].name, files[j])]]))

collectCoverageAttribution(policy, packages) ==
    [files |-> AttributedFilesOf(policy, packages), summary |-> AttributionSummary(policy, packages)]

-----------------------------------------------------------------------------
(* Owners.                                                                  *)

(* theme = None asks for the owner of the module. *)
lookupOwner(policy, moduleName, themeName) ==
    LET plugin == FirstAnswer(policy.plugins, "lookupOwner", <<moduleName, themeName>>)
        theme == Last1(policy.ownershipLookup.themes, ThemeOfEntry, <<moduleName, themeName>>)
        module == Last1(policy.ownershipLookup.modules, ModuleOfEntry, moduleName)
    IN IF plugin # None THEN plugin
       ELSE IF themeName # None /\ theme # None THEN theme.owner
       ELSE IF module # None THEN module.owner ELSE None

-----------------------------------------------------------------------------
(* Thresholds.                                                              *)

(* lines: { minPct: 80 }, lines: 80 or linesPct: 80, whichever finds one    *)
(* first: source[form][metric] is the number in that form.                  *)
resolveThresholdMetric(source, m) ==
    LET forms == <<"pctForm", "plain", "nested">>
        found == {i \in DOMAIN forms : source[forms[i]][m] # None}
    IN IF found = {} THEN None ELSE source[forms[Min(found)]][m]

normalizeThresholdMetrics(source) ==
    LET minimum == [m \in MetricNames |-> resolveThresholdMetric(source, m)]
        given == {m \in MetricNames : minimum[m] # None}
    IN [m \in given |-> minimum[m]]

(* An entry that names no module, no theme or no metric is no rule. *)
IsThresholdRule(entry, scopeType) ==
    /\ entry.module # None
    /\ scopeType = "theme" => entry.theme # None
    /\ DOMAIN normalizeThresholdMetrics(entry.coverage) # {}

normalizeThresholdRule(entry, scopeType) ==
    [key |-> IF scopeType = "theme" THEN <<entry.module, entry.theme>> ELSE <<entry.module>>,
     enforcement |-> IF entry.enforcement = "warn" THEN "warn" ELSE "error",
     metrics |-> normalizeThresholdMetrics(entry.coverage)]

(* The last rule for a key is the one in force. *)
buildThresholdRuleMap(entries, scopeType) ==
    LET rules == [i \in DOMAIN entries |-> normalizeThresholdRule(entries[i], scopeType)]
        valid == {i \in DOMAIN rules : IsThresholdRule(entries[i], scopeType)}
    IN [key \in {rules[i].key : i \in valid} |->
           rules[Max({i \in valid : rules[i].key = key})]]

(* Without any measured metric the rule is skipped; beside a measured one,  *)
(* a metric that is missing fails.                                          *)
evaluateThresholdRule(coverage, rule) ==
    LET measured == {m \in DOMAIN rule.metrics : coverage # None /\ coverage.metrics[m] # None}
        failures == {m \in DOMAIN rule.metrics : m \in measured => coverage.metrics[m].pct < rule.metrics[m]}
    IN IF measured = {} THEN [status |-> "skipped", violations |-> {}]
       ELSE [status |-> IF failures = {} THEN "passed"
                        ELSE IF rule.enforcement = "warn" THEN "warn" ELSE "failed",
             violations |-> failures]

(* What a rule can be about: the modules of the report and their themes.    *)
Scopes(modules) ==
    {[key |-> <<m.module>>, coverage |-> m.coverage] : m \in modules}
        \union UNION {{[key |-> <<m.module, t.theme>>, coverage |-> t.coverage] : t \in m.themes} :
                       m \in modules}

ThresholdVerdict(scope, rule, coverageEnabled) ==
    LET verdict == evaluateThresholdRule(IF coverageEnabled THEN scope.coverage ELSE None, rule)
    IN [key |-> scope.key, status |-> verdict.status, violations |-> verdict.violations]

ThresholdCounts(verdicts, rules) ==
    LET With(status) == Cardinality({verdict \in verdicts : verdict.status = status})
    IN [verdicts |-> verdicts,
        totalRules |-> Cardinality(DOMAIN rules),
        evaluatedRules |-> Cardinality(verdicts) - With("skipped"),
        passedRules |-> With("passed"), failedRules |-> With("failed"), warningRules |-> With("warn")]

(* A rule for what the report has not is counted and never evaluated.       *)
evaluateCoverageThresholds(policy, modules, coverageEnabled) ==
    LET manifest == OrElse(policy.manifests.thresholds, EmptyManifest).thresholds
        Verdicts(rules) ==
            ThresholdCounts({ThresholdVerdict(scope, rules[scope.key], coverageEnabled) :
                                scope \in {s \in Scopes(modules) : s.key \in DOMAIN rules}}, rules)
        OfModules == buildThresholdRuleMap(manifest.modules, "module")
        OfThemes == buildThresholdRuleMap(manifest.themes, "theme")
    IN Verdicts([key \in DOMAIN OfModules \union DOMAIN OfThemes |->
                    IF key \in DOMAIN OfModules THEN OfModules[key] ELSE OfThemes[key]])
===============================================================================
