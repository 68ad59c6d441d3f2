----------------------------- MODULE Benchmarks -----------------------------
(***************************************************************************)
(* The benchmarks of one project: what the measurements mean               *)
(* (packages/core/src/benchmark-semantics.js), the bounded reads of the    *)
(* server (packages/server/graphql/repositories/benchmarkRepository.js and *)
(* query-service.js) and the explorer of the web (packages/web/components/ *)
(* BenchmarkBits.js), while runs are published and published again.        *)
(*                                                                         *)
(* A measurement has a number.  Percentages are compared without dividing. *)
(***************************************************************************)
EXTENDS Integers, Sequences, FiniteSets

CONSTANTS Submissions,   \* [run, completedAt, branch, points] an upload can bring
          Words,          \* Words[name]: the words of a metric's name and unit
          OverriddenGroups, \* the groups of varcad-io that start with benchmark.varcad.
          Limit,          \* points of a series the panels ask for
          VisibleSeries,  \* series shown at first
          Timeframes,     \* days of the timeframe filter
          Null

VARIABLES active,   \* active[r]: the publication whose measurements r shows
          explorer  \* the rendered explorer and the state of its hooks

benchmarkVars == <<active, explorer>>

RunIds == {p.run : p \in Submissions}

\* A measurement in a list: with its run, when that was completed, its branch.
Row(p, stat) == [run |-> p.run, completedAt |-> p.completedAt, branch |-> p.branch, stat |-> stat]

Metric(x) == <<x.stat.group, x.stat.name>>
Series(x) == <<x.stat.group, x.stat.name, x.stat.series, x.stat.runner, x.branch>>

\* Groups and metrics are numbers in the order of their names.  No two points
\* of one series have the same time.
ASSUME BenchmarksAssumption ==
    /\ IsFiniteSet(Submissions) /\ Null \notin Submissions /\ Null \notin BOOLEAN /\ Null # "all"
    /\ \A p \in Submissions : p.completedAt \in Nat /\ IsFiniteSet(p.points)
    /\ \A p \in Submissions : \A x \in p.points :
          /\ {x.id, x.group, x.name, x.value} \subseteq Int /\ x.lowerIsBetter \in BOOLEAN \union {Null}
          /\ x # Null /\ Row(p, x) # Null
    /\ \A p, q \in Submissions : \A x \in p.points, y \in q.points :
          /\ p = q \/ p.run # q.run
          /\ Series(Row(p, x)) = Series(Row(q, y)) /\ p.completedAt = q.completedAt
          => p = q /\ x = y
    /\ {Limit, VisibleSeries} \subseteq Nat \ {0} /\ Limit > 1 /\ Timeframes \subseteq Nat \ {0}

-----------------------------------------------------------------------------
(* Semantics of a metric.                                                   *)

Coalesce(x, y) == IF x # Null THEN x ELSE y
Larger(x, y) == IF x > y THEN x ELSE y
Abs(x) == IF x < 0 THEN -x ELSE x

BENCHMARK_SEMANTIC_RULES ==
    << [mode |-> Null, words |-> {"memory", "resident", "rss", "bytes"},
        lowerIsBetter |-> TRUE, warning |-> 10, severe |-> 20],
       [mode |-> Null, words |-> {"per_second", "throughput", "fps"},
        lowerIsBetter |-> FALSE, warning |-> 5, severe |-> 10],
       [mode |-> Null, words |-> {"elapsed", "duration", "ms", "us"},
        lowerIsBetter |-> TRUE, warning |-> 5, severe |-> 10] >>

BENCHMARK_SEMANTIC_OVERRIDES ==
    << [words |-> {"count"}, but |-> {"error", "failure"}, mode |-> "neutral",
        lowerIsBetter |-> Null, warning |-> 25, severe |-> 50],
       [words |-> {"output_bytes"}, but |-> {}, mode |-> "neutral",
        lowerIsBetter |-> Null, warning |-> 10, severe |-> 20],
       [words |-> {"operations_per_second"}, but |-> {}, mode |-> Null,
        lowerIsBetter |-> FALSE, warning |-> 7, severe |-> 15] >>

\* What no rule and no override matches.
Unmatched == [mode |-> Null, lowerIsBetter |-> Null, warning |-> Null, severe |-> Null]

\* The first of the rules that match; the order of the rules decides.
FirstRule(rules, matching) ==
    IF matching = {} THEN Unmatched ELSE rules[CHOOSE i \in matching : \A j \in matching : i <= j]

MatchedRule(name) ==
    FirstRule(BENCHMARK_SEMANTIC_RULES,
              {i \in 1..3 : BENCHMARK_SEMANTIC_RULES[i].words \cap Words[name] # {}})

MatchedOverride(group, name) ==
    FirstRule(BENCHMARK_SEMANTIC_OVERRIDES,
              {i \in 1..3 : /\ group \in OverriddenGroups
                            /\ BENCHMARK_SEMANTIC_OVERRIDES[i].words \cap Words[name] # {}
                            /\ BENCHMARK_SEMANTIC_OVERRIDES[i].but \cap Words[name] = {}})

resolveBenchmarkSemantics(stat) ==
    LET rule == MatchedRule(stat.name)
        override == MatchedOverride(stat.group, stat.name)
        warning == Coalesce(stat.warning, Coalesce(override.warning, Coalesce(rule.warning, 5)))
        severe == Coalesce(stat.severe, Coalesce(override.severe, Coalesce(rule.severe, 10)))
    IN  [mode |-> Coalesce(stat.mode, Coalesce(override.mode, "directional")),
         lowerIsBetter |-> Coalesce(stat.lowerIsBetter,
                                    Coalesce(override.lowerIsBetter, Coalesce(rule.lowerIsBetter, TRUE))),
         warning |-> warning, severe |-> Larger(warning, severe)]

resolveBenchmarkBudgetStatus(stat) ==
    CASE stat.budget = "warn" -> "warning" [] stat.budget = "failed" -> "severe-regression" [] OTHER -> Null

\* delta * 100 / |previous| is at least pct, whatever its sign.
Deviates(delta, previous, pct) == Abs(delta) * 100 >= pct * Abs(previous)

\* The status of a regression of this size.
RegressionStatus(latest, delta, previous) ==
    LET semantics == resolveBenchmarkSemantics(latest)
        budget == resolveBenchmarkBudgetStatus(latest)
    IN  IF budget = "severe-regression" \/ Deviates(delta, previous, semantics.severe) THEN "severe-regression"
        ELSE IF budget = "warning" \/ Deviates(delta, previous, semantics.warning) THEN "warning"
        ELSE "regressed"

classifyBenchmarkComparison(latest, previous) ==
    LET semantics == resolveBenchmarkSemantics(latest)
        delta == latest.value - previous.value
        unmoved == Coalesce(resolveBenchmarkBudgetStatus(latest),
                            IF previous = Null \/ previous.value = 0 THEN "insufficient-baseline" ELSE "stable")
    IN  IF previous = Null \/ previous.value = 0 \/ delta = 0 \/ semantics.mode = "neutral"
        THEN unmoved
        ELSE IF (delta < 0) = semantics.lowerIsBetter THEN "improved"
        ELSE RegressionStatus(latest, delta, previous.value)

isBenchmarkRegressionStatus(status) == status \in {"regressed", "warning", "severe-regression"}

benchmarkStatusRank(status) ==
    CASE status = "severe-regression" -> 0 [] status = "warning" -> 1 [] status = "regressed" -> 2
      [] status = "improved" -> 3 [] status = "stable" -> 4 [] OTHER -> 5

-----------------------------------------------------------------------------
(* The reads of the server.                                                 *)

\* performance_stats with the overview and the selected submission of its run.
Measured == {r \in RunIds : active[r] # Null}
Rows == UNION {{Row(active[r], s) : s \in active[r].points} : r \in Measured}

Newer(x, y) == x.completedAt > y.completedAt
Newest(rows) == CHOOSE x \in rows : \A y \in rows \ {x} : Newer(x, y)
Previous(rows) == IF Cardinality(rows) < 2 THEN Null ELSE Newest(rows \ {Newest(rows)})

\* The partition of a series when the branch is left out.
SamePartitionOfAnyBranch(x, y) == SubSeq(Series(x), 1, 4) = SubSeq(Series(y), 1, 4)

\* PARTITION BY metric, seriesId, runnerKey, branch.
SamePartition(x, y) == Series(x) = Series(y)

SeriesRank(x) == 1 + Cardinality({y \in Rows : SamePartition(x, y) /\ Newer(y, x)})
BaselineRank(x) ==
    1 + Cardinality({y \in Rows : SamePartition(x, y) /\ y.stat.baseline = x.stat.baseline /\ Newer(y, x)})

listBoundedPerformanceTrends(metrics, limit) ==
    {x \in Rows : /\ Metric(x) \in metrics
                  /\ \/ SeriesRank(x) <= limit
                     \/ x.stat.phase = 0 /\ BaselineRank(x) = 1}

listBenchmarkCatalog == {Metric(x) : x \in Rows}

\* The points of the summary, two of a series, and of the panels of the web.
SummaryRows == listBoundedPerformanceTrends(listBenchmarkCatalog, 2)
loadProjectBenchmarkPanels == listBoundedPerformanceTrends(listBenchmarkCatalog, Limit)

SeriesRows(rows, key) == {x \in rows : Series(x) = key}

\* The comparison of the two newest points of a series.
Change(rows, key) ==
    LET own == SeriesRows(rows, key)
        previous == Previous(own)
    IN  [series |-> key, latest |-> Newest(own), previous |-> previous,
         status |-> classifyBenchmarkComparison(Newest(own).stat, IF previous = Null THEN Null ELSE previous.stat)]

buildBenchmarkChangeEntries(rows) == {Change(rows, key) : key \in {Series(x) : x \in rows}}

\* The oldest point of the series that is the baseline its latest point names.
baselinePoint(rows, key) ==
    LET own == SeriesRows(rows, key)
        named == {x \in own : x.stat.phase = 0 /\ x.stat.baseline = Newest(own).stat.baseline}
    IN  IF Newest(own).stat.baseline = Null \/ named = {} THEN Null
        ELSE CHOOSE x \in named : \A y \in named \ {x} : Newer(y, x)

buildBenchmarkSummaryChangeEntries(rows) ==
    {[change |-> c, baseline |-> baselinePoint(rows, c.series)] : c \in buildBenchmarkChangeEntries(rows)}

OfStatus(changes, statuses) == Cardinality({c \in changes : c.status \in statuses})

Groups(rows) == {x.stat.group : x \in rows}
GroupRows(rows, g) == {x \in rows : x.stat.group = g}
LatestOf(rows) == CHOOSE t \in {x.completedAt : x \in rows} : \A x \in rows : t >= x.completedAt

\* The status of the first change: changes are sorted by status.
buildBenchmarkNamespaceSummary(rows, g) ==
    LET own == GroupRows(rows, g)
        changes == buildBenchmarkChangeEntries(own)
        first == CHOOSE c \in changes :
                   \A d \in changes : benchmarkStatusRank(c.status) <= benchmarkStatusRank(d.status)
    IN  [group |-> g, status |-> first.status,
         latestCompletedAt |-> LatestOf(own),
         metrics |-> Cardinality({x.stat.name : x \in own}),
         series |-> Cardinality({x.stat.series : x \in own} \ {Null}),
         regressions |-> OfStatus(changes, {"regressed", "warning", "severe-regression"}),
         warnings |-> OfStatus(changes, {"warning"}), severe |-> OfStatus(changes, {"severe-regression"})]

buildNamespaceCardsFromSummary == {buildBenchmarkNamespaceSummary(SummaryRows, g) : g \in Groups(SummaryRows)}
buildNamespaceCards ==
    LET rows == loadProjectBenchmarkPanels IN {buildBenchmarkNamespaceSummary(rows, g) : g \in Groups(rows)}

-----------------------------------------------------------------------------
(* The measurements of one run.                                             *)

\* The newest candidate that is the most alike.
resolvePreviousBenchmarkPoint(x, points) ==
    LET others == {y \in points : Metric(y) = Metric(x) /\ y.run # x.run}
        sameSeries == {y \in others : y.stat.series = x.stat.series}
        sameRunner == {y \in sameSeries : y.stat.runner = x.stat.runner}
        exact == {y \in sameRunner : y.branch = x.branch}
        pick == IF exact # {} THEN exact ELSE IF sameRunner # {} THEN sameRunner
                ELSE IF sameSeries # {} THEN sameSeries ELSE others
        newest == {y \in pick : \A z \in pick : ~Newer(z, y)}
    IN  IF newest = {} THEN Null ELSE CHOOSE y \in newest : TRUE

RunDelta(x, points) ==
    LET p == resolvePreviousBenchmarkPoint(x, points)
    IN  [series |-> Series(x), latest |-> x, previous |-> p,
         status |-> classifyBenchmarkComparison(x.stat, IF p = Null THEN Null ELSE p.stat)]

buildRunBenchmarkDeltaEntries(r, points) == {RunDelta(x, points) : x \in {y \in Rows : y.run = r}}

-----------------------------------------------------------------------------
(* The explorer.                                                            *)

Min(S) == CHOOSE x \in S : \A y \in S : x <= y

\* The panels are sorted by their newest point, the metrics by their name.
FirstGroup(rows) ==
    Min({g \in Groups(rows) : LatestOf(GroupRows(rows, g)) = LatestOf(rows)})

selectedPanel(e) ==
    IF e.rows = {} THEN Null ELSE IF e.group \in Groups(e.rows) THEN e.group ELSE FirstGroup(e.rows)

MetricsOf(e, g) == {x.stat.name : x \in GroupRows(e.rows, g)}
selectedMetric(e) ==
    LET names == MetricsOf(e, selectedPanel(e))
    IN  IF names = {} THEN Null ELSE IF e.metric \in names THEN e.metric ELSE Min(names)

allPoints(e) == {x \in e.rows : Metric(x) = <<selectedPanel(e), selectedMetric(e)>>}
seriesIds(e) == {x.stat.series : x \in allPoints(e)}

Filters == {"runner", "branch", "profile"}
FilterValue(x, f) == CASE f = "runner" -> x.stat.runner [] f = "branch" -> x.branch [] OTHER -> x.stat.profile
FilterValues(e, f) == {FilterValue(x, f) : x \in allPoints(e)} \ {Null}

\* The first series in the order of the points, newest first.
FirstSeries(e) ==
    LET before(x) == {y.stat.series : y \in {z \in allPoints(e) :
                        Newer(z, x) \/ (z.completedAt = x.completedAt /\ z.stat.id > x.stat.id)}}
    IN  {x.stat.series : x \in {y \in allPoints(e) : Cardinality(before(y) \ {y.stat.series}) < VisibleSeries}}

\* The filters begin without a value.
OpenedUnfiltered(rows) ==
    LET e == [rows |-> rows, group |-> Null, metric |-> Null]
    IN  [rows |-> rows, group |-> selectedPanel(e), metric |-> selectedMetric(e),
         filter |-> [f \in Filters |-> Null], timeframe |-> Null, visible |-> FirstSeries(e)]

\* The state the hooks begin with.
Opened(rows) ==
    LET e == [rows |-> rows, group |-> Null, metric |-> Null]
    IN  [rows |-> rows, group |-> selectedPanel(e), metric |-> selectedMetric(e),
         filter |-> [f \in Filters |-> "all"], timeframe |-> Null, visible |-> FirstSeries(e)]

FilterKept(e) == [f \in Filters |-> IF e.filter[f] \in FilterValues(e, f) THEN e.filter[f] ELSE "all"]

\* The effects keep the series shown without falling back on the first ones.
EffectsKeepingHidden(e) ==
    [e EXCEPT !.group = selectedPanel(e), !.metric = selectedMetric(e), !.filter = FilterKept(e),
              !.visible = @ \cap seriesIds(e)]

\* What the effects of one render set, all from the state of that render.
Effects(e) ==
    LET preserved == e.visible \cap seriesIds(e)
    IN  [e EXCEPT !.group = selectedPanel(e), !.metric = selectedMetric(e), !.filter = FilterKept(e),
                  !.visible = IF preserved # {} THEN preserved ELSE FirstSeries(e)]

resolveTimeframeCutoff(e) == IF e.timeframe = Null THEN 0 ELSE LatestOf(allPoints(e)) - e.timeframe

visiblePoints(e) ==
    {x \in allPoints(e) : /\ \A f \in Filters : e.filter[f] \in {"all", FilterValue(x, f)}
                          /\ x.completedAt >= resolveTimeframeCutoff(e)
                          /\ x.stat.series \in e.visible}

\* The points of a series in their order; points of one time in either.
buildBenchmarkSeries(points) == {{x \in points : x.stat.series = s} : s \in {y.stat.series : y \in points}}

Comparison(points) == classifyBenchmarkComparison(Newest(points).stat, Previous(points).stat)

summarizeSeriesComparisons(series) ==
    LET compared == {points \in series : Cardinality(points) > 1}
        improved == {points \in compared : Comparison(points) = "improved"}
        regressed == {points \in compared : isBenchmarkRegressionStatus(Comparison(points))}
    IN  [comparedSeries |-> Cardinality(compared), improvements |-> Cardinality(improved),
         regressions |-> Cardinality(regressed), stable |-> Cardinality((compared \ improved) \ regressed)]

-----------------------------------------------------------------------------
(* Behaviour.                                                               *)

BenchmarksInit == active = [r \in RunIds |-> Null] /\ explorer = Opened({})

\* A run is published, or another submission of it is selected.
Publish == \E p \in Submissions : active' = [active EXCEPT ![p.run] = p] /\ UNCHANGED explorer

\* The panels are loaded and the explorer rendered with them.
LoadPanels ==
    /\ explorer' = [explorer EXCEPT !.rows = loadProjectBenchmarkPanels]
    /\ UNCHANGED active

RunEffects == explorer' = Effects(explorer) /\ UNCHANGED active

\* React runs the effects of a render before the next event.
Settled == Effects(explorer) = explorer /\ explorer.rows # {}

Set(e) == Settled /\ explorer' = e /\ UNCHANGED active

\* A card of the summary, which may name a group the panels do not have.
OpenNamespace == \E m \in listBenchmarkCatalog : Set([explorer EXCEPT !.group = m[1], !.metric = m[2]])
SelectGroup == \E g \in Groups(explorer.rows) : Set([explorer EXCEPT !.group = g])
SelectMetric == \E n \in MetricsOf(explorer, selectedPanel(explorer)) : Set([explorer EXCEPT !.metric = n])
SetFilter ==
    \E f \in Filters : \E v \in FilterValues(explorer, f) \union {"all"} : Set([explorer EXCEPT !.filter[f] = v])
SetTimeframe == \E t \in Timeframes \union {Null} : Set([explorer EXCEPT !.timeframe = t])

\* The last series shown cannot be hidden.
ToggleSeries ==
    \E s \in seriesIds(explorer) :
        Set([explorer EXCEPT !.visible = IF s \notin @ THEN @ \union {s}
                                         ELSE IF Cardinality(@) > 1 THEN @ \ {s} ELSE @])

BenchmarksNext ==
    \/ Publish \/ LoadPanels \/ RunEffects
    \/ OpenNamespace \/ SelectGroup \/ SelectMetric \/ SetFilter \/ SetTimeframe \/ ToggleSeries

BenchmarksSpec == BenchmarksInit /\ [][BenchmarksNext]_benchmarkVars

-----------------------------------------------------------------------------
(* Properties.                                                              *)

\* Types: the runs, the settings of the explorer and the status of every
\* change (classifyBenchmarkComparison, the hooks of BenchmarkExplorer).
BenchmarksTypeOK ==
    /\ \A r \in RunIds : active[r] \in {p \in Submissions : p.run = r} \union {Null}
    /\ explorer.timeframe \in Timeframes \union {Null}
    /\ \A f \in Filters : explorer.filter[f] # Null
    /\ explorer.visible \subseteq UNION {{x.series : x \in p.points} : p \in Submissions}
    /\ \A c \in buildBenchmarkChangeEntries(SummaryRows) :
          c.status \in {"severe-regression", "warning", "regressed", "improved", "stable", "insufficient-baseline"}

\* The bounded read of two points of a series yields the very changes that the
\* whole history and the longer read of the web's panels yield, the cards of
\* the summary are those of the panels, and the delta of a run with a point
\* before it in its series is the change of that series (BOUNDED_TRENDS_SQL,
\* buildBenchmarkSummary, buildNamespaceCards, buildRunBenchmarkDeltaEntries).
SummaryOfAllPoints ==
    LET panels == loadProjectBenchmarkPanels
        changes == buildBenchmarkChangeEntries(Rows)
    IN  /\ buildBenchmarkChangeEntries(SummaryRows) = changes
        /\ buildBenchmarkChangeEntries(panels) = changes
        /\ buildNamespaceCardsFromSummary = buildNamespaceCards
        /\ \A c \in {d \in changes : d.previous # Null} : c \in buildRunBenchmarkDeltaEntries(c.latest.run, panels)

\* Of two measurements of a directional metric the change to the better is an
\* improvement and the change back a regression, whatever their budgets; a
\* neutral metric has neither (classifyBenchmarkComparison).
ClassifiedByDirection ==
    \A x, y \in {z.stat : z \in Rows} :
        LET better == IF resolveBenchmarkSemantics(x).lowerIsBetter THEN x.value < y.value ELSE x.value > y.value
            forth == classifyBenchmarkComparison(x, y)
            back == classifyBenchmarkComparison(y, x)
        IN  /\ <<x.group, x.name>> = <<y.group, y.name>> /\ x.value # 0 /\ y.value # 0 /\ better
            /\ resolveBenchmarkSemantics(x) = resolveBenchmarkSemantics(y)
            => IF resolveBenchmarkSemantics(x).mode = "neutral"
               THEN {forth, back} \cap {"improved", "regressed"} = {}
               ELSE forth = "improved" /\ isBenchmarkRegressionStatus(back)

\* In the explorer of current panels that shows every series of one runner and
\* one branch for all time, as many series regressed and improved as the
\* summary of the project says (summarizeSeriesComparisons).
ComparisonsAgree ==
    LET e == explorer
        one == {c \in buildBenchmarkChangeEntries(SummaryRows) :
                  /\ c.previous # Null
                  /\ <<c.series[1], c.series[2], c.series[4], c.series[5]>> =
                     <<e.group, e.metric, e.filter["runner"], e.filter["branch"]>>}
        shown == summarizeSeriesComparisons(buildBenchmarkSeries(visiblePoints(e)))
    IN  (/\ Settled /\ e.rows = loadProjectBenchmarkPanels
         /\ e.timeframe = Null /\ e.filter["profile"] = "all" /\ e.visible = seriesIds(e)
         /\ e.filter["runner"] # "all" /\ e.filter["branch"] # "all")
        => /\ shown.regressions = OfStatus(one, {"regressed", "warning", "severe-regression"})
           /\ shown.improvements = OfStatus(one, {"improved"})

\* The summary, the panels, the run and the explorer tell of the same changes,
\* and each of them in the direction of its metric.
ChangesAgree == SummaryOfAllPoints /\ ClassifiedByDirection /\ ComparisonsAgree

\* One pass of the effects fits the settings to the panels: the group, metric
\* and filters exist, and a series is shown when there is one, whatever was
\* selected before and was dropped by a later publication (the effects of
\* BenchmarkExplorer and ProjectBenchmarkExplorer).
EffectsFit ==
    [][RunEffects /\ explorer.rows # {} =>
          LET e == explorer'
          IN  /\ Effects(e) = e /\ e.group \in Groups(e.rows) /\ e.metric \in MetricsOf(e, e.group)
              /\ \A f \in Filters : e.filter[f] = "all" \/ e.filter[f] \in FilterValues(e, f)
              /\ e.visible # {} /\ e.visible \subseteq seriesIds(e)]_benchmarkVars

\* A change whose latest point names a baseline that is stored in its series
\* is compared with it.
BaselineKept ==
    \A c \in buildBenchmarkSummaryChangeEntries(SummaryRows) :
        c.baseline = baselinePoint(Rows, c.change.series)
=============================================================================
