------------------------------- MODULE Coverage -------------------------------
(***************************************************************************)
(* packages/core/src/coverage.js: metrics of coverage, of one file and of  *)
(* many.                                                                   *)
(*                                                                         *)
(* A count is kept in parts, Unit of them to a line (or branch, ...), so   *)
(* that a share of it is whole too; an attribution weight is a number of   *)
(* parts of one.  A percentage is in hundredths.                           *)
(***************************************************************************)
EXTENDS Integers, SequencesExt

CONSTANTS None,   \* null
          Unit    \* parts of one: 10^6 in the code, which rounds to 6 digits

ASSUME CoverageAssumption == Unit \in Nat \ {0}

MetricNames == {"lines", "branches", "functions", "statements"}
NoMetrics == [m \in MetricNames |-> None]

(* a || b *)
OrElse(a, b) == IF a = None THEN b ELSE a

(* The entries of s with these indices, and those that are such, in their   *)
(* order: SelectSeq, where a proof has to look into it.                     *)
EntriesAt(s, indices) ==
    LET Kept[n \in 0..Len(s)] ==
            IF n = 0 THEN <<>> ELSE IF n \in indices THEN Append(Kept[n - 1], s[n]) ELSE Kept[n - 1]
    IN Kept[Len(s)]
Where(s, Is(_)) == EntriesAt(s, {i \in DOMAIN s : Is(s[i])})

(* n / d in hundredths of a percent, rounded. *)
Percentage(n, d) == (20000 * n + d) \div (2 * d)

createCoverageMetric(covered, total) ==
    IF total = None THEN None
    ELSE LET safeTotal == Max({0, total})
             safeCovered == Max({0, Min({safeTotal, OrElse(covered, 0)})})
         IN [covered |-> safeCovered, total |-> safeTotal,
             pct |-> IF safeTotal = 0 THEN 10000 ELSE Percentage(safeCovered, safeTotal)]

(* The parts that fall to a file of this weight. *)
Share(count, weight) == (count \div Unit) * weight

aggregateCoverageMetric(files, m) ==
    LET valid == SelectSeq(files, LAMBDA file : file.metrics[m] # None)
        Total(sum, file) == sum + Share(file.metrics[m].total, file.weight)
        Covered(sum, file) == sum + Share(file.metrics[m].covered, file.weight)
    IN IF valid = <<>> THEN None
       ELSE createCoverageMetric(FoldLeft(Covered, 0, valid), FoldLeft(Total, 0, valid))

normalizeCoverageSummary(coverage, packageName) ==
    LET NormalizeFile(file) ==
            [file EXCEPT !.package = OrElse(@, packageName), !.weight = OrElse(@, Unit)]
        files == [i \in DOMAIN coverage.files |-> NormalizeFile(coverage.files[i])]
    IN IF coverage = None THEN None
       ELSE [metrics |-> [m \in MetricNames |->
                              OrElse(coverage.metrics[m], aggregateCoverageMetric(files, m))],
             files |-> files]

mergeCoverageMetric(left, right) ==
    IF left = None THEN right
    ELSE IF right = None THEN left
    ELSE createCoverageMetric(Max({left.covered, right.covered}), Max({left.total, right.total}))

mergeCoverageFile(current, file) ==
    [current EXCEPT
        !.metrics = [m \in MetricNames |-> mergeCoverageMetric(@[m], file.metrics[m])],
        !.package = OrElse(@, file.package), !.module = OrElse(@, file.module),
        !.theme = OrElse(@, file.theme), !.shared = @ \/ file.shared,
        !.source = OrElse(@, file.source), !.weight = OrElse(OrElse(@, file.weight), Unit)]

(* One entry for a path, however many of the summaries have it. *)
mergeCoverageSummaries(items) ==
    LET summaries == SelectSeq(items, LAMBDA item : item # None)
        AddFile(merged, file) ==
            LET at == {i \in DOMAIN merged : merged[i].path = file.path} IN
            IF at = {} THEN Append(merged, file)
            ELSE [merged EXCEPT ![CHOOSE i \in at : TRUE] = mergeCoverageFile(@, file)]
        files == FlattenSeq([i \in DOMAIN summaries |-> summaries[i].files])
    IN IF summaries = <<>> THEN None
       ELSE normalizeCoverageSummary([metrics |-> NoMetrics, files |-> FoldLeft(AddFile, <<>>, files)],
                                     None)
===============================================================================
