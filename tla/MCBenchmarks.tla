---------------------------- MODULE MCBenchmarks ----------------------------
(***************************************************************************)
(* Three runs of two groups and three metrics, the last of them published  *)
(* on one branch or on another.  The first is measured before the          *)
(* refactoring, and every later one names it as its baseline.              *)
(***************************************************************************)
EXTENDS Benchmarks, TLC

\* Names of metrics: elapsed ms, frames_per_second and a count.
MCWords == << {"elapsed", "ms"}, {"per_second"}, {"count"} >>

Stat(id, group, name, value, runner, series, budget, phase) ==
    [id |-> id, group |-> group, name |-> name, value |-> value, runner |-> runner, series |-> series,
     profile |-> IF series = "a" THEN "ci" ELSE "local", budget |-> budget, baseline |-> "pre", phase |-> phase,
     mode |-> Null, lowerIsBetter |-> Null, warning |-> IF series = "b" THEN 30 ELSE Null, severe |-> Null]

Of(r, at, branch, points) == [run |-> r, completedAt |-> at, branch |-> branch, points |-> points]

MCSubmissions ==
    { Of(1, 10, "main", {Stat(11, 1, 1, 100, "x", "a", Null, 0), Stat(12, 2, 2, 50, "x", "b", Null, 0)}),
      Of(2, 20, "main", {Stat(21, 1, 1, 104, "x", "a", "warn", 1), Stat(22, 1, 3, 7, "y", "a", Null, 1),
                         Stat(23, 2, 2, 0, "x", "b", Null, 1)}),
      Of(3, 30, "main", {Stat(31, 1, 1, 130, "x", "a", Null, 2), Stat(32, 1, 3, 9, "y", "a", "failed", 2)}),
      Of(3, 30, "side", {Stat(33, 1, 1, 80, "x", "a", Null, 2), Stat(34, 1, 1, 90, "y", "b", Null, 2),
                         Stat(35, 2, 2, 45, "x", "b", Null, 2)}) }
=============================================================================
