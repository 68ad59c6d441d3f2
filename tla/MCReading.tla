----------------------------- MODULE MCReading -----------------------------
(***************************************************************************)
(* Three runs of two projects, one of them older than the submissions;     *)
(* pages of one entry.                                                     *)
(***************************************************************************)
EXTENDS Reading, TLC

MCRunProject == 1 :> "p" @@ 2 :> "q" @@ 3 :> "p"

Test(id, suite, status) == [id |-> id, suite |-> suite, status |-> status, module |-> None,
                            file |-> IF status = "failed" THEN 1 ELSE None, word |-> "w"]
File(id, path, pct) == [id |-> id, path |-> path, linesPct |-> pct, package |-> None]
Package(status, failed) == [name |-> "pkg", status |-> status, total |-> 2, failed |-> failed, skipped |-> 0,
                            suites |-> {status}]

(* A content with id c, tests 10c, 10c + 1 of suite c and files 10c, 10c + 1; *)
(* facts are what its report bears.                                         *)
Sent(c, r, kind, facts, producer, at, failed, words) ==
    LET tested == "tests" \in facts
        covered == "coverage" \in facts
        status == IF failed > 0 THEN "failed" ELSE "passed"
    IN  [run |-> r, kind |-> kind, kinds |-> IF kind = "combined" THEN facts ELSE {kind}, producer |-> producer, completedAt |-> at, words |-> words,
         status |-> IF tested THEN status ELSE "unknown",
         total |-> IF tested THEN 2 ELSE 0, failed |-> IF tested THEN failed ELSE 0,
         covered |-> covered, linesPct |-> IF covered THEN 50 + c ELSE None,
         suites |-> IF tested THEN {[id |-> c, package |-> "pkg"]} ELSE {},
         tests |-> IF tested THEN {Test(10 * c, c, status), Test(10 * c + 1, c, IF failed > 1 THEN "failed" ELSE "passed")}
                   ELSE {},
         errors |-> IF failed > 0 THEN {[id |-> c, test |-> 10 * c]} ELSE {},
         artifacts |-> {[id |-> c, test |-> None, word |-> "log"], [id |-> 10 * c, test |-> 10 * c, word |-> "w"]},
         files |-> IF covered THEN {File(10 * c, IF c = 3 THEN 3 ELSE 1, IF c = 3 THEN None ELSE 10 * c), File(10 * c + 1, 2, 40)} ELSE {},
         packages |-> IF tested THEN {Package(status, failed)} ELSE {},
         statGroup |-> IF "performance" \in facts THEN "benchmark" ELSE None]

MCContent ==
    [c \in 1..5 |->
        CASE c = 1 -> Sent(1, 1, "combined", {"tests", "coverage"}, "legacy", 1, 1, {"main"})
          [] c = 2 -> Sent(2, 1, "performance", {"tests", "coverage", "performance"}, "ci", 1, 1, {"main"})
          [] c = 3 -> Sent(3, 3, "coverage", {"coverage"}, "ci", 3, 0, {"side"})
          [] c = 4 -> Sent(4, 2, "combined", {"tests"}, "ci", 4, 1, {"main"})
          [] c = 5 -> Sent(5, 2, "combined", {"tests", "coverage", "performance"}, "ci", 3, 2, {"main"})]

(* The database orders the paths 2 and 3 otherwise than JavaScript. *)
MCCollation == 1 :> 1 @@ 2 :> 3 @@ 3 :> 2

List(list, r, order, search) ==
    [list |-> list, run |-> r, suite |-> 5, project |-> None, status |-> None, search |-> search,
     after |-> None, limit |-> None, sort |-> order, order |-> order]

MCLists == {List("runs", None, "newest", None), List("suite", 2, "id", None), List("failures", 2, "id", None),
            List("artifacts", 2, "id", None), List("coverage", 1, "lines-desc", None),
            List("coverage", 1, "path-asc", None), List("coverage", 3, "path-asc", None)}
MCSearches == {List("runs", None, "newest", "main")}
=============================================================================
