-------------------------- MODULE MCBenchmarkCache --------------------------
(* Small instances of BenchmarkCache. *)
EXTENDS BenchmarkCache

CONSTANTS q1, q2, q3, i1, i2

(* Ingestion names both keys, the other callers of invalidateProject one. *)
MCScopes == {Keys, {"project-key"}}

(* One page shows the catalog, two show the summary. *)
MCAsked == [q \in Queries |-> IF q = q1 THEN "catalog" ELSE "summary"]
=============================================================================
