---------------------------- MODULE MCRunReport -----------------------------
(* A small configuration for RunReport. *)
EXTENDS RunReport

(* A package without suites, one with two suites, and three that no         *)
(* configuration lists: one without adapter, one whose results are JSON.    *)
MCConfiguredPackages == <<"empty", "web">>

MCSuites == << [package |-> "gone", adapter |-> "unknown", diagnostics |-> "none"],
               [package |-> "api", adapter |-> "shell", diagnostics |-> "untimed"],
               [package |-> "web", adapter |-> "file", diagnostics |-> "timed"],
               [package |-> "web", adapter |-> "stream", diagnostics |-> "empty"],
               [package |-> "lab", adapter |-> "suite-json", diagnostics |-> "none"],
               [package |-> "lab", adapter |-> "check-json", diagnostics |-> "none"] >>

MCFilters == {{"empty"}, {}, {"api", "web"}, {"lab"}}

MCSummaries == {{}, {"passed"}, {"skipped"}, {"failed", "passed"}}
=============================================================================
