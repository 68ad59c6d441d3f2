------------------------------ MODULE MCIngest ------------------------------
(* Small instances of Ingest: two runs, two publishers, five reports. *)
EXTENDS Ingest, TLC

CONSTANTS q1, q2, q3, a, b

Tests1 == [id |-> 1, total |-> 2, failed |-> 0, lines |-> None, perf |-> FALSE]
Tests2 == [id |-> 2, total |-> 2, failed |-> 1, lines |-> None, perf |-> FALSE]
Lines1 == [id |-> 3, total |-> 0, failed |-> 0, lines |-> 80, perf |-> FALSE]
Perf1 == [id |-> 4, total |-> 0, failed |-> 0, lines |-> None, perf |-> TRUE]
Full1 == [id |-> 5, total |-> 2, failed |-> 0, lines |-> 70, perf |-> TRUE]

Upload(r, kind, producer, report, at) ==
    [run |-> r, kind |-> kind, producer |-> producer, report |-> report, completedAt |-> at]

MCReportIds == 1..5
MCRuns == 1..2
MCSymmetry == Permutations(Requests)

(* One publisher revises and republishes its tests, another adds coverage,  *)
(* a combined report loses its coverage in its second revision, and a       *)
(* second run of the project completes between the first one's uploads.    *)
MCPayloads == {Upload(1, None, a, Tests1, 1), Upload(1, None, a, Tests2, 1),
               Upload(1, None, b, Lines1, 2),
               Upload(1, "combined", b, Full1, 1), Upload(1, "combined", b, Tests2, 3),
               Upload(2, None, a, Tests2, 2)}

MCOneRun == {1}

(* The three specialized publishers of one provider run. *)
MCSpecialized == {Upload(1, None, a, Tests1, 1), Upload(1, None, b, Lines1, 1),
                  Upload(1, None, b, Perf1, 1)}

(* One publisher whose second revision loses facts of the first, and that   *)
(* may go back to the first.                                               *)
MCRevisions == {Upload(1, "combined", b, Full1, 1), Upload(1, "combined", b, Tests2, 3)}
=============================================================================
