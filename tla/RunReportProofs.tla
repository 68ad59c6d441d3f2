-------------------------- MODULE RunReportProofs ---------------------------
(***************************************************************************)
(* For every configuration of packages and suites and every number of      *)
(* executions: a command that fails makes the execution exit with 1,       *)
(* diagnostics belong to failed suites, which no rerun makes good, and the *)
(* report has every suite once, in turn, as the console announced it.      *)
(***************************************************************************)
EXTENDS RunReport, WellFoundedInduction, TLAPS

(* What is true of every result: a failed test makes a failed suite. *)
Sound(r) == "failed" \in r.summary => r.status = "failed"

Diagnosed(r) ==
    /\ r.diagnostics # None <=> r.status = "failed" /\ Suites[r.suite].diagnostics # "none"
    /\ r.diagnostics # None /\ r.diagnostics.status = "passed" => ~r.diagnostics.timedOut

Reported(i) == \E r \in ToSet(results) : r.suite = i /\ r.status = "failed"

Shaped(r) == r = [suite |-> r.suite, status |-> r.status, summary |-> r.summary,
                  from |-> r.from, diagnostics |-> r.diagnostics]

ResultsAreSequence == \E S : results \in Seq(S)

ResultsSound == \A r \in ToSet(results) : Sound(r) /\ Diagnosed(r)

(* Only the payload of a suite with a result format overrules a failure. *)
Excused(f) == f.overruled /\ Suites[f.suite].adapter \in JsonFormats

FailuresKnown ==
    \A f \in failures : \/ Excused(f) \/ Reported(f.suite)
                        \/ (step = "rerun" /\ current.suite = f.suite)

ChildType == [phase : {"none", "running", "exited"}, hangs : BOOLEAN, killed : BOOLEAN,
              code : {0, 1, None}]

RerunsFailed ==
    step = "rerun" =>
        /\ Shaped(current) /\ Sound(current)
        /\ current.status = "failed"
        /\ Suites[current.suite].diagnostics # "none"
        /\ child \in ChildType

ReportConsistent ==
    step = "artifacts" =>
        /\ report.failedSuites = {r.suite : r \in {s \in ToSet(results) : s.status = "failed"}}
        /\ (\E n \in DOMAIN report.packages : report.packages[n] = "failed")
           => \E r \in ToSet(results) : r.status = "failed"

ExitAtEnd == step # "idle" => exitCode = None

SuitesKnown ==
    /\ selected \subseteq SuiteIndexes /\ queue \subseteq SuiteIndexes
    /\ outputs = [i \in SuiteIndexes |-> outputs[i]]

(* The inductive invariant. *)
RunInv ==
    /\ SuitesKnown /\ ResultsAreSequence /\ ResultsSound /\ FailuresKnown /\ RerunsFailed
    /\ ReportConsistent /\ ExitAtEnd /\ FailureReachesExit

-----------------------------------------------------------------------------
LEMMA NoneApart ==
    /\ None \notin Tallies \union {"success", "failure", "rejected"}
    /\ \A d \in [status : Statuses, timedOut : BOOLEAN] : d # None
  BY RunAssumption DEF RunAssumption, Diagnosis

LEMMA AppendSet ==
    ASSUME NEW S, NEW s \in Seq(S), NEW x
    PROVE  /\ Append(s, x) \in Seq(S \union {x})
           /\ ToSet(Append(s, x)) = ToSet(s) \union {x}
<1>1. s \in Seq(S \union {x}) OBVIOUS
<1>2. Append(s, x) \in Seq(S \union {x}) BY <1>1
<1>3. /\ Len(Append(s, x)) = Len(s) + 1 /\ Len(s) \in Nat
      /\ \A n \in 1..Len(s) : Append(s, x)[n] = s[n]
      /\ Append(s, x)[Len(s) + 1] = x
  BY <1>1
<1>4. DOMAIN s = 1..Len(s) /\ DOMAIN Append(s, x) = 1..(Len(s) + 1) BY <1>1, <1>2, <1>3
<1> QED BY <1>2, <1>3, <1>4 DEF ToSet

(* A result is appended: what held of the results and of it holds again.    *)
LEMMA CompletedStep ==
    ASSUME ResultsAreSequence, ResultsSound, NEW r, Completed(r), Sound(r), Diagnosed(r)
    PROVE  /\ ResultsAreSequence' /\ ResultsSound'
           /\ ToSet(results') = ToSet(results) \union {r}
<1>1. PICK S : results \in Seq(S) BY DEF ResultsAreSequence
<1>2. /\ results' \in Seq(S \union {r})
      /\ ToSet(results') = ToSet(results) \union {r}
  BY <1>1, AppendSet DEF Completed
<1>3. ResultsAreSequence' BY <1>2 DEF ResultsAreSequence
<1>4. ResultsSound' BY <1>2 DEF ResultsSound, Sound, Diagnosed
<1> QED BY <1>2, <1>3, <1>4

(* The end of a suite's command, with or without a rerun. *)
LEMMA FinishStep ==
    ASSUME RunInv, step = "suites", NEW r, Finish(r), Shaped(r), Sound(r), r.diagnostics = None,
           \A f \in failures' : f \in failures \/ Excused(f) \/ (f.suite = r.suite /\ r.status = "failed"),
           UNCHANGED <<exitCode, report>>, SuitesKnown'
    PROVE  RunInv'
<1> DEFINE skipped == [status |-> "skipped", timedOut |-> FALSE]
           kind == Suites[r.suite].diagnostics
<1>1. exitCode = None /\ exitCode' = None BY DEF RunInv, ExitAtEnd
<1>2. ExitAtEnd' /\ FailureReachesExit'
  BY <1>1, NoneApart DEF ExitAtEnd, FailureReachesExit
<1>3. \A f \in failures : Excused(f) \/ Reported(f.suite) BY DEF RunInv, FailuresKnown
<1>4. CASE r.status # "failed" \/ kind = "none"
  <2>1. Completed(r) /\ step' = step BY <1>4 DEF Finish
  <2>2. Diagnosed(r) BY <1>4 DEF Diagnosed
  <2>3. /\ ResultsAreSequence' /\ ResultsSound'
        /\ ToSet(results') = ToSet(results) \union {r}
    BY <2>1, <2>2, CompletedStep DEF RunInv
  <2>4. FailuresKnown' BY <1>3, <2>3 DEF FailuresKnown, Reported, Excused
  <2>5. RerunsFailed' /\ ReportConsistent' BY <2>1 DEF RerunsFailed, ReportConsistent
  <2> QED BY <1>2, <2>3, <2>4, <2>5 DEF RunInv
<1>5. CASE r.status = "failed" /\ kind = "empty"
  <2> DEFINE d == attachDiagnostics(r, skipped)
  <2>1. Completed(d) /\ step' = step BY <1>5 DEF Finish
  <2>2. /\ d.suite = r.suite /\ d.status = "failed" /\ d.summary = r.summary
        /\ d.diagnostics = skipped
    BY <1>5 DEF attachDiagnostics, Shaped
  <2>3. skipped # None /\ skipped.status # "passed" BY NoneApart DEF Statuses
  <2>4. Sound(d) /\ Diagnosed(d) BY <1>5, <2>2, <2>3 DEF Sound, Diagnosed
  <2> HIDE DEF d
  <2>5. /\ ResultsAreSequence' /\ ResultsSound'
        /\ ToSet(results') = ToSet(results) \union {d}
    BY <2>1, <2>4, CompletedStep DEF RunInv
  <2>6. FailuresKnown' BY <1>3, <2>2, <2>5 DEF FailuresKnown, Reported, Excused
  <2>7. RerunsFailed' /\ ReportConsistent' BY <2>1 DEF RerunsFailed, ReportConsistent
  <2> QED BY <1>2, <2>5, <2>6, <2>7 DEF RunInv
<1>6. CASE r.status = "failed" /\ kind \notin {"none", "empty"}
  <2>1. step' = "rerun" /\ current' = r /\ UNCHANGED results BY <1>6 DEF Finish
  <2>6. child' \in ChildType BY <1>6 DEF Finish, NoChild, ChildType
  <2>2. ResultsAreSequence' /\ ResultsSound'
    BY <2>1 DEF RunInv, ResultsAreSequence, ResultsSound, Sound, Diagnosed
  <2>3. FailuresKnown' BY <1>3, <2>1 DEF FailuresKnown, Reported, Excused
  <2>4. RerunsFailed' BY <1>6, <2>1, <2>6 DEF RerunsFailed, Shaped, Sound
  <2>5. ReportConsistent' BY <2>1 DEF ReportConsistent
  <2> QED BY <1>2, <2>2, <2>3, <2>4, <2>5 DEF RunInv
<1> QED BY <1>4, <1>5, <1>6

(* The end of a rerun: the failed suite is appended with its diagnostics. *)
LEMMA RerunStep ==
    ASSUME RunInv, step = "rerun", step' = "suites", NEW d \in [status : Statuses, timedOut : BOOLEAN],
           d.status = "passed" => ~d.timedOut,
           Completed(attachDiagnostics(current, d)), UNCHANGED <<exitCode, report, failures, outputs, selected>>
    PROVE  RunInv'
<1> DEFINE r == attachDiagnostics(current, d)
<1>1. /\ r.suite = current.suite /\ r.status = "failed" /\ r.summary = current.summary
      /\ r.diagnostics = d /\ Suites[r.suite].diagnostics # "none"
  BY DEF attachDiagnostics, Shaped, RunInv, RerunsFailed
<1>2. Sound(r) /\ Diagnosed(r) BY <1>1, NoneApart DEF Sound, Diagnosed
<1>3. Completed(r) OBVIOUS
<1> HIDE DEF r
<1>4. /\ ResultsAreSequence' /\ ResultsSound'
      /\ ToSet(results') = ToSet(results) \union {r}
  BY <1>2, <1>3, CompletedStep DEF RunInv
<1>5. FailuresKnown' BY <1>1, <1>4 DEF RunInv, FailuresKnown, Reported, Excused
<1>6. RerunsFailed' /\ ReportConsistent' BY DEF RerunsFailed, ReportConsistent
<1>7. ExitAtEnd' /\ FailureReachesExit'
  BY NoneApart DEF RunInv, ExitAtEnd, FailureReachesExit
<1>8. SuitesKnown' BY <1>3 DEF RunInv, SuitesKnown, Completed
<1> QED BY <1>4, <1>5, <1>6, <1>7, <1>8 DEF RunInv

(* r is a new result of suite i, failed if its command fails. *)
Adequate(r, i, fails) ==
    /\ Shaped(r) /\ Sound(r) /\ r.diagnostics = None /\ r.suite = i
    /\ fails => r.status = "failed"

(* What every adapter returns: a failing exit code and a failed test both   *)
(* make the suite failed.                                                  *)
LEMMA NormalizedSound ==
    ASSUME NEW i, NEW summary, NEW reported, NEW from
    PROVE  Adequate(Normalized(i, summary, reported, from), i,
                    reported = "failed" \/ "failed" \in summary)
  BY DEF Adequate, Normalized, Shaped, Sound, deriveCollectionStatus, deriveStatusFromSummary

-----------------------------------------------------------------------------
LEMMA InitRun == Init => RunInv
<1> SUFFICES ASSUME Init PROVE RunInv OBVIOUS
<1>1. results \in Seq({}) /\ ToSet(results) = {} BY DEF Init, ToSet
<1> QED
  BY <1>1, NoneApart DEF Init, RunInv, SuitesKnown, ResultsAreSequence, ResultsSound, FailuresKnown,
     RerunsFailed, ReportConsistent, ExitAtEnd, FailureReachesExit

LEMMA StartRun ==
    ASSUME RunInv, NEW dry, NEW filters, Start(dry, filters)
    PROVE  RunInv'
<1>1. /\ results' = <<>> /\ failures' = {} /\ step' \in {"suites", "idle"}
      /\ exitCode' \in {None, "rejected"} /\ (step' # "idle" => exitCode' = None)
  BY DEF Start
<1>2. results' \in Seq({}) /\ ToSet(results') = {} BY <1>1 DEF ToSet
<1>4. SuitesKnown' BY DEF Start, RunInv, SuitesKnown, SuitesLeft, SuitesOf
<1>3. FailureReachesExit' /\ ExitAtEnd' BY <1>1, NoneApart DEF FailureReachesExit, ExitAtEnd
<1> QED
  BY <1>1, <1>2, <1>3, <1>4 DEF RunInv, ResultsAreSequence, ResultsSound, FailuresKnown,
     RerunsFailed, ReportConsistent

LEMMA DryRunStep ==
    ASSUME RunInv, DryRunSuite
    PROVE  RunInv'
<1>1. PICK i \in Upcoming :
        Completed([suite |-> i, status |-> "skipped", summary |-> {},
                   from |-> execution, diagnostics |-> None])
  BY DEF DryRunSuite
<1> DEFINE r == [suite |-> i, status |-> "skipped", summary |-> {},
                 from |-> execution, diagnostics |-> None]
<1>2. step = "suites" /\ step' = "suites" /\ UNCHANGED <<exitCode, failures, outputs, selected>>
  BY DEF DryRunSuite, controlVars, configVars, endVars
<1>3. Completed(r) /\ Sound(r) /\ Diagnosed(r) BY <1>1 DEF Sound, Diagnosed
<1> HIDE DEF r
<1>4. /\ ResultsAreSequence' /\ ResultsSound'
      /\ ToSet(results') = ToSet(results) \union {r}
  BY <1>3, CompletedStep DEF RunInv
<1>5. FailuresKnown' BY <1>2, <1>4 DEF RunInv, FailuresKnown, Reported, Excused
<1>6. RerunsFailed' /\ ReportConsistent' BY <1>2 DEF RerunsFailed, ReportConsistent
<1>7. ExitAtEnd' /\ FailureReachesExit'
  BY <1>2, NoneApart DEF RunInv, ExitAtEnd, FailureReachesExit
<1>8. SuitesKnown' BY <1>2, <1>3 DEF RunInv, SuitesKnown, Completed
<1> QED BY <1>4, <1>5, <1>6, <1>7, <1>8 DEF RunInv

LEMMA QueueAfterFinish ==
    ASSUME RunInv, NEW r, Finish(r)
    PROVE  queue' \subseteq SuiteIndexes
  BY DEF Finish, Completed, RunInv, SuitesKnown

(* A command that fails makes a failed suite, by whatever adapter it runs,  *)
(* unless its payload is listened to and says otherwise.                    *)
LEMMA AdaptedFails ==
    ASSUME RunInv, NEW i \in SuiteIndexes, Suites[i].adapter # "unknown",
           NEW code \in {0, 1}, NEW counted, NEW wrote \in BOOLEAN, NEW said,
           Suites[i].adapter \in {"file", "suite-json"} => wrote \/ counted = {},
           Suites[i].adapter = "check-json" => counted = {},
           said # None => Suites[i].adapter \in JsonFormats,
           outputs' = IF wrote /\ Suites[i].adapter = "file"
                      THEN [outputs EXCEPT ![i] = [execution |-> execution, summary |-> counted]]
                      ELSE outputs
    PROVE  Adequate(Adapted(i, code, counted, wrote, said), i,
                    \/ "failed" \in counted \/ said = "failed"
                    \/ code # 0 /\ ~Speaks(i, said))
<1> DEFINE Fails == \/ "failed" \in counted \/ said = "failed"
                    \/ code # 0 /\ ~Speaks(i, said)
           reported == IF Speaks(i, said) THEN said ELSE ByExitCode(code)
<1> SUFFICES Adequate(Adapted(i, code, counted, wrote, said), i, Fails) OBVIOUS
<1>1. Suites[i] \in SuiteType BY RunAssumption DEF RunAssumption, SuiteIndexes
<1>2. Suites[i].adapter \in {"stream", "file", "shell", "suite-json", "check-json"}
  BY <1>1 DEF SuiteType, JsonFormats
<1>3. ASSUME NEW summary PROVE code # 0 \/ "failed" \in summary => deriveSuiteStatus(summary, code) = "failed"
  BY DEF deriveSuiteStatus
<1>4. said = "failed" => Speaks(i, said)
  BY NoneApart DEF Speaks, JsonFormats, Statuses, Tallies
<1>5. Fails => "failed" \in counted \/ reported = "failed" BY <1>4 DEF ByExitCode
<1>6. Suites[i].adapter \in {"stream", "file"} => (Fails => code # 0 \/ "failed" \in counted)
  BY <1>4 DEF Speaks
<1>7. CASE Suites[i].adapter = "stream"
  <2>1. Adapted(i, code, counted, wrote, said)
        = Normalized(i, counted, deriveSuiteStatus(counted, code), execution)
    BY <1>7 DEF Adapted
  <2>2. Fails => deriveSuiteStatus(counted, code) = "failed" BY <1>3, <1>6, <1>7
  <2> HIDE DEF Fails
  <2> QED BY <2>1, <2>2, NormalizedSound DEF Adequate
<1>8. CASE Suites[i].adapter \in {"shell", "suite-json", "check-json"}
  <2>1. PICK summary : /\ Adapted(i, code, counted, wrote, said)
                          = Normalized(i, summary, reported, execution)
                       /\ "failed" \in counted => "failed" \in summary
    <3>1. CASE Suites[i].adapter = "shell"
      <4>1. Adapted(i, code, counted, wrote, said)
            = Normalized(i, IF counted = {} THEN {reported} ELSE counted, reported, execution)
        BY <3>1 DEF Adapted
      <4> QED BY <4>1
    <3>2. CASE Suites[i].adapter = "suite-json"
      <4>1. Adapted(i, code, counted, wrote, said)
            = Normalized(i, IF wrote THEN counted ELSE {reported} \ {"skipped"}, reported, execution)
        BY <3>2 DEF Adapted
      <4> QED BY <3>2, <4>1
    <3>3. CASE Suites[i].adapter = "check-json"
      <4>1. \E summary : Adapted(i, code, counted, wrote, said)
                         = Normalized(i, summary, reported, execution)
        BY <3>3 DEF Adapted
      <4> QED BY <3>3, <4>1
    <3> QED BY <1>8, <3>1, <3>2, <3>3
  <2>2. Fails => reported = "failed" \/ "failed" \in summary BY <1>5, <2>1
  <2> HIDE DEF Fails, reported
  <2> QED BY <2>1, <2>2, NormalizedSound DEF Adequate
<1>9. CASE Suites[i].adapter = "file"
  <2> DEFINE summary == outputs'[i].summary
  <2>1. CASE outputs'[i] = None
    <3>1. Adapted(i, code, counted, wrote, said) = Normalized(i, {"failed"}, "failed", execution)
      BY <1>9, <2>1 DEF Adapted, Thrown
    <3> QED BY <3>1, NormalizedSound DEF Adequate
  <2>2. CASE outputs'[i] # None
    <3>1. Adapted(i, code, counted, wrote, said)
          = Normalized(i, summary, deriveSuiteStatus(summary, code), outputs'[i].execution)
      BY <1>9, <2>2 DEF Adapted
    <3>2. wrote => summary = counted BY <1>9 DEF RunInv, SuitesKnown
    <3>3. Fails => code # 0 \/ "failed" \in summary BY <1>6, <1>9, <3>2
    <3> HIDE DEF summary, Fails
    <3> QED BY <1>3, <3>1, <3>3, NormalizedSound DEF Adequate
  <2> QED BY <2>1, <2>2
<1> QED BY <1>2, <1>7, <1>8, <1>9

LEMMA RunSuiteStep ==
    ASSUME RunInv, RunSuite
    PROVE  RunInv'
<1>0. PICK i \in Upcoming, code \in {0, 1}, counted \in Summaries, wrote \in BOOLEAN,
           said \in Tallies \union {None} : CommandEnds(i, code, counted, wrote, said)
  BY DEF RunSuite
<1>1. /\ Suites[i].adapter # "unknown"
      /\ Suites[i].adapter \in {"file", "suite-json"} => wrote \/ counted = {}
      /\ Suites[i].adapter = "check-json" => counted = {}
      /\ said # None => Suites[i].adapter \in JsonFormats
      /\ outputs' = IF wrote /\ Suites[i].adapter = "file"
                    THEN [outputs EXCEPT ![i] = [execution |-> execution, summary |-> counted]]
                    ELSE outputs
      /\ failures' = Noted(i, code, counted, said)
      /\ Finish(Adapted(i, code, counted, wrote, said))
  BY <1>0 DEF CommandEnds
<1>2. step = "suites" /\ UNCHANGED <<exitCode, report, selected>> BY DEF RunSuite, endVars, configVars
<1>3. i \in SuiteIndexes BY DEF Upcoming, RunInv, SuitesKnown
<1> DEFINE r == Adapted(i, code, counted, wrote, said)
           Fails == \/ "failed" \in counted \/ said = "failed"
                    \/ code # 0 /\ ~Speaks(i, said)
<1>4. /\ Shaped(r) /\ Sound(r) /\ r.diagnostics = None /\ r.suite = i
      /\ Fails => r.status = "failed"
  <2>1. Adequate(r, i, Fails) BY <1>1, <1>3, AdaptedFails
  <2> HIDE DEF r, Fails
  <2> QED BY <2>1 DEF Adequate
<1>5. outputs' = [j \in SuiteIndexes |-> outputs'[j]] BY <1>1 DEF RunInv, SuitesKnown
<1>6. Finish(r) BY <1>1
<1>7. \A f \in failures' : f \in failures \/ Excused(f) \/ (f.suite = r.suite /\ r.status = "failed")
  <2>1. Speaks(i, said) => Suites[i].adapter \in JsonFormats BY DEF Speaks, JsonFormats
  <2>2. PICK f : f = [suite |-> i, overruled |-> /\ Speaks(i, said) /\ said # "failed"
                                                /\ "failed" \notin counted]
    OBVIOUS
  <2>3. f.suite = i /\ (Excused(f) \/ (code # 0 \/ "failed" \in counted \/ said = "failed" => Fails))
    BY <2>1, <2>2 DEF Excused
  <2>4. \/ failures' = failures
        \/ failures' = failures \union {f} /\ (code # 0 \/ "failed" \in counted \/ said = "failed")
    BY <1>1, <2>2 DEF Noted
  <2> HIDE DEF r, Fails
  <2> QED BY <1>4, <2>3, <2>4
<1> HIDE DEF r, Fails
<1>8. SuitesKnown' BY <1>2, <1>5, <1>6, QueueAfterFinish DEF RunInv, SuitesKnown
<1> QED BY <1>2, <1>4, <1>6, <1>7, <1>8, FinishStep

LEMMA AdapterThrowsStep ==
    ASSUME RunInv, AdapterThrows
    PROVE  RunInv'
<1>1. PICK i \in Upcoming : /\ failures' = failures \union {[suite |-> i, overruled |-> FALSE]}
                          /\ Finish(Thrown(i))
  BY DEF AdapterThrows
<1>2. step = "suites" /\ UNCHANGED <<exitCode, report, outputs, selected>> BY DEF AdapterThrows, endVars, configVars
<1> DEFINE r == Thrown(i)
<1>3. Shaped(r) /\ Sound(r) /\ r.diagnostics = None /\ r.suite = i /\ r.status = "failed"
  BY NormalizedSound DEF Thrown, Adequate
<1>4. Finish(r) BY <1>1
<1> HIDE DEF r
<1>5. SuitesKnown' BY <1>2, <1>4, QueueAfterFinish DEF RunInv, SuitesKnown
<1>6. \A f \in failures' : f \in failures \/ Excused(f) \/ (f.suite = r.suite /\ r.status = "failed")
  BY <1>1, <1>3
<1> QED BY <1>2, <1>3, <1>4, <1>5, <1>6, FinishStep

LEMMA CompletePackageStep ==
    ASSUME RunInv, CompletePackage
    PROVE  RunInv'
<1>1. /\ step = "suites" /\ step' = "suites"
      /\ UNCHANGED <<results, failures, current, exitCode, report, outputs, selected>>
  BY DEF CompletePackage, controlVars, configVars, rerunVars, endVars
<1>2. SuitesKnown' BY <1>1 DEF CompletePackage, SuitesLeft, SuitesOf, RunInv, SuitesKnown
<1> QED BY <1>1, <1>2
  DEF RunInv, ResultsAreSequence, ResultsSound, FailuresKnown, Reported, Excused, RerunsFailed,
      ReportConsistent, ExitAtEnd, FailureReachesExit, Sound, Diagnosed
LEMMA ErrorStep ==
    ASSUME RunInv, ChildError
    PROVE  RunInv'
<1> DEFINE d == [status |-> "failed", timedOut |-> child.killed]
<1>1. /\ step = "rerun" /\ step' = "suites" /\ Completed(attachDiagnostics(current, d))
      /\ UNCHANGED <<exitCode, report, failures, outputs, selected>>
  BY DEF ChildError, endVars, configVars
<1>2. d \in [status : Statuses, timedOut : BOOLEAN] /\ (d.status = "passed" => ~d.timedOut)
  BY <1>1 DEF RunInv, RerunsFailed, ChildType, Statuses
<1> HIDE DEF d
<1> QED BY <1>1, <1>2, RerunStep

LEMMA CloseStep ==
    ASSUME RunInv, ChildClose
    PROVE  RunInv'
<1> DEFINE d == [status |-> IF ~child.killed /\ child.code = 0 THEN "passed" ELSE "failed",
                 timedOut |-> child.killed]
<1>1. /\ step = "rerun" /\ step' = "suites" /\ Completed(attachDiagnostics(current, d))
      /\ UNCHANGED <<exitCode, report, failures, outputs, selected>>
  BY DEF ChildClose, endVars, configVars
<1>2. d \in [status : Statuses, timedOut : BOOLEAN] /\ (d.status = "passed" => ~d.timedOut)
  BY <1>1 DEF RunInv, RerunsFailed, ChildType, Statuses
<1> HIDE DEF d
<1> QED BY <1>1, <1>2, RerunStep

(* Steps that only touch the process of the rerun. *)
LEMMA ChildStep ==
    ASSUME RunInv, Timeout \/ ChildExit
    PROVE  RunInv'
<1>1. child \in ChildType /\ step = "rerun" BY DEF Timeout, ChildExit, RunInv, RerunsFailed
<1>2. child' \in ChildType BY <1>1 DEF Timeout, ChildExit, ChildType
<1>3. UNCHANGED <<step, selected, queue, results, current, report, exitCode, outputs, failures>>
  BY DEF Timeout, ChildExit, controlVars, configVars, progressVars, endVars
<1> QED BY <1>2, <1>3
  DEF RunInv, SuitesKnown, ResultsAreSequence, ResultsSound, FailuresKnown, Reported, Excused,
      RerunsFailed, ReportConsistent, ExitAtEnd, FailureReachesExit, Sound, Diagnosed

(* The execution rejects. *)
LEMMA RejectedStep ==
    ASSUME RunInv, UnresolvedAdapter \/ PolicyThrows
    PROVE  RunInv'
<1>1. step = "suites" /\ step' = "idle" /\ exitCode' = "rejected"
  BY DEF UnresolvedAdapter, PolicyThrows, AllAnnounced
<1>2. UNCHANGED <<results, failures, current, report, outputs, selected, queue>>
  BY DEF UnresolvedAdapter, PolicyThrows, configVars, progressVars, rerunVars
<1> QED BY <1>1, <1>2
  DEF RunInv, SuitesKnown, ResultsAreSequence, ResultsSound, FailuresKnown, Reported, Excused,
      RerunsFailed, ReportConsistent, ExitAtEnd, FailureReachesExit, Sound, Diagnosed

(* A package fails in the report only by a failed suite. *)
LEMMA BuildReportStep ==
    ASSUME RunInv, BuildReport
    PROVE  RunInv'
<1>1. PICK failedThresholds \in BOOLEAN :
        report' = [packages |-> [n \in DOMAIN announced |-> finalizePackageResult(packageCatalog[n])],
                   failedSuites |-> {r.suite : r \in {s \in ToSet(results) : s.status = "failed"}},
                   failedThresholds |-> failedThresholds]
  BY DEF BuildReport
<1>2. step = "suites" /\ step' = "artifacts" BY DEF BuildReport, AllAnnounced
<1>3. UNCHANGED <<results, failures, current, exitCode, outputs, selected, queue>>
  BY DEF BuildReport, configVars, progressVars, rerunVars
<1>4. ASSUME NEW p, finalizePackageResult(p) = "failed"
      PROVE  \E r \in ToSet(results) : r.status = "failed"
  <2>1. \/ "failed" \in {r.status : r \in ResultsOf(p)}
        \/ "failed" \in SummaryOf(p)
    BY <1>4 DEF finalizePackageResult, deriveCollectionStatus, deriveStatusFromSummary
  <2> QED BY <2>1 DEF SummaryOf, ResultsOf, RunInv, ResultsSound, Sound
<1>5. ReportConsistent' BY <1>1, <1>3, <1>4 DEF ReportConsistent
<1>6. ExitAtEnd' /\ FailureReachesExit'
  BY <1>2, <1>3, NoneApart DEF RunInv, ExitAtEnd, FailureReachesExit
<1> QED BY <1>2, <1>3, <1>5, <1>6
  DEF RunInv, SuitesKnown, ResultsAreSequence, ResultsSound, FailuresKnown, Reported, Excused,
      RerunsFailed, Sound, Diagnosed

(* The exit code counts every failed suite, so it is 1 after any failure. *)
LEMMA WriteReportStep ==
    ASSUME RunInv, WriteReportArtifacts
    PROVE  RunInv'
<1>1. step = "artifacts" /\ step' = "idle" /\ exitCode' \in {Exit, "rejected"}
  BY DEF WriteReportArtifacts
<1>2. UNCHANGED <<results, failures, current, report, outputs, selected, queue>>
  BY DEF WriteReportArtifacts, configVars, progressVars, rerunVars
<1>3. \A f \in failures : Excused(f) \/ f.suite \in report.failedSuites
  BY <1>1 DEF RunInv, FailuresKnown, Reported, ReportConsistent
<1>4. Exit = "success" => /\ ~report.failedThresholds
                          /\ \A f \in failures : f.overruled /\ Suites[f.suite].adapter \in JsonFormats
  BY <1>3 DEF Exit, Excused
<1>5. Exit = "failure" => report.failedThresholds \/ \E r \in ToSet(results) : r.status = "failed"
  BY <1>1 DEF Exit, RunInv, ReportConsistent
<1>6. FailureReachesExit' BY <1>1, <1>2, <1>4, <1>5 DEF FailureReachesExit
<1> QED BY <1>1, <1>2, <1>6
  DEF RunInv, SuitesKnown, ResultsAreSequence, ResultsSound, FailuresKnown, Reported, Excused,
      RerunsFailed, ReportConsistent, ExitAtEnd, Sound, Diagnosed

LEMMA NextRun == RunInv /\ [Next]_vars => RunInv'
<1> SUFFICES ASSUME RunInv, [Next]_vars PROVE RunInv' OBVIOUS
<1>1. CASE UNCHANGED vars
  BY <1>1 DEF vars, controlVars, configVars, progressVars, rerunVars, endVars, RunInv, SuitesKnown,
     ResultsAreSequence, ResultsSound, FailuresKnown, Reported, Excused, RerunsFailed, ReportConsistent,
     ExitAtEnd, FailureReachesExit, Sound, Diagnosed
<1>2. CASE \E dry \in BOOLEAN, filters \in Filters : Start(dry, filters) BY <1>2, StartRun
<1>3. CASE RunStep
  BY <1>3, DryRunStep, RejectedStep, RunSuiteStep, AdapterThrowsStep, CompletePackageStep,
     CloseStep, BuildReportStep, WriteReportStep DEF RunStep
<1>4. CASE Timeout \/ ChildExit BY <1>4, ChildStep
<1>5. CASE ChildError BY <1>5, ErrorStep
<1> QED BY <1>1, <1>2, <1>3, <1>4, <1>5 DEF Next

LEMMA Invariance == Spec => []RunInv
  BY InitRun, NextRun, PTL DEF Spec

(* Whatever adapters, packages and reruns lie between, a command that fails *)
(* makes `test-station run` exit with 1, and nothing else but a threshold   *)
(* or a failed suite does.                                                 *)
THEOREM FailuresAreFatal == Spec => []FailureReachesExit
<1>1. RunInv => FailureReachesExit BY DEF RunInv
<1> QED BY <1>1, Invariance, PTL

(* Diagnostics are of failed suites that configure them, and a rerun that   *)
(* passed was not timed out.                                               *)
THEOREM RerunsAreOfFailures == Spec => []RerunOfFailuresOnly
<1>1. RunInv => RerunOfFailuresOnly BY DEF RunInv, ResultsSound, Diagnosed, RerunOfFailuresOnly
<1> QED BY <1>1, Invariance, PTL

(* A failed command fails the execution, and no rerun hides it. *)
THEOREM FailuresRemain == Spec => []FailuresStand
BY FailuresAreFatal, RerunsAreOfFailures, PTL DEF FailuresStand

-----------------------------------------------------------------------------
(* The report: every suite once and in turn, the statuses that are          *)
(* announced, and the artifacts.                                            *)

(* c lists known packages, each once. *)
Listing(c) ==
    /\ c \in Seq(PackageNames)
    /\ \A m, n \in DOMAIN c : c[m] = c[n] => m = n

Named(c, name) == \E n \in DOMAIN c : c[n] = name

(* The place of suite i's package in the catalog c, and the order of suites. *)
Turn(c, i) == CHOOSE n \in DOMAIN c : c[n] = Suites[i].package

Precedes(c, i, j) ==
    \/ Turn(c, i) < Turn(c, j)
    \/ Suites[i].package = Suites[j].package /\ i < j

(* The execution is at package p of the catalog c: rs are the results of the *)
(* chosen suites before p and, in p, of those that have left the queue q.   *)
InTurn(c, chosen, p, q, rs) ==
    /\ p \in 1..(Len(c) + 1)
    /\ q \subseteq chosen /\ \A i \in q : Turn(c, i) = p
    /\ \A i \in chosen : Turn(c, i) <= p => i \in q \/ \E n \in DOMAIN rs : rs[n].suite = i
    /\ \A n \in DOMAIN rs :
          /\ rs[n].suite \in chosen /\ Turn(c, rs[n].suite) <= p
          /\ \A j \in q : Precedes(c, rs[n].suite, j)
    /\ \A m, n \in DOMAIN rs : m < n => Precedes(c, rs[m].suite, rs[n].suite)

(* The catalog has the package of every selected suite. *)
CatalogSound ==
    /\ Listing(packageCatalog)
    /\ \A i \in selected : Named(packageCatalog, Suites[i].package)

ResultsInTurn == InTurn(packageCatalog, selected, Len(announced) + 1, queue, results)

(* No result is added to a package once its status is announced. *)
AnnouncedSound ==
    \A n \in DOMAIN announced : announced[n] = derivePackageStatus(packageCatalog[n])

(* A suite that passed has a test that did not fail. *)
Counted(r) ==
    /\ "other" \in r.summary /\ r.status # "failed" => r.status = "passed"
    /\ r.status = "passed" /\ "passed" \notin r.summary => Suites[r.suite].adapter \in JsonFormats

ResultsCounted == \A r \in ToSet(results) : Counted(r)

(* The report is built when every package has been announced. *)
ReportOfAnnounced ==
    report # None =>
        /\ step \in {"idle", "artifacts"}
        /\ queue = {} /\ Len(announced) = Len(packageCatalog)
        /\ report.packages = [n \in DOMAIN announced |-> finalizePackageResult(packageCatalog[n])]

ArtifactsKept == saved.report <= execution /\ ArtifactsOfOneExecution

(* The suite that is rerun keeps its place in the queue. *)
RerunOfUpcoming == step = "rerun" => current \in Result /\ current.suite \in Upcoming

(* The inductive invariant of the report. *)
ReportInv ==
    /\ CatalogSound /\ ResultsInTurn /\ AnnouncedSound /\ ResultsCounted
    /\ ReportOfAnnounced /\ ArtifactsKept /\ RerunOfUpcoming

(* Induction for sets of numbers. *)
LEMMA SetInduction ==
    ASSUME NEW S, 0 \in S, \A n \in Nat : n \in S => n + 1 \in S
    PROVE  Nat \subseteq S
<1> SUFFICES ASSUME Nat \ S # {} PROVE FALSE OBVIOUS
<1>1. PICK m \in Nat \ S : \A n \in Nat \ S : ~(<<n, m>> \in OpToRel(<, Nat))
  BY NatLessThanWellFounded, WFMin
<1>2. m \in Nat /\ m # 0 BY <1>1
<1>3. m - 1 \in Nat /\ m - 1 < m /\ m = (m - 1) + 1 BY <1>2
<1>4. m - 1 \in S BY <1>1, <1>3 DEF OpToRel
<1> QED BY <1>1, <1>3, <1>4

(* The catalog is a recursive function over the configured packages and the *)
(* suites; AddName and CatalogStep name the parts of its definition.       *)
AddName(catalog, name) == IF Contains(catalog, name) THEN catalog ELSE Append(catalog, name)

LEMMA AddedName ==
    ASSUME NEW c, Listing(c), NEW name \in PackageNames
    PROVE  /\ Listing(AddName(c, name)) /\ Named(AddName(c, name), name)
           /\ \A other : Named(c, other) => Named(AddName(c, name), other)
<1>0. PICK d : d = AddName(c, name) OBVIOUS
<1>1. c \in Seq(PackageNames) /\ DOMAIN c = 1..Len(c) /\ Len(c) \in Nat BY DEF Listing
<1>2. CASE Contains(c, name) BY <1>0, <1>1, <1>2 DEF AddName, Contains, Named
<1>3. CASE ~Contains(c, name)
  <2>1. /\ d \in Seq(PackageNames) /\ DOMAIN d = 1..(Len(c) + 1)
        /\ \A n \in 1..Len(c) : d[n] = c[n]
        /\ d[Len(c) + 1] = name
    BY <1>0, <1>1, <1>3 DEF AddName
  <2>2. Listing(d) BY <1>1, <1>3, <2>1 DEF Contains, Listing
  <2> QED BY <1>0, <1>1, <2>1, <2>2 DEF Named
<1> QED BY <1>2, <1>3

CatalogStep(catalog, suites, n) ==
    IF n = 0 THEN <<>>
    ELSE IF n <= Len(ConfiguredPackages) THEN AddName(catalog[n - 1], ConfiguredPackages[n])
    ELSE IF n - Len(ConfiguredPackages) \in suites
    THEN AddName(catalog[n - 1], Suites[n - Len(ConfiguredPackages)].package)
    ELSE catalog[n - 1]

IsCatalog(f, suites, N) == f = [n \in 0..N |-> CatalogStep(f, suites, n)]

(* Such a function exists, for any number of steps. *)
LEMMA CatalogExists ==
    ASSUME NEW suites, NEW N \in Nat
    PROVE  \E f : IsCatalog(f, suites, N)
<1> DEFINE S == {n \in Nat : \E f : IsCatalog(f, suites, n)}
<1>1. 0 \in S
  <2> DEFINE f == [n \in 0..0 |-> <<>>]
  <2>1. \A n \in 0..0 : n = 0 OBVIOUS
  <2>2. f = [n \in 0..0 |-> CatalogStep(f, suites, n)] BY <2>1 DEF CatalogStep
  <2> QED BY <2>2 DEF IsCatalog
<1>2. ASSUME NEW n \in Nat, n \in S PROVE n + 1 \in S
  <2>1. PICK f : IsCatalog(f, suites, n) BY <1>2
  <2>2. f = [k \in 0..n |-> CatalogStep(f, suites, k)] BY <2>1 DEF IsCatalog
  <2>8. PICK g : g = [k \in 0..(n + 1) |-> IF k <= n THEN f[k] ELSE CatalogStep(f, suites, k)] OBVIOUS
  <2>3. \A k \in 0..n : g[k] = f[k] BY <2>8
  <2>4. ASSUME NEW k \in 0..(n + 1) PROVE g[k] = CatalogStep(g, suites, k)
    <3>1. CatalogStep(g, suites, k) = CatalogStep(f, suites, k)
      <4>1. CASE k = 0 BY <4>1 DEF CatalogStep
      <4>2. CASE k # 0
        <5>1. k - 1 \in 0..n BY <4>2
        <5>2. g[k - 1] = f[k - 1] BY <5>1, <2>3
        <5> QED BY <4>2, <5>2 DEF CatalogStep
      <4> QED BY <4>1, <4>2
    <3>2. CASE k <= n 
      <4>1. k \in 0..n BY <3>2
      <4> QED BY <2>2, <2>3, <3>1, <4>1
    <3>3. CASE ~(k <= n) BY <2>8, <3>1, <3>3
    <3> QED BY <3>2, <3>3
  <2>9. g = [k \in 0..(n + 1) |-> g[k]] BY <2>8
  <2>5. g = [k \in 0..(n + 1) |-> CatalogStep(g, suites, k)] BY <2>4, <2>9, Zenon
  <2> QED BY <2>5 DEF IsCatalog
<1> HIDE DEF S
<1>3. Nat \subseteq S BY <1>1, <1>2, SetInduction
<1> QED BY <1>3 DEF S

LEMMA CatalogIs ==
    ASSUME NEW suites
    PROVE  \E f : /\ IsCatalog(f, suites, Len(ConfiguredPackages) + Len(Suites))
                  /\ Catalog(suites) = f[Len(ConfiguredPackages) + Len(Suites)]
<1> DEFINE N == Len(ConfiguredPackages) + Len(Suites)
           f == CHOOSE g : g = [n \in 0..N |-> CatalogStep(g, suites, n)]
<1>1. N \in Nat BY RunAssumption DEF RunAssumption
<1>2. \E g : g = [n \in 0..N |-> CatalogStep(g, suites, n)]
  BY <1>1, CatalogExists DEF IsCatalog
<1>3. IsCatalog(f, suites, N) BY <1>2, Zenon DEF IsCatalog
<1>4. Catalog(suites) = f[N] BY Zenon DEF Catalog, CatalogStep, AddName
<1> QED BY <1>3, <1>4

(* By induction over its steps: the catalog lists every package once and has *)
(* those of all suites.                                                     *)
LEMMA CatalogListing ==
    ASSUME NEW suites \in SUBSET SuiteIndexes
    PROVE  /\ Listing(Catalog(suites))
           /\ \A i \in suites : Named(Catalog(suites), Suites[i].package)
<1> DEFINE configured == Len(ConfiguredPackages)
           N == configured + Len(Suites)
<1>1. PICK f : IsCatalog(f, suites, N) /\ Catalog(suites) = f[N] BY CatalogIs
<1>2. configured \in Nat /\ Len(Suites) \in Nat /\ N \in Nat BY RunAssumption DEF RunAssumption
<1>3. \A n \in 0..N : f[n] = CatalogStep(f, suites, n) BY <1>1 DEF IsCatalog
<1>4. \A n \in 1..configured : ConfiguredPackages[n] \in PackageNames
  BY RunAssumption DEF RunAssumption, PackageNames, ToSet
<1>5. \A i \in SuiteIndexes : Suites[i].package \in PackageNames BY DEF PackageNames
<1> DEFINE Good(n) == /\ Listing(f[n])
                      /\ \A i \in suites : configured + i <= n => Named(f[n], Suites[i].package)
<1> DEFINE S == {n \in Nat : n <= N => Good(n)}
<1>6. 0 \in S
  <2>1. f[0] = <<>> BY <1>2, <1>3 DEF CatalogStep
  <2>2. \A i \in suites : ~(configured + i <= 0) BY <1>2 DEF SuiteIndexes
  <2>3. Listing(<<>>) BY DEF Listing
  <2> QED BY <2>1, <2>2, <2>3
<1>7. ASSUME NEW n \in Nat, n \in S, n + 1 <= N PROVE Good(n + 1)
  <2>1. Good(n)
    <3>1. n <= N BY <1>2, <1>7
    <3> HIDE DEF Good
    <3> QED BY <3>1, <1>7
  <2>2. n + 1 \in 0..N /\ (n + 1) - 1 = n /\ n + 1 # 0 BY <1>2, <1>7
  <2>3. f[n + 1] = CatalogStep(f, suites, n + 1) BY <1>3, <2>2
  <2>4. CASE n + 1 <= configured
    <3>1. f[n + 1] = AddName(f[n], ConfiguredPackages[n + 1]) BY <2>2, <2>3, <2>4 DEF CatalogStep
    <3>2. ConfiguredPackages[n + 1] \in PackageNames BY <1>2, <1>4, <2>4
    <3>3. Listing(f[n + 1]) BY <2>1, <3>1, <3>2, AddedName
    <3>4. \A i \in suites : ~(configured + i <= n + 1) BY <1>2, <2>4 DEF SuiteIndexes
    <3> QED BY <3>3, <3>4
  <2>5. CASE ~(n + 1 <= configured) /\ (n + 1) - configured \in suites
    <3>1. f[n + 1] = AddName(f[n], Suites[(n + 1) - configured].package) BY <2>2, <2>3, <2>5 DEF CatalogStep
    <3>2. Suites[(n + 1) - configured].package \in PackageNames BY <1>5, <2>5
    <3>3. /\ Listing(f[n + 1]) /\ Named(f[n + 1], Suites[(n + 1) - configured].package)
          /\ \A other : Named(f[n], other) => Named(f[n + 1], other)
      BY <2>1, <3>1, <3>2, AddedName
    <3>4. ASSUME NEW i \in suites, configured + i <= n + 1 PROVE Named(f[n + 1], Suites[i].package)
      <4>1. i \in Nat BY DEF SuiteIndexes
      <4>2. CASE configured + i <= n BY <2>1, <3>3, <4>2
      <4>3. CASE ~(configured + i <= n)
        <5>1. i = (n + 1) - configured BY <1>2, <3>4, <4>1, <4>3
        <5> QED BY <3>3, <5>1
      <4> QED BY <4>2, <4>3
    <3> QED BY <3>3, <3>4
  <2>6. CASE ~(n + 1 <= configured) /\ (n + 1) - configured \notin suites
    <3>1. f[n + 1] = f[n] BY <2>2, <2>3, <2>6 DEF CatalogStep
    <3>2. ASSUME NEW i \in suites, configured + i <= n + 1 PROVE configured + i <= n
      <4>1. i \in Nat BY DEF SuiteIndexes
      <4>2. i # (n + 1) - configured BY <2>6
      <4> QED BY <1>2, <1>7, <3>2, <4>1, <4>2
    <3> QED BY <2>1, <3>1, <3>2
  <2> QED BY <2>4, <2>5, <2>6
<1> HIDE DEF Good
<1>8. \A n \in Nat : n \in S => n + 1 \in S BY <1>7
<1>9. N \in S
  <2> HIDE DEF S
  <2> QED BY <1>2, <1>6, <1>8, SetInduction
<1>10. Good(N) BY <1>2, <1>9
<1>11. \A i \in suites : configured + i <= N BY <1>2 DEF SuiteIndexes
<1> QED BY <1>1, <1>10, <1>11 DEF Good

-----------------------------------------------------------------------------
LEMMA IndexesAreNumbers == \A i \in SuiteIndexes : i \in Nat
<1>1. Len(Suites) \in Nat BY RunAssumption DEF RunAssumption
<1> QED BY <1>1 DEF SuiteIndexes

(* Results in turn.                                                         *)

LEMMA TurnIs ==
    ASSUME NEW c, Listing(c), NEW i, Named(c, Suites[i].package)
    PROVE  /\ Turn(c, i) \in DOMAIN c /\ c[Turn(c, i)] = Suites[i].package
           /\ \A n \in DOMAIN c : c[n] = Suites[i].package => n = Turn(c, i)
  BY DEF Listing, Named, Turn

LEMMA InTurnStart ==
    ASSUME NEW c, Listing(c), NEW chosen, \A i \in chosen : Named(c, Suites[i].package)
    PROVE  InTurn(c, chosen, 1, SuitesLeft(chosen, c, 1), <<>>)
<1>1. Len(c) \in Nat /\ DOMAIN c = 1..Len(c) BY DEF Listing
<1>2. \A i \in SuitesLeft(chosen, c, 1) : i \in chosen /\ Turn(c, i) = 1
  BY TurnIs DEF SuitesLeft, SuitesOf
<1>3. \A i \in chosen : Turn(c, i) <= 1 => i \in SuitesLeft(chosen, c, 1)
  <2> SUFFICES ASSUME NEW i \in chosen, Turn(c, i) <= 1 PROVE i \in SuitesLeft(chosen, c, 1) OBVIOUS
  <2>1. Turn(c, i) \in DOMAIN c /\ c[Turn(c, i)] = Suites[i].package BY TurnIs
  <2>2. Turn(c, i) = 1 BY <1>1, <2>1
  <2> QED BY <2>1, <2>2 DEF SuitesLeft, SuitesOf
<1> QED BY <1>1, <1>2, <1>3 DEF InTurn

LEMMA InTurnNext ==
    ASSUME NEW c, Listing(c), NEW chosen, \A i \in chosen : Named(c, Suites[i].package),
           NEW p, NEW rs, InTurn(c, chosen, p, {}, rs), p <= Len(c)
    PROVE  InTurn(c, chosen, p + 1, SuitesLeft(chosen, c, p + 1), rs)
<1> DEFINE q == SuitesLeft(chosen, c, p + 1)
<1>1. Len(c) \in Nat /\ DOMAIN c = 1..Len(c) BY DEF Listing
<1>2. p \in Nat /\ p + 1 \in 1..(Len(c) + 1) BY <1>1 DEF InTurn
<1>3. \A i \in chosen : Turn(c, i) \in Nat BY <1>1, TurnIs
<1>4. \A i \in q : i \in chosen /\ Turn(c, i) = p + 1 BY TurnIs DEF SuitesLeft, SuitesOf
<1>5. ASSUME NEW i \in chosen, Turn(c, i) <= p + 1
      PROVE  i \in q \/ \E n \in DOMAIN rs : rs[n].suite = i
  <2>1. CASE Turn(c, i) <= p BY <2>1 DEF InTurn
  <2>2. CASE Turn(c, i) = p + 1
    <3>1. p + 1 \in DOMAIN c /\ c[p + 1] = Suites[i].package BY <2>2, TurnIs
    <3> QED BY <3>1 DEF SuitesLeft, SuitesOf
  <2> QED BY <1>2, <1>3, <1>5, <2>1, <2>2
<1>6. ASSUME NEW n \in DOMAIN rs
      PROVE  /\ rs[n].suite \in chosen /\ Turn(c, rs[n].suite) <= p + 1
             /\ \A j \in q : Precedes(c, rs[n].suite, j)
  <2>1. rs[n].suite \in chosen /\ Turn(c, rs[n].suite) <= p BY <1>6 DEF InTurn
  <2>2. Turn(c, rs[n].suite) < p + 1 BY <1>2, <1>3, <2>1
  <2> QED BY <1>2, <1>3, <1>4, <2>1, <2>2 DEF Precedes
<1>7. \A m, n \in DOMAIN rs : m < n => Precedes(c, rs[m].suite, rs[n].suite) BY DEF InTurn
<1> HIDE DEF q
<1>8. InTurn(c, chosen, p + 1, q, rs) BY <1>2, <1>4, <1>5, <1>6, <1>7 DEF InTurn
<1> QED BY <1>8 DEF q

(* The first suite of the queue gets its result. *)
LEMMA InTurnAppend ==
    ASSUME NEW c, Listing(c), NEW chosen \in SUBSET SuiteIndexes,
           \A i \in chosen : Named(c, Suites[i].package),
           NEW p, NEW q, NEW S, NEW rs \in Seq(S), InTurn(c, chosen, p, q, rs),
           NEW r, r.suite \in q, \A j \in q : r.suite <= j
    PROVE  InTurn(c, chosen, p, q \ {r.suite}, Append(rs, r))
<1>1. /\ DOMAIN rs = 1..Len(rs) /\ Len(rs) \in Nat
      /\ DOMAIN Append(rs, r) = 1..(Len(rs) + 1)
      /\ \A n \in 1..Len(rs) : Append(rs, r)[n] = rs[n]
      /\ Append(rs, r)[Len(rs) + 1] = r
  <2>1. rs \in Seq(S \union {r}) OBVIOUS
  <2> QED BY <2>1
<1>2. PICK t : t = Append(rs, r) OBVIOUS
<1>3. /\ p \in 1..(Len(c) + 1) /\ q \ {r.suite} \subseteq chosen
      /\ \A i \in q \ {r.suite} : Turn(c, i) = p
      /\ r.suite \in chosen /\ Turn(c, r.suite) = p
  BY DEF InTurn
<1>4. ASSUME NEW i \in chosen, Turn(c, i) <= p
      PROVE  i \in q \ {r.suite} \/ \E n \in DOMAIN t : t[n].suite = i
  <2>1. i \in q \/ \E n \in DOMAIN rs : rs[n].suite = i BY <1>4 DEF InTurn
  <2>2. ASSUME NEW n \in DOMAIN rs PROVE n \in DOMAIN t /\ t[n] = rs[n] BY <1>1, <1>2
  <2>3. Len(rs) + 1 \in DOMAIN t /\ t[Len(rs) + 1] = r BY <1>1, <1>2
  <2> QED BY <2>1, <2>2, <2>3
<1>5. ASSUME NEW j \in q \ {r.suite} PROVE Precedes(c, r.suite, j)
  <2>1. Suites[r.suite].package = c[p] /\ Suites[j].package = c[p] BY <1>3, TurnIs
  <2>3. r.suite \in Nat /\ j \in Nat BY <1>3, <1>5, IndexesAreNumbers
  <2>4. r.suite <= j /\ j # r.suite BY <1>5
  <2>2. r.suite < j BY <2>3, <2>4
  <2> QED BY <2>1, <2>2 DEF Precedes
<1>6. Len(c) \in Nat BY DEF Listing
<1>7. ASSUME NEW n \in DOMAIN t
      PROVE  /\ t[n].suite \in chosen /\ Turn(c, t[n].suite) <= p
             /\ \A j \in q \ {r.suite} : Precedes(c, t[n].suite, j)
  <2>1. CASE n \in DOMAIN rs
    <3>1. t[n] = rs[n] BY <1>1, <1>2, <2>1
    <3> QED BY <2>1, <3>1 DEF InTurn
  <2>2. CASE n \notin DOMAIN rs
    <3>1. t[n] = r BY <1>1, <1>2, <2>2
    <3> QED BY <1>3, <1>5, <1>6, <3>1
  <2> QED BY <2>1, <2>2
<1>8. ASSUME NEW m \in DOMAIN t, NEW n \in DOMAIN t, m < n
      PROVE  Precedes(c, t[m].suite, t[n].suite)
  <2>1. m \in DOMAIN rs /\ t[m] = rs[m] BY <1>1, <1>2, <1>8
  <2>2. CASE n \in DOMAIN rs
    <3>1. t[n] = rs[n] BY <1>1, <1>2, <2>2
    <3> QED BY <1>8, <2>1, <2>2, <3>1 DEF InTurn
  <2>3. CASE n \notin DOMAIN rs
    <3>1. t[n] = r BY <1>1, <1>2, <2>3
    <3> QED BY <2>1, <3>1 DEF InTurn
  <2> QED BY <2>2, <2>3
<1>9. InTurn(c, chosen, p, q \ {r.suite}, t) BY <1>3, <1>4, <1>7, <1>8 DEF InTurn
<1> QED BY <1>2, <1>9

-----------------------------------------------------------------------------
(* Types.                                                                   *)

GoodResult(r, i) == r \in Result /\ r.suite = i /\ Counted(r)

LEMMA StatusTypes ==
    ASSUME NEW summary \in SUBSET Tallies
    PROVE  /\ deriveStatusFromSummary(summary) \in Statuses
           /\ \A reported : deriveCollectionStatus(summary, reported) \in Statuses
           /\ \A code : deriveSuiteStatus(summary, code) \in Statuses
           /\ \A code : deriveSuiteStatus(summary, code) = "passed" => summary # {}
  BY DEF deriveStatusFromSummary, deriveCollectionStatus, deriveSuiteStatus, Statuses

(* Without a result format no test is counted as anything but its status,   *)
(* and a suite that counts none does not pass.                              *)
LEMMA NormalizedGood ==
    ASSUME NEW i \in SuiteIndexes, NEW summary \in SUBSET Tallies, NEW reported,
           NEW from \in 0..MaxExecutions,
           \/ Suites[i].adapter \in JsonFormats
           \/ summary \subseteq Statuses /\ (reported = "passed" => summary # {})
    PROVE  GoodResult(Normalized(i, summary, reported, from), i)
<1> DEFINE r == Normalized(i, summary, reported, from)
           status == deriveCollectionStatus(summary, {reported})
<1>1. status \in Statuses BY StatusTypes
<1>2. "other" \in summary /\ status # "failed" => status = "passed"
  BY DEF deriveCollectionStatus, deriveStatusFromSummary
<1>3. status = "passed" /\ "passed" \notin summary => Suites[i].adapter \in JsonFormats
  <2>1. status = "passed" => \/ summary = {} /\ reported = "passed"
                             \/ summary # {} /\ "failed" \notin summary /\ summary # {"skipped"}
    BY DEF deriveCollectionStatus, deriveStatusFromSummary
  <2>2. summary \subseteq Statuses /\ summary # {} /\ "failed" \notin summary /\ summary # {"skipped"}
        => "passed" \in summary
    BY DEF Statuses
  <2> HIDE DEF status
  <2> QED BY <2>1, <2>2
<1>4. r = [suite |-> i, status |-> status, summary |-> summary, from |-> from, diagnostics |-> None]
  BY DEF Normalized
<1> HIDE DEF r, status
<1>5. r \in Result BY <1>1, <1>4 DEF Result
<1>6. r.suite = i /\ r.status = status /\ r.summary = summary BY <1>4
<1>7. GoodResult(r, i) BY <1>2, <1>3, <1>5, <1>6 DEF GoodResult, Counted
<1> QED BY <1>7 DEF r

OutputType == [execution : 0..MaxExecutions, summary : SUBSET Statuses] \union {None}

LEMMA ThrownGood ==
    ASSUME execution \in 0..MaxExecutions, NEW i \in SuiteIndexes
    PROVE  GoodResult(Thrown(i), i)
<1>1. {"failed"} \in SUBSET Tallies /\ {"failed"} \subseteq Statuses BY DEF Statuses, Tallies
<1> QED BY <1>1, NormalizedGood DEF Thrown

LEMMA AdaptedGood ==
    ASSUME execution \in 0..MaxExecutions, outputs' \in [SuiteIndexes -> OutputType],
           NEW i \in SuiteIndexes, Suites[i].adapter # "unknown",
           NEW code \in {0, 1}, NEW counted \in SUBSET Statuses, NEW wrote \in BOOLEAN,
           NEW said \in Tallies \union {None}, said # None => Suites[i].adapter \in JsonFormats
    PROVE  GoodResult(Adapted(i, code, counted, wrote, said), i)
<1> DEFINE reported == IF Speaks(i, said) THEN said ELSE ByExitCode(code)
<1>1. Suites[i] \in SuiteType BY RunAssumption DEF RunAssumption, SuiteIndexes
<1>2. Suites[i].adapter \in {"stream", "file", "shell", "suite-json", "check-json"}
  BY <1>1 DEF SuiteType, JsonFormats
<1>3. counted \in SUBSET Tallies BY DEF Tallies
<1>4. reported \in Tallies /\ (Suites[i].adapter # "check-json" => reported \in Statuses)
  BY DEF Speaks, ByExitCode, Statuses, Tallies
<1>5. CASE Suites[i].adapter = "stream"
  <2>1. Adapted(i, code, counted, wrote, said)
        = Normalized(i, counted, deriveSuiteStatus(counted, code), execution)
    BY <1>5 DEF Adapted
  <2>2. deriveSuiteStatus(counted, code) = "passed" => counted # {} BY <1>3, StatusTypes
  <2> QED BY <1>3, <2>1, <2>2, NormalizedGood
<1>6. CASE Suites[i].adapter = "shell"
  <2> DEFINE summary == IF counted = {} THEN {reported} ELSE counted
  <2>1. Adapted(i, code, counted, wrote, said) = Normalized(i, summary, reported, execution)
    BY <1>6 DEF Adapted
  <2>2. reported \in Statuses BY <1>4, <1>6
  <2>3. summary \in SUBSET Tallies /\ summary \subseteq Statuses /\ summary # {} BY <1>3, <2>2 DEF Tallies
  <2> HIDE DEF reported, summary
  <2> QED BY <2>1, <2>3, NormalizedGood
<1>7. CASE Suites[i].adapter = "suite-json"
  <2> DEFINE summary == IF wrote THEN counted ELSE {reported} \ {"skipped"}
  <2>1. Adapted(i, code, counted, wrote, said) = Normalized(i, summary, reported, execution)
    BY <1>7 DEF Adapted
  <2>2. summary \in SUBSET Tallies BY <1>3, <1>4
  <2> HIDE DEF reported, summary
  <2> QED BY <1>7, <2>1, <2>2, NormalizedGood DEF JsonFormats
<1>8. CASE Suites[i].adapter = "check-json"
  <2> DEFINE summary == IF reported \in {"passed", "failed"} THEN {reported} ELSE {"other"}
  <2>1. Adapted(i, code, counted, wrote, said) = Normalized(i, summary, reported, execution)
    BY <1>8 DEF Adapted
  <2>2. summary \in SUBSET Tallies BY <1>4 DEF Tallies
  <2> HIDE DEF reported, summary
  <2> QED BY <1>8, <2>1, <2>2, NormalizedGood DEF JsonFormats
<1>9. CASE Suites[i].adapter = "file"
  <2>1. CASE outputs'[i] = None
    <3>1. Adapted(i, code, counted, wrote, said) = Thrown(i) BY <1>9, <2>1 DEF Adapted
    <3> QED BY <3>1, ThrownGood
  <2>2. CASE outputs'[i] # None
    <3>1. PICK output : output = outputs'[i] OBVIOUS
    <3>2. output \in [execution : 0..MaxExecutions, summary : SUBSET Statuses]
      BY <2>2, <3>1 DEF OutputType
    <3>3. output.execution \in 0..MaxExecutions /\ output.summary \in SUBSET Statuses BY <3>2
    <3>4. Adapted(i, code, counted, wrote, said)
          = Normalized(i, output.summary, deriveSuiteStatus(output.summary, code), output.execution)
      BY <1>9, <2>2, <3>1 DEF Adapted
    <3>5. output.summary \in SUBSET Tallies BY <3>3 DEF Tallies
    <3>6. deriveSuiteStatus(output.summary, code) = "passed" => output.summary # {}
      BY <3>5, StatusTypes
    <3> QED BY <3>3, <3>4, <3>5, <3>6, NormalizedGood
  <2> QED BY <2>1, <2>2
<1> QED BY <1>2, <1>5, <1>6, <1>7, <1>8, <1>9

(* What a suite that has run leads to: a result, perhaps with the diagnostics *)
(* "skipped", or a rerun.                                                   *)
LEMMA FinishOutcome ==
    ASSUME NEW i \in SuiteIndexes, NEW r, GoodResult(r, i), Finish(r)
    PROVE  \/ \E s : /\ GoodResult(s, i) /\ Completed(s)
                     /\ UNCHANGED <<step, current, child>>
           \/ /\ step' = "rerun" /\ current' = r /\ child' \in ChildType
              /\ UNCHANGED <<queue, results>>
<1> DEFINE kind == Suites[r.suite].diagnostics
           skipped == [status |-> "skipped", timedOut |-> FALSE]
<1>1. CASE r.status # "failed" \/ kind = "none"
  BY <1>1 DEF Finish, rerunVars
<1>2. CASE r.status = "failed" /\ kind = "empty"
  <2>1. PICK s : s = attachDiagnostics(r, skipped) OBVIOUS
  <2>2. skipped \in Diagnosis BY DEF Diagnosis, Statuses
  <2>3. r \in Result BY DEF GoodResult
  <2>4. s \in Result /\ s.suite = r.suite /\ s.status = r.status
    BY <2>1, <2>2, <2>3 DEF attachDiagnostics, Result
  <2>5. GoodResult(s, i) BY <1>2, <2>4 DEF GoodResult, Counted
  <2>6. Completed(s) /\ UNCHANGED <<step, current, child>> BY <1>2, <2>1 DEF Finish, rerunVars
  <2> QED BY <2>5, <2>6
<1>3. CASE r.status = "failed" /\ kind \notin {"none", "empty"}
  BY <1>3 DEF Finish, NoChild, ChildType
<1> QED BY <1>1, <1>2, <1>3

(* The result of a rerun. *)
LEMMA DiagnosedGood ==
    ASSUME NEW r \in Result, r.status = "failed", NEW d \in Diagnosis
    PROVE  GoodResult(attachDiagnostics(r, d), r.suite)
<1>1. PICK s : s = attachDiagnostics(r, d) OBVIOUS
<1>2. s \in Result /\ s.suite = r.suite /\ s.status = r.status BY <1>1 DEF attachDiagnostics, Result
<1> QED BY <1>1, <1>2 DEF GoodResult, Counted

-----------------------------------------------------------------------------
(* Steps.                                                                   *)

LEMMA OtherPackages ==
    ASSUME NEW r, NEW package, Suites[r.suite].package # package,
           ToSet(results') = ToSet(results) \union {r}
    PROVE  /\ derivePackageStatus(package)' = derivePackageStatus(package)
<1>1. ResultsOf(package)' = ResultsOf(package) BY DEF ResultsOf
<1>2. SummaryOf(package)' = SummaryOf(package) BY <1>1 DEF SummaryOf
<1> QED BY <1>2 DEF derivePackageStatus

(* The next suite of the queue gets its result. *)
LEMMA ResultStep ==
    ASSUME TypeOK, ReportInv, step \in {"suites", "rerun"}, step' = "suites",
           exitCode = None,
           NEW i \in Upcoming, NEW r, GoodResult(r, i), Completed(r),
           UNCHANGED <<execution, configVars, announced, endVars>>
    PROVE  results' \in Seq(Result) /\ queue' \in SUBSET SuiteIndexes /\ ReportInv'
<1>1. /\ results \in Seq(Result) /\ queue \in SUBSET SuiteIndexes
      /\ selected \in SUBSET SuiteIndexes /\ announced \in Seq(Statuses)
  BY DEF TypeOK
<1>2. r \in Result /\ r.suite = i /\ Counted(r) BY DEF GoodResult
<1>3. results' = Append(results, r) /\ queue' = queue \ {r.suite} BY DEF Completed
<1>4. results' \in Seq(Result) BY <1>1, <1>2, <1>3
<1>5. ToSet(results') = ToSet(results) \union {r} BY <1>1, <1>3, AppendSet
<1>6. UNCHANGED <<execution, selected, packageCatalog, announced, report, exitCode, saved>>
  BY DEF configVars, endVars
<1>7. CatalogSound' BY <1>6 DEF ReportInv, CatalogSound
<1>8. i \in queue /\ \A j \in queue : i <= j BY DEF Upcoming
<1>9. ResultsInTurn'
  <2>1. Listing(packageCatalog) /\ \A j \in selected : Named(packageCatalog, Suites[j].package)
    BY DEF ReportInv, CatalogSound
  <2>2. InTurn(packageCatalog, selected, Len(announced) + 1, queue, results)
    BY DEF ReportInv, ResultsInTurn
  <2>3. InTurn(packageCatalog, selected, Len(announced) + 1, queue \ {r.suite}, Append(results, r))
    BY <1>1, <1>2, <1>8, <2>1, <2>2, InTurnAppend
  <2> QED BY <1>3, <1>6, <2>3 DEF ResultsInTurn
<1>10. AnnouncedSound'
  <2> SUFFICES ASSUME NEW n \in DOMAIN announced'
               PROVE  announced'[n] = derivePackageStatus(packageCatalog[n])'
    BY DEF AnnouncedSound
  <2>1. n \in DOMAIN announced /\ n \in 1..Len(announced) /\ Len(announced) \in Nat BY <1>1, <1>6
  <2>2. announced[n] = derivePackageStatus(packageCatalog[n]) BY <2>1 DEF ReportInv, AnnouncedSound
  <2>3. Turn(packageCatalog, i) = Len(announced) + 1 /\ i \in selected
        /\ Len(announced) + 1 \in 1..(Len(packageCatalog) + 1)
    BY <1>8 DEF ReportInv, ResultsInTurn, InTurn
  <2>4. Listing(packageCatalog) /\ Named(packageCatalog, Suites[i].package)
    BY <2>3 DEF ReportInv, CatalogSound
  <2>5. Len(packageCatalog) \in Nat /\ DOMAIN packageCatalog = 1..Len(packageCatalog)
    BY <2>4 DEF Listing
  <2>6. n \in DOMAIN packageCatalog /\ n # Turn(packageCatalog, i) BY <2>1, <2>3, <2>5
  <2>7. Suites[r.suite].package # packageCatalog[n] BY <1>2, <2>4, <2>6, TurnIs
  <2>8. derivePackageStatus(packageCatalog[n])' = derivePackageStatus(packageCatalog[n])
    <3>1. PICK package : package = packageCatalog[n] OBVIOUS
    <3>2. derivePackageStatus(package)' = derivePackageStatus(package)
      BY <1>5, <2>7, <3>1, OtherPackages
    <3>3. packageCatalog'[n] = package BY <1>6, <3>1
    <3> QED BY <3>1, <3>2, <3>3
  <2> QED BY <1>6, <2>2, <2>8
<1>11. ResultsCounted' BY <1>2, <1>5 DEF ReportInv, ResultsCounted, Counted
<1>12. report = None /\ ReportOfAnnounced' BY <1>6 DEF ReportInv, ReportOfAnnounced
<1>13. ArtifactsKept'
  <2>1. exitCode' \notin {"success", "failure"} BY <1>6, NoneApart
  <2> QED BY <1>6, <2>1 DEF ReportInv, ArtifactsKept, ArtifactsOfOneExecution
<1>14. RerunOfUpcoming' BY DEF RerunOfUpcoming
<1>15. queue' \in SUBSET SuiteIndexes BY <1>1, <1>3
<1> QED BY <1>4, <1>7, <1>9, <1>10, <1>11, <1>12, <1>13, <1>14, <1>15 DEF ReportInv

(* Steps that leave the results alone. *)
LEMMA ResultsStay ==
    ASSUME ReportInv, UNCHANGED <<packageCatalog, selected, announced, queue, results>>
    PROVE  /\ CatalogSound' /\ ResultsInTurn' /\ AnnouncedSound' /\ ResultsCounted'
           /\ Upcoming' = Upcoming
<1>1. ASSUME NEW package PROVE derivePackageStatus(package)' = derivePackageStatus(package)
  BY DEF derivePackageStatus, SummaryOf, ResultsOf
<1>2. AnnouncedSound' BY <1>1 DEF ReportInv, AnnouncedSound
<1>3. Upcoming' = Upcoming BY DEF Upcoming
<1> QED BY <1>2, <1>3 DEF ReportInv, CatalogSound, ResultsInTurn, ResultsCounted

LEMMA ReportInit ==
    ASSUME Init
    PROVE  TypeOK /\ ReportInv
<1>0. ToSet(results) = {} BY DEF Init, ToSet
<1>1. TypeOK
  <2>1. 0 \in 0..MaxExecutions BY RunAssumption DEF RunAssumption
  <2>2. /\ outputs \in [SuiteIndexes -> [execution : 0..MaxExecutions, summary : SUBSET Statuses]
                                         \union {None}]
        /\ saved \in [report : 0..MaxExecutions, raw : [SuiteIndexes -> 0..MaxExecutions]]
    BY <2>1 DEF Init
  <2>3. child \in [phase : {"none", "running", "exited"}, hangs : BOOLEAN,
                    killed : BOOLEAN, code : {0, 1, None}]
    BY DEF Init, NoChild
  <2>4. /\ packageCatalog \in Seq(PackageNames) /\ announced \in Seq(Statuses)
        /\ results \in Seq(Result) /\ execution \in 0..MaxExecutions
    BY <2>1 DEF Init
  <2>5. /\ selected \in SUBSET SuiteIndexes /\ queue \in SUBSET SuiteIndexes
        /\ failures \in SUBSET [suite : SuiteIndexes, overruled : BOOLEAN]
    BY DEF Init
  <2>6. /\ step \in {"idle", "suites", "rerun", "artifacts"} /\ dryRun \in BOOLEAN
        /\ current = None /\ report = None /\ exitCode = None
    BY DEF Init
  <2> QED BY <2>2, <2>3, <2>4, <2>5, <2>6 DEF TypeOK
<1>2. CatalogSound BY DEF Init, CatalogSound, Listing
<1>3. ResultsInTurn
  <2>1. InTurn(packageCatalog, selected, 1, SuitesLeft(selected, packageCatalog, 1), <<>>)
    BY <1>2, InTurnStart DEF CatalogSound
  <2>2. SuitesLeft(selected, packageCatalog, 1) = {} BY DEF Init, SuitesLeft
  <2>3. Len(announced) + 1 = 1 BY DEF Init
  <2> QED BY <2>1, <2>2, <2>3 DEF Init, ResultsInTurn
<1>4. AnnouncedSound /\ ResultsCounted BY <1>0 DEF Init, AnnouncedSound, ResultsCounted
<1>5. ReportOfAnnounced /\ RerunOfUpcoming BY DEF Init, ReportOfAnnounced, RerunOfUpcoming
<1>6. ArtifactsKept BY <1>0, NoneApart DEF Init, ArtifactsKept, ArtifactsOfOneExecution
<1> QED BY <1>1, <1>2, <1>3, <1>4, <1>5, <1>6 DEF ReportInv

LEMMA ReportStart ==
    ASSUME RunInv, TypeOK, ReportInv, NEW dry \in BOOLEAN, NEW filters \in Filters, Start(dry, filters)
    PROVE  TypeOK' /\ ReportInv'
<1>1. /\ selected' \in SUBSET SuiteIndexes /\ packageCatalog' = Catalog(selected')
      /\ announced' = <<>> /\ queue' = SuitesLeft(selected', packageCatalog', 1) /\ results' = <<>>
      /\ report' = None /\ failures' = {} /\ dryRun' = dry
      /\ step' \in {"suites", "idle"} /\ exitCode' \in {None, "rejected"}
      /\ execution' = execution + 1 /\ execution < MaxExecutions
      /\ UNCHANGED <<current, child, outputs, saved>>
  BY DEF Start, rerunVars
<1>2. CatalogSound' BY <1>1, CatalogListing DEF CatalogSound
<1>3. execution' \in 0..MaxExecutions BY <1>1, RunAssumption DEF TypeOK, RunAssumption
<1>4. /\ packageCatalog' \in Seq(PackageNames) /\ queue' \in SUBSET SuiteIndexes
      /\ announced' \in Seq(Statuses) /\ results' \in Seq(Result)
  BY <1>1, <1>2 DEF CatalogSound, Listing, SuitesLeft, SuitesOf
<1>5. TypeOK' BY <1>1, <1>3, <1>4 DEF TypeOK
<1>6. ResultsInTurn'
  <2>1. InTurn(packageCatalog', selected', 1, SuitesLeft(selected', packageCatalog', 1), <<>>)
    BY <1>2, InTurnStart DEF CatalogSound
  <2>2. Len(announced') + 1 = 1 BY <1>1
  <2> QED BY <1>1, <2>1, <2>2 DEF ResultsInTurn
<1>7. ToSet(results') = {} BY <1>1 DEF ToSet
<1>8. AnnouncedSound' /\ ResultsCounted' BY <1>1, <1>7 DEF AnnouncedSound, ResultsCounted
<1>9. ReportOfAnnounced' /\ RerunOfUpcoming' BY <1>1 DEF ReportOfAnnounced, RerunOfUpcoming
<1>10. ArtifactsKept'
  <2>1. exitCode' \notin {"success", "failure"} BY <1>1, NoneApart
  <2>2. saved.report \in Nat /\ execution \in Nat BY DEF TypeOK
  <2> QED BY <1>1, <2>1, <2>2 DEF ReportInv, ArtifactsKept, ArtifactsOfOneExecution
<1> QED BY <1>2, <1>5, <1>6, <1>8, <1>9, <1>10 DEF ReportInv

LEMMA ReportPackage ==
    ASSUME RunInv, TypeOK, ReportInv, CompletePackage
    PROVE  TypeOK' /\ ReportInv'
<1> DEFINE p == Len(announced) + 1
<1>1. /\ step = "suites" /\ queue = {} /\ Len(announced) < Len(packageCatalog)
      /\ announced' = Append(announced, derivePackageStatus(packageCatalog[p]))
      /\ queue' = SuitesLeft(selected, packageCatalog, Len(announced) + 2)
      /\ UNCHANGED <<step, execution, dryRun, selected, packageCatalog, results, current, child,
                     report, exitCode, saved, outputs, failures>>
  BY DEF CompletePackage, controlVars, configVars, rerunVars, endVars
<1>2. announced \in Seq(Statuses) /\ Len(announced) \in Nat BY DEF TypeOK
<1>3. derivePackageStatus(packageCatalog[p]) \in Statuses BY DEF derivePackageStatus, Statuses
<1>4. /\ announced' \in Seq(Statuses) /\ Len(announced') = p
      /\ DOMAIN announced' = 1..p
      /\ \A n \in 1..Len(announced) : announced'[n] = announced[n]
      /\ announced'[p] = derivePackageStatus(packageCatalog[p])
  BY <1>1, <1>2, <1>3
<1>5. queue' \in SUBSET SuiteIndexes BY <1>1 DEF TypeOK, SuitesLeft, SuitesOf
<1>6. TypeOK' BY <1>1, <1>4, <1>5 DEF TypeOK
<1>7. CatalogSound' BY <1>1 DEF ReportInv, CatalogSound
<1>8. ResultsInTurn'
  <2>1. InTurn(packageCatalog, selected, p, {}, results) BY <1>1 DEF ReportInv, ResultsInTurn
  <2>2. Len(packageCatalog) \in Nat BY DEF TypeOK
  <2>3. p <= Len(packageCatalog) /\ Len(announced) + 2 = p + 1 BY <1>1, <1>2, <2>2
  <2>4. Listing(packageCatalog) /\ \A i \in selected : Named(packageCatalog, Suites[i].package)
    BY DEF ReportInv, CatalogSound
  <2>5. InTurn(packageCatalog, selected, p + 1, SuitesLeft(selected, packageCatalog, p + 1), results)
    BY <2>1, <2>3, <2>4, InTurnNext
  <2> QED BY <1>1, <1>4, <2>3, <2>5 DEF ResultsInTurn
<1>9. ASSUME NEW package PROVE derivePackageStatus(package)' = derivePackageStatus(package)
  BY <1>1 DEF derivePackageStatus, SummaryOf, ResultsOf
<1>10. AnnouncedSound'
  <2>1. ASSUME NEW n \in 1..p PROVE announced'[n] = derivePackageStatus(packageCatalog[n])
    <3>1. CASE n = p BY <1>4, <3>1
    <3>2. CASE n # p
      <4>1. n \in 1..Len(announced) /\ n \in DOMAIN announced BY <1>2, <3>2
      <4> QED BY <1>4, <4>1 DEF ReportInv, AnnouncedSound
    <3> QED BY <3>1, <3>2
  <2> QED BY <1>1, <1>4, <1>9, <2>1 DEF AnnouncedSound
<1>11. ResultsCounted' BY <1>1 DEF ReportInv, ResultsCounted
<1>12. report = None BY <1>1 DEF ReportInv, ReportOfAnnounced
<1>13. ReportOfAnnounced' /\ RerunOfUpcoming' BY <1>1, <1>12 DEF ReportOfAnnounced, RerunOfUpcoming
<1>14. ArtifactsKept' BY <1>1 DEF ReportInv, ArtifactsKept, ArtifactsOfOneExecution
<1> QED BY <1>6, <1>7, <1>8, <1>10, <1>11, <1>13, <1>14 DEF ReportInv

LEMMA ReportDryRun ==
    ASSUME RunInv, TypeOK, ReportInv, DryRunSuite
    PROVE  TypeOK' /\ ReportInv'
<1>0. PICK i \in Upcoming : Completed([suite |-> i, status |-> "skipped", summary |-> {},
                                       from |-> execution, diagnostics |-> None])
  BY DEF DryRunSuite
<1>1. PICK r : r = [suite |-> i, status |-> "skipped", summary |-> {},
                    from |-> execution, diagnostics |-> None] /\ Completed(r)
  BY <1>0
<1>2. i \in SuiteIndexes BY DEF Upcoming, TypeOK
<1>3. GoodResult(r, i) BY <1>1, <1>2 DEF GoodResult, Counted, Result, Statuses, TypeOK
<1>4. /\ step = "suites" /\ step' = "suites"
      /\ UNCHANGED <<execution, configVars, announced, endVars, current, child, outputs, failures>>
  BY DEF DryRunSuite, controlVars, rerunVars
<1>5. exitCode = None BY <1>4 DEF RunInv, ExitAtEnd
<1>6. results' \in Seq(Result) /\ queue' \in SUBSET SuiteIndexes /\ ReportInv'
  BY <1>1, <1>3, <1>4, <1>5, ResultStep
<1>7. TypeOK' BY <1>4, <1>6 DEF TypeOK, configVars, endVars
<1> QED BY <1>6, <1>7

(* A suite has run. *)
LEMMA ReportFinish ==
    ASSUME RunInv, TypeOK, ReportInv, step = "suites", NEW i \in Upcoming, NEW r, GoodResult(r, i),
           Finish(r), outputs' \in [SuiteIndexes -> OutputType],
           failures' \in SUBSET [suite : SuiteIndexes, overruled : BOOLEAN],
           UNCHANGED <<execution, configVars, announced, endVars>>
    PROVE  TypeOK' /\ ReportInv'
<1>1. i \in SuiteIndexes BY DEF Upcoming, TypeOK
<1>2. UNCHANGED <<execution, dryRun, selected, packageCatalog, announced, report, exitCode, saved>>
  BY DEF configVars, endVars
<1>3. exitCode = None BY DEF RunInv, ExitAtEnd
<1>4. CASE \E s : GoodResult(s, i) /\ Completed(s) /\ UNCHANGED <<step, current, child>>
  <2>1. PICK s : GoodResult(s, i) /\ Completed(s) /\ UNCHANGED <<step, current, child>> BY <1>4
  <2>2. results' \in Seq(Result) /\ queue' \in SUBSET SuiteIndexes /\ ReportInv'
    BY <1>3, <2>1, ResultStep
  <2>3. TypeOK' BY <1>2, <2>1, <2>2 DEF TypeOK, OutputType
  <2> QED BY <2>2, <2>3
<1>5. CASE step' = "rerun" /\ current' = r /\ child' \in ChildType /\ UNCHANGED <<queue, results>>
  <2>1. r \in Result /\ r.suite = i BY DEF GoodResult
  <2>2. TypeOK' BY <1>2, <1>5, <2>1 DEF TypeOK, OutputType, ChildType
  <2>3. CatalogSound' /\ ResultsInTurn' /\ AnnouncedSound' /\ ResultsCounted' /\ Upcoming' = Upcoming
    BY <1>2, <1>5, ResultsStay
  <2>4. report = None /\ ReportOfAnnounced' BY <1>2 DEF ReportInv, ReportOfAnnounced
  <2>5. ArtifactsKept' 
    <3>1. exitCode' \notin {"success", "failure"} BY <1>2, <1>3, NoneApart
    <3> QED BY <1>2, <3>1 DEF ReportInv, ArtifactsKept, ArtifactsOfOneExecution
  <2>6. RerunOfUpcoming' BY <1>5, <2>1, <2>3 DEF RerunOfUpcoming
  <2> QED BY <2>2, <2>3, <2>4, <2>5, <2>6 DEF ReportInv
<1> QED BY <1>1, <1>4, <1>5, FinishOutcome

LEMMA ReportRunSuite ==
    ASSUME RunInv, TypeOK, ReportInv, RunSuite
    PROVE  TypeOK' /\ ReportInv'
<1>0. PICK i \in Upcoming, code \in {0, 1}, counted \in Summaries, wrote \in BOOLEAN,
           said \in Tallies \union {None} : CommandEnds(i, code, counted, wrote, said)
  BY DEF RunSuite
<1>1. /\ Suites[i].adapter # "unknown"
      /\ said # None => Suites[i].adapter \in JsonFormats
      /\ outputs' = IF wrote /\ Suites[i].adapter = "file"
                    THEN [outputs EXCEPT ![i] = [execution |-> execution, summary |-> counted]]
                    ELSE outputs
      /\ failures' = Noted(i, code, counted, said)
      /\ Finish(Adapted(i, code, counted, wrote, said))
  BY <1>0 DEF CommandEnds
<1>2. step = "suites" /\ UNCHANGED <<execution, configVars, announced, endVars>> BY DEF RunSuite
<1>3. i \in SuiteIndexes /\ execution \in 0..MaxExecutions BY DEF Upcoming, TypeOK
<1>4. counted \in SUBSET Statuses BY RunAssumption DEF RunAssumption
<1>5. outputs' \in [SuiteIndexes -> OutputType]
  <2>1. [execution |-> execution, summary |-> counted] \in OutputType BY <1>3, <1>4 DEF OutputType
  <2>2. outputs \in [SuiteIndexes -> OutputType] BY DEF TypeOK, OutputType
  <2> QED BY <1>1, <1>3, <2>1, <2>2
<1>6. failures' \in SUBSET [suite : SuiteIndexes, overruled : BOOLEAN]
  <2>1. [suite |-> i, overruled |-> Speaks(i, said) /\ said # "failed" /\ "failed" \notin counted]
        \in [suite : SuiteIndexes, overruled : BOOLEAN]
    BY <1>3
  <2> QED BY <1>1, <2>1 DEF TypeOK, Noted
<1>7. GoodResult(Adapted(i, code, counted, wrote, said), i) BY <1>1, <1>3, <1>4, <1>5, AdaptedGood
<1> QED BY <1>1, <1>2, <1>5, <1>6, <1>7, ReportFinish

LEMMA ReportThrow ==
    ASSUME RunInv, TypeOK, ReportInv, AdapterThrows
    PROVE  TypeOK' /\ ReportInv'
<1>1. PICK i \in Upcoming : /\ failures' = failures \union {[suite |-> i, overruled |-> FALSE]}
                          /\ Finish(Thrown(i))
  BY DEF AdapterThrows
<1>2. step = "suites" /\ UNCHANGED <<execution, configVars, announced, endVars, outputs>>
  BY DEF AdapterThrows
<1>3. i \in SuiteIndexes /\ execution \in 0..MaxExecutions BY DEF Upcoming, TypeOK
<1>4. outputs' \in [SuiteIndexes -> OutputType] BY <1>2 DEF TypeOK, OutputType
<1>5. failures' \in SUBSET [suite : SuiteIndexes, overruled : BOOLEAN]
  <2>1. [suite |-> i, overruled |-> FALSE] \in [suite : SuiteIndexes, overruled : BOOLEAN] BY <1>3
  <2> QED BY <1>1, <2>1 DEF TypeOK
<1>6. GoodResult(Thrown(i), i) BY <1>3, ThrownGood
<1> QED BY <1>1, <1>2, <1>4, <1>5, <1>6, ReportFinish

(* The rerun is settled. *)
LEMMA ReportRerun ==
    ASSUME RunInv, TypeOK, ReportInv, ChildClose \/ ChildError
    PROVE  TypeOK' /\ ReportInv'
<1>1. child.killed \in BOOLEAN BY DEF TypeOK
<1>2. PICK d \in Diagnosis : Completed(attachDiagnostics(current, d))
  BY <1>1 DEF ChildClose, ChildError, Diagnosis, Statuses
<1>3. /\ step = "rerun" /\ step' = "suites" /\ current' = None /\ child' = NoChild
      /\ UNCHANGED <<execution, configVars, announced, endVars, outputs, failures>>
  BY DEF ChildClose, ChildError
<1>4. current \in Result /\ current.suite \in Upcoming /\ current.status = "failed"
  BY <1>3 DEF ReportInv, RerunOfUpcoming, RunInv, RerunsFailed
<1>5. GoodResult(attachDiagnostics(current, d), current.suite) BY <1>4, DiagnosedGood
<1>6. exitCode = None BY <1>3 DEF RunInv, ExitAtEnd
<1>7. results' \in Seq(Result) /\ queue' \in SUBSET SuiteIndexes /\ ReportInv'
  BY <1>2, <1>3, <1>4, <1>5, <1>6, ResultStep
<1>8. TypeOK' BY <1>3, <1>7 DEF TypeOK, NoChild, configVars, endVars
<1> QED BY <1>7, <1>8

LEMMA ReportChild ==
    ASSUME RunInv, TypeOK, ReportInv, Timeout \/ ChildExit
    PROVE  TypeOK' /\ ReportInv'
<1>1. UNCHANGED <<step, execution, dryRun, selected, packageCatalog, announced, queue, results,
                  current, report, exitCode, saved, outputs, failures>>
  BY DEF Timeout, ChildExit, controlVars, configVars, progressVars, endVars
<1>2. child' \in ChildType BY DEF Timeout, ChildExit, TypeOK, ChildType
<1>3. TypeOK' BY <1>1, <1>2 DEF TypeOK, ChildType
<1>4. CatalogSound' /\ ResultsInTurn' /\ AnnouncedSound' /\ ResultsCounted' /\ Upcoming' = Upcoming
  BY <1>1, ResultsStay
<1>5. report = None /\ ReportOfAnnounced'
  BY <1>1 DEF Timeout, ChildExit, ReportInv, ReportOfAnnounced
<1>6. ArtifactsKept' /\ RerunOfUpcoming'
  BY <1>1, <1>4 DEF ReportInv, ArtifactsKept, ArtifactsOfOneExecution, RerunOfUpcoming
<1> QED BY <1>3, <1>4, <1>5, <1>6 DEF ReportInv

LEMMA ReportRejected ==
    ASSUME RunInv, TypeOK, ReportInv, UnresolvedAdapter \/ PolicyThrows
    PROVE  TypeOK' /\ ReportInv'
<1>1. step = "suites" /\ step' = "idle" /\ exitCode' = "rejected"
  BY DEF UnresolvedAdapter, PolicyThrows, AllAnnounced
<1>2. UNCHANGED <<execution, dryRun, selected, packageCatalog, announced, queue, results,
                  current, child, report, saved, outputs, failures>>
  BY DEF UnresolvedAdapter, PolicyThrows, configVars, progressVars, rerunVars
<1>3. TypeOK' BY <1>1, <1>2 DEF TypeOK
<1>4. CatalogSound' /\ ResultsInTurn' /\ AnnouncedSound' /\ ResultsCounted'
  BY <1>2, ResultsStay
<1>5. report = None /\ ReportOfAnnounced' BY <1>1, <1>2 DEF ReportInv, ReportOfAnnounced
<1>6. ArtifactsKept' /\ RerunOfUpcoming'
  BY <1>1, <1>2 DEF ReportInv, ArtifactsKept, ArtifactsOfOneExecution, RerunOfUpcoming
<1> QED BY <1>3, <1>4, <1>5, <1>6 DEF ReportInv

LEMMA ReportBuilt ==
    ASSUME RunInv, TypeOK, ReportInv, BuildReport
    PROVE  TypeOK' /\ ReportInv'
<1>1. PICK failedThresholds \in BOOLEAN :
        report' = [packages |-> [n \in DOMAIN announced |-> finalizePackageResult(packageCatalog[n])],
                   failedSuites |-> {r.suite : r \in {s \in ToSet(results) : s.status = "failed"}},
                   failedThresholds |-> failedThresholds]
  BY DEF BuildReport
<1>2. /\ step = "suites" /\ queue = {} /\ Len(announced) = Len(packageCatalog) /\ step' = "artifacts"
      /\ UNCHANGED <<execution, dryRun, selected, packageCatalog, announced, queue, results,
                     current, child, exitCode, saved, outputs, failures>>
  BY DEF BuildReport, AllAnnounced, configVars, progressVars, rerunVars
<1>3. \A r \in ToSet(results) : r \in Result BY DEF TypeOK, ToSet
<1>4. ASSUME NEW package PROVE finalizePackageResult(package) \in Statuses
  <2>1. SummaryOf(package) \in SUBSET Tallies BY <1>3 DEF SummaryOf, ResultsOf, Result
  <2> QED BY <2>1, StatusTypes DEF finalizePackageResult
<1>5. PICK packages : packages = [n \in DOMAIN announced |-> finalizePackageResult(packageCatalog[n])]
  OBVIOUS
<1>6. packages \in Seq(Statuses)
  <2>1. DOMAIN announced = 1..Len(announced) /\ Len(announced) \in Nat BY DEF TypeOK
  <2>2. packages \in [1..Len(announced) -> Statuses] BY <1>4, <1>5, <2>1
  <2> QED BY <2>1, <2>2
<1>7. report' \in [packages : Seq(Statuses), failedSuites : SUBSET SuiteIndexes,
                   failedThresholds : BOOLEAN]
  <2>1. {r.suite : r \in {s \in ToSet(results) : s.status = "failed"}} \in SUBSET SuiteIndexes
    BY <1>3 DEF Result
  <2> QED BY <1>1, <1>5, <1>6, <2>1
<1>8. TypeOK' BY <1>2, <1>7 DEF TypeOK
<1>9. CatalogSound' /\ ResultsInTurn' /\ AnnouncedSound' /\ ResultsCounted'
  BY <1>2, ResultsStay
<1>10. ReportOfAnnounced'
  <2>1. ASSUME NEW package PROVE finalizePackageResult(package)' = finalizePackageResult(package)
    BY <1>2 DEF finalizePackageResult, SummaryOf, ResultsOf
  <2>2. report'.packages = [n \in DOMAIN announced |-> finalizePackageResult(packageCatalog[n])] BY <1>1
  <2>3. report'.packages = [n \in DOMAIN announced' |-> finalizePackageResult(packageCatalog[n])']
    BY <1>2, <2>1, <2>2
  <2> QED BY <1>2, <2>3 DEF ReportOfAnnounced
<1>11. ArtifactsKept' /\ RerunOfUpcoming'
  BY <1>2 DEF ReportInv, ArtifactsKept, ArtifactsOfOneExecution, RerunOfUpcoming
<1> QED BY <1>8, <1>9, <1>10, <1>11 DEF ReportInv

LEMMA ReportWritten ==
    ASSUME RunInv, TypeOK, ReportInv, WriteReportArtifacts
    PROVE  TypeOK' /\ ReportInv'
<1>1. PICK written \in 0..Len(results), rendered \in BOOLEAN :
        /\ saved' = [report |-> execution,
                     raw |-> [i \in SuiteIndexes |->
                                IF \E n \in 1..written : results[n].suite = i
                                THEN execution ELSE saved.raw[i]]]
        /\ exitCode' = IF written = Len(results) /\ rendered THEN Exit ELSE "rejected"
  BY DEF WriteReportArtifacts
<1>2. /\ step = "artifacts" /\ step' = "idle"
      /\ UNCHANGED <<execution, dryRun, selected, packageCatalog, announced, queue, results,
                     current, child, report, outputs, failures>>
  BY DEF WriteReportArtifacts, configVars, progressVars, rerunVars
<1>3. Exit \in {"success", "failure"} BY DEF Exit
<1>4. /\ saved'.report = execution
      /\ \A i \in SuiteIndexes : saved'.raw[i] = IF \E n \in 1..written : results[n].suite = i
                                                 THEN execution ELSE saved.raw[i]
  BY <1>1
<1>5. saved' \in [report : 0..MaxExecutions, raw : [SuiteIndexes -> 0..MaxExecutions]]
  <2>1. execution \in 0..MaxExecutions /\ \A i \in SuiteIndexes : saved.raw[i] \in 0..MaxExecutions
    BY DEF TypeOK
  <2> QED BY <1>1, <2>1
<1>6. TypeOK' BY <1>1, <1>2, <1>3, <1>5 DEF TypeOK
<1>7. CatalogSound' /\ ResultsInTurn' /\ AnnouncedSound' /\ ResultsCounted'
  BY <1>2, ResultsStay
<1>8. ReportOfAnnounced'
  <2>1. ASSUME NEW package PROVE finalizePackageResult(package)' = finalizePackageResult(package)
    BY <1>2 DEF finalizePackageResult, SummaryOf, ResultsOf
  <2>2. report # None =>
          report'.packages = [n \in DOMAIN announced |-> finalizePackageResult(packageCatalog[n])]
    BY <1>2 DEF ReportInv, ReportOfAnnounced
  <2>3. report # None =>
          report'.packages = [n \in DOMAIN announced' |-> finalizePackageResult(packageCatalog[n])']
    BY <1>2, <2>1, <2>2
  <2> QED BY <1>2, <2>3 DEF ReportInv, ReportOfAnnounced
<1>9. ArtifactsKept'
  <2>1. ASSUME NEW i \in SuiteIndexes PROVE saved'.raw[i] <= execution
    <3>1. execution \in Nat /\ saved.raw[i] \in Nat /\ saved.report \in Nat BY DEF TypeOK
    <3>2. saved.raw[i] <= saved.report /\ saved.report <= execution
      BY DEF ReportInv, ArtifactsKept, ArtifactsOfOneExecution
    <3> QED BY <1>4, <3>1, <3>2
  <2>2. ASSUME exitCode' \in {"success", "failure"}, NEW r \in ToSet(results)
        PROVE  saved'.raw[r.suite] = execution
    <3>1. written = Len(results) BY <1>1, <2>2
    <3>2. PICK n \in 1..Len(results) : results[n] = r BY DEF TypeOK, ToSet
    <3>3. r \in Result BY <3>2 DEF TypeOK
    <3>4. r.suite \in SuiteIndexes BY <3>3 DEF Result
    <3> QED BY <1>4, <3>1, <3>2, <3>4
  <2>3. execution' = execution /\ execution \in Nat BY <1>2 DEF TypeOK
  <2> QED BY <1>2, <1>4, <2>1, <2>2, <2>3 DEF ArtifactsKept, ArtifactsOfOneExecution
<1>10. RerunOfUpcoming' BY <1>2 DEF RerunOfUpcoming
<1> QED BY <1>6, <1>7, <1>8, <1>9, <1>10 DEF ReportInv

LEMMA ReportNext ==
    ASSUME RunInv, TypeOK, ReportInv, [Next]_vars
    PROVE  TypeOK' /\ ReportInv'
<1>1. CASE UNCHANGED vars
  <2>1. UNCHANGED <<step, execution, dryRun, selected, packageCatalog, announced, queue, results,
                    current, child, report, exitCode, saved, outputs, failures>>
    BY <1>1 DEF vars, controlVars, configVars, progressVars, rerunVars, endVars
  <2>2. TypeOK' BY <2>1 DEF TypeOK
  <2>3. CatalogSound' /\ ResultsInTurn' /\ AnnouncedSound' /\ ResultsCounted' /\ Upcoming' = Upcoming
    BY <2>1, ResultsStay
  <2>4. ReportOfAnnounced'
    <3>1. ASSUME NEW package PROVE finalizePackageResult(package)' = finalizePackageResult(package)
      BY <2>1 DEF finalizePackageResult, SummaryOf, ResultsOf
    <3>2. ASSUME report # None
          PROVE  report'.packages = [n \in DOMAIN announced' |-> finalizePackageResult(packageCatalog[n])']
      BY <2>1, <3>1, <3>2 DEF ReportInv, ReportOfAnnounced
    <3> QED BY <2>1, <3>2 DEF ReportInv, ReportOfAnnounced
  <2>5. ArtifactsKept' /\ RerunOfUpcoming'
    BY <2>1, <2>3 DEF ReportInv, ArtifactsKept, ArtifactsOfOneExecution, RerunOfUpcoming
  <2> QED BY <2>2, <2>3, <2>4, <2>5 DEF ReportInv
<1>2. CASE \E dry \in BOOLEAN, filters \in Filters : Start(dry, filters) BY <1>2, ReportStart
<1>3. CASE RunStep
  BY <1>3, ReportDryRun, ReportRejected, ReportRunSuite, ReportThrow, ReportPackage, ReportRerun,
     ReportBuilt, ReportWritten DEF RunStep
<1>4. CASE Timeout \/ ChildExit BY <1>4, ReportChild
<1>5. CASE ChildError BY <1>5, ReportRerun
<1> QED BY <1>1, <1>2, <1>3, <1>4, <1>5 DEF Next

LEMMA ReportInvariance == Spec => [](TypeOK /\ ReportInv)
<1>1. Init => TypeOK /\ ReportInv BY ReportInit
<1>2. RunInv /\ TypeOK /\ ReportInv /\ [Next]_vars => (TypeOK /\ ReportInv)' BY ReportNext
<1> QED BY <1>1, <1>2, Invariance, PTL DEF Spec

(* Every variable holds a value of its type. *)
THEOREM TypeCorrect == Spec => []TypeOK
BY ReportInvariance, PTL

LEMMA SuitesReported ==
    ASSUME TypeOK, ReportInv
    PROVE  EverySuiteReported
<1> SUFFICES ASSUME report # None PROVE
        /\ {r.suite : r \in ToSet(results)} = selected
        /\ \A m, n \in DOMAIN results : m < n =>
              \/ Place(Suites[results[m].suite].package) < Place(Suites[results[n].suite].package)
              \/ /\ Suites[results[m].suite].package = Suites[results[n].suite].package
                 /\ results[m].suite < results[n].suite
        /\ \A n \in DOMAIN report.packages :
              SuitesOf(selected, packageCatalog[n]) = {} => report.packages[n] = "skipped"
  BY DEF EverySuiteReported
<1>1. /\ queue = {} /\ Len(announced) = Len(packageCatalog)
      /\ report.packages = [n \in DOMAIN announced |-> finalizePackageResult(packageCatalog[n])]
  BY DEF ReportInv, ReportOfAnnounced
<1>2. InTurn(packageCatalog, selected, Len(packageCatalog) + 1, {}, results)
  BY <1>1 DEF ReportInv, ResultsInTurn
<1>3. Len(packageCatalog) \in Nat /\ DOMAIN packageCatalog = 1..Len(packageCatalog) BY DEF TypeOK
<1>4. ASSUME NEW i \in selected PROVE \E n \in DOMAIN results : results[n].suite = i
  <2>1. Turn(packageCatalog, i) \in DOMAIN packageCatalog
    BY TurnIs DEF ReportInv, CatalogSound
  <2>2. Turn(packageCatalog, i) <= Len(packageCatalog) + 1 BY <1>3, <2>1
  <2> QED BY <1>2, <2>2 DEF InTurn
<1>5. \A n \in DOMAIN results : results[n].suite \in selected BY <1>2 DEF InTurn
<1>6. {r.suite : r \in ToSet(results)} = selected BY <1>4, <1>5 DEF ToSet
<1>7. ASSUME NEW i PROVE Place(Suites[i].package) = Turn(packageCatalog, i) BY DEF Place, Turn
<1>8. \A m, n \in DOMAIN results : m < n => Precedes(packageCatalog, results[m].suite, results[n].suite)
  BY <1>2 DEF InTurn
<1>9. ASSUME NEW n \in DOMAIN report.packages, SuitesOf(selected, packageCatalog[n]) = {}
      PROVE  report.packages[n] = "skipped"
  <2>1. report.packages[n] = finalizePackageResult(packageCatalog[n]) BY <1>1, <1>9
  <2>2. ResultsOf(packageCatalog[n]) = {} BY <1>5, <1>9 DEF ResultsOf, SuitesOf, ToSet
  <2>3. SummaryOf(packageCatalog[n]) = {} /\ {r.status : r \in ResultsOf(packageCatalog[n])} = {}
    BY <2>2 DEF SummaryOf
  <2> QED BY <2>1, <2>3 DEF finalizePackageResult, deriveCollectionStatus
<1> QED BY <1>6, <1>7, <1>8, <1>9 DEF Precedes

(* What is announced differs from the report only by a suite that failed    *)
(* without a failed test, or that passed by the word of its payload.        *)
LEMMA AnnouncedReported ==
    ASSUME RunInv, TypeOK, ReportInv
    PROVE  AnnouncedAsReported
<1> SUFFICES ASSUME report # None, NEW n \in DOMAIN announced
             PROVE  \/ announced[n] = report.packages[n]
                    \/ \E r \in ResultsOf(packageCatalog[n]) :
                          /\ r.status = report.packages[n] /\ r.status \notin r.summary
                          /\ \/ r.status = "failed"
                             \/ r.status = "passed" /\ Suites[r.suite].adapter \in JsonFormats
  BY DEF AnnouncedAsReported
<1>1. PICK package : package = packageCatalog[n] OBVIOUS
<1>2. announced[n] = derivePackageStatus(package) BY <1>1 DEF ReportInv, AnnouncedSound
<1>3. report.packages[n] = finalizePackageResult(package) BY <1>1 DEF ReportInv, ReportOfAnnounced
<1> DEFINE R == ResultsOf(package)
           T == {r.status : r \in R}
           U == SummaryOf(package)
<1>4. \A r \in R : r \in ToSet(results) BY DEF ResultsOf
<1>5. \A r \in R : r \in Result BY <1>4 DEF TypeOK, ToSet
<1>6. \A r \in R : Sound(r) /\ Counted(r)
  BY <1>4 DEF RunInv, ResultsSound, ReportInv, ResultsCounted
<1>7. U \subseteq Tallies BY <1>5 DEF SummaryOf, Result
<1>8. announced[n] = IF "failed" \in U THEN "failed" ELSE IF "passed" \in U THEN "passed" ELSE "skipped"
  BY <1>2 DEF derivePackageStatus
<1>9. report.packages[n] = deriveCollectionStatus(U, T) BY <1>3 DEF finalizePackageResult
<1>10. \A r \in R : r.summary \subseteq U BY DEF SummaryOf
<1>11. CASE "failed" \in T
  <2>1. report.packages[n] = "failed" BY <1>9, <1>11 DEF deriveCollectionStatus
  <2>2. PICK r \in R : r.status = "failed" BY <1>11
  <2>3. CASE "failed" \in r.summary
    <3>1. "failed" \in U BY <1>10, <2>3
    <3> QED BY <1>8, <2>1, <3>1
  <2>4. CASE "failed" \notin r.summary BY <1>1, <2>1, <2>2, <2>4
  <2> QED BY <2>3, <2>4
<1>12. CASE "failed" \notin T
  <2>1. "failed" \notin U
    <3>1. \A r \in R : "failed" \notin r.summary BY <1>6, <1>12 DEF Sound
    <3> QED BY <3>1 DEF SummaryOf
  <2>2. ASSUME NEW r \in R, r.status = "passed", report.packages[n] = "passed", "passed" \notin U
        PROVE  \E q \in ResultsOf(packageCatalog[n]) :
                  /\ q.status = report.packages[n] /\ q.status \notin q.summary
                  /\ q.status = "passed" /\ Suites[q.suite].adapter \in JsonFormats
    <3>1. "passed" \notin r.summary BY <1>10, <2>2
    <3>2. Suites[r.suite].adapter \in JsonFormats BY <1>6, <2>2, <3>1 DEF Counted
    <3> QED BY <1>1, <2>2, <3>1, <3>2
  <2>3. CASE U = {}
    <3>1. report.packages[n] = IF "passed" \in T THEN "passed" ELSE "skipped"
      BY <1>9, <1>12, <2>3 DEF deriveCollectionStatus
    <3>2. announced[n] = "skipped" BY <1>8, <2>3
    <3>3. CASE "passed" \in T
      <4>1. PICK r \in R : r.status = "passed" BY <3>3
      <4> HIDE DEF R, T, U
      <4> QED BY <2>2, <2>3, <3>1, <3>3, <4>1
    <3> QED BY <3>1, <3>2, <3>3
  <2>4. CASE U # {}
    <3>1. report.packages[n] = IF U = {"skipped"} THEN "skipped" ELSE "passed"
      BY <1>9, <1>12, <2>1, <2>4 DEF deriveCollectionStatus, deriveStatusFromSummary
    <3>2. CASE "passed" \in U \/ U = {"skipped"} BY <1>8, <2>1, <3>1, <3>2
    <3>3. CASE "passed" \notin U /\ U # {"skipped"}
      <4>1. "other" \in U BY <1>7, <2>1, <2>4, <3>3 DEF Statuses, Tallies
      <4>2. PICK r \in R : "other" \in r.summary BY <4>1 DEF SummaryOf
      <4>3. r.status # "failed" BY <1>12
      <4>4. r.status = "passed" BY <1>6, <4>2, <4>3 DEF Counted
      <4> HIDE DEF R, T, U
      <4> QED BY <2>2, <3>1, <3>3, <4>4
    <3> QED BY <3>2, <3>3
  <2> QED BY <2>3, <2>4
<1> QED BY <1>11, <1>12

(* The console, report.json and the raw files tell of every selected suite  *)
(* once, in order, and of one execution.                                    *)
THEOREM ReportsAreSound == Spec => []ReportSound
<1>1. RunInv /\ TypeOK /\ ReportInv => ReportSound
  BY SuitesReported, AnnouncedReported DEF ReportSound, ReportInv, ArtifactsKept
<1> QED BY <1>1, Invariance, ReportInvariance, PTL
=============================================================================
