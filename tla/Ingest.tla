------------------------------- MODULE Ingest -------------------------------
(***************************************************************************)
(* The ingestion service of the Test Station server,                       *)
(* packages/server/ingest: concurrent HTTP requests, each of which         *)
(* normalizes one report and persists it in one READ COMMITTED             *)
(* transaction.                                                            *)
(*                                                                         *)
(* One project is modelled: the transaction takes an advisory lock on its  *)
(* project, and no table below has a row shared by two projects.  A        *)
(* transaction keeps its uncommitted rows in variables of its own and      *)
(* Commit installs them, so what another transaction reads is what READ    *)
(* COMMITTED shows it.  A request is handled once; a publisher's retry is  *)
(* another request with the same payload.                                  *)
(***************************************************************************)
EXTENDS Integers, FiniteSets

CONSTANTS Requests,   \* the POSTs that reach the server
          Runs,       \* external keys of the project's runs, ordered like run ids
          Producers,  \* producerKey and submissionKey, taken together
          ReportIds,  \* what tells two reports apart beyond the fields below
          Payloads,   \* the payloads the publishers send
          None        \* null

FactKinds == {"tests", "coverage", "performance"}
SubmissionKinds == FactKinds \union {"combined"}

(* What the properties tell apart in a report: the summary's test counts,   *)
(* the line coverage and whether it carries custom performance statistics. *)
Reports == [id : ReportIds, total : Nat, failed : Nat,
            lines : Nat \union {None}, perf : BOOLEAN]

PayloadSet == [run : Runs, kind : SubmissionKinds \union {None},
               producer : Producers, report : Reports, completedAt : Nat]

ASSUME RunsAssumption == Runs \subseteq Int /\ IsFiniteSet(Runs)
ASSUME PayloadsAssumption == Payloads \subseteq PayloadSet

VARIABLES
    (* The committed tables. *)
    run,                  \* run[r]: the row of Run, or None
    reportSubmission,     \* the rows of ReportSubmission
    runActiveSubmission,  \* runActiveSubmission[r][k]: the selected submission's id, or None
    runOverview,          \* runOverview[r]: the projection of run r, or None
    projectOverview,      \* the projection of the project, or None
    (* The handler of each request. *)
    pc,                   \* pc[q]: the next step of request q
    payload,              \* payload[q]: its normalized payload
    existingRun,          \* existingRun[q]: the Run row its transaction read first
    loadedRun,            \* loadedRun[q]: the instance findOrCreate loaded, or None
    (* The uncommitted rows of its transaction. *)
    runRow,               \* runRow[q]: the written Run row; q holds its row lock
    submission,           \* submission[q]: the ReportSubmission row found or created
    submissionStatus,     \* submissionStatus[q]: what the receipt will say of it
    overviewRow,          \* overviewRow[q]: the written RunOverview row
    projectRow            \* projectRow[q]: the written ProjectOverview row

tables == <<run, reportSubmission, runActiveSubmission, runOverview, projectOverview>>
locals == <<payload, existingRun, loadedRun, runRow, submission,
            submissionStatus, overviewRow, projectRow>>
vars == <<tables, pc, locals>>

-----------------------------------------------------------------------------
(* Normalization: what the handler derives from a payload.                  *)

(* The kinds of fact a report bears. *)
Bears(report) == {k \in FactKinds :
                    \/ k = "tests" /\ report.total > 0
                    \/ k = "coverage" /\ report.lines # None
                    \/ k = "performance" /\ report.perf}

(* deriveSubmissionKind, when the publisher supplied none. *)
DerivedKind(report) ==
    IF \E k \in FactKinds : Bears(report) = {k}
    THEN CHOOSE k \in FactKinds : Bears(report) = {k}
    ELSE "combined"

SubmissionKind(p) == IF p.kind # None THEN p.kind ELSE DerivedKind(p.report)

(* deriveSubmissionFactKinds: the kinds the submission is selected for. *)
SubmissionFactKinds(p) ==
    IF SubmissionKind(p) \in FactKinds THEN {SubmissionKind(p)}
    ELSE IF Bears(p.report) # {} THEN Bears(p.report)
    ELSE {"tests"}

RunStatus(report) == IF report.failed > 0 THEN "failed"
                     ELSE IF report.total = 0 THEN "skipped"
                     ELSE "passed"

Summary(report) == [total |-> report.total, failed |-> report.failed,
                    coverage |-> report.lines]

(* buildRunValues: a coverage or performance submission keeps the status    *)
(* and summary of the run row that was read first.                         *)
RunValues(existing, p) ==
    LET kind == SubmissionKind(p)
        preserve == existing # None /\ kind \in {"coverage", "performance"}
        incoming == Summary(p.report)
    IN  [status |-> IF preserve THEN existing.status ELSE RunStatus(p.report),
         summary |->
            IF ~preserve THEN incoming
            ELSE IF kind = "coverage" /\ incoming.coverage # None
            THEN [existing.summary EXCEPT !.coverage = incoming.coverage]
            ELSE existing.summary,
         completedAt |-> p.completedAt]

(* Instance update: an UPDATE sets only the columns whose value differs     *)
(* from the loaded instance; the others keep what the row holds now.       *)
MergeColumns(current, loaded, values) ==
    [status |-> IF values.status # loaded.status THEN values.status ELSE current.status,
     summary |-> IF values.summary # loaded.summary THEN values.summary ELSE current.summary,
     completedAt |-> IF values.completedAt # loaded.completedAt
                     THEN values.completedAt ELSE current.completedAt]

-----------------------------------------------------------------------------
(* Submissions.                                                             *)

Identity(s) == <<s.run, s.kind, s.producer>>
PayloadIdentity(p) == <<p.run, SubmissionKind(p), p.producer>>

(* The primary key of a submission row within its run. *)
SubmissionId(s) == [kind |-> s.kind, producer |-> s.producer, revision |-> s.revision]

RowsOf(identity) == {s \in reportSubmission : Identity(s) = identity}
IsActive(s) == s.status = "active"

(* Math.max(0, ...revisions): 0 is for an identity without rows. *)
IsLatestRevision(n, rows) == /\ n \in {0} \union {s.revision : s \in rows}
                             /\ \A s \in rows : s.revision <= n

(* Faulty variant: revisions count from 0. *)
NewSubmissionFromZero(p, latest) ==
    [run |-> p.run, kind |-> SubmissionKind(p), producer |-> p.producer,
     report |-> p.report, factKinds |-> SubmissionFactKinds(p),
     revision |-> latest, status |-> "active"]

NewSubmission(p, latest) ==
    [run |-> p.run, kind |-> SubmissionKind(p), producer |-> p.producer,
     report |-> p.report, factKinds |-> SubmissionFactKinds(p),
     revision |-> latest + 1, status |-> "active"]

Supersede(s) == [s EXCEPT !.status = "superseded"]

-----------------------------------------------------------------------------
(* Locks.  Both are held until the transaction ends.                        *)

InTransaction == {"find", "load", "write", "lock", "revise", "project", "commit"}
LockedSteps == {"revise", "project", "commit"}

(* The row lock of Run r, taken by the INSERT or the UPDATE. *)
RunRowFree(r) == \A q \in Requests : runRow[q] # None => payload[q].run # r

(* The advisory lock of the project. *)
ProjectLockFree == \A q \in Requests : pc[q] \notin LockedSteps

-----------------------------------------------------------------------------
(* The steps of a request.                                                  *)

Goto(q, label) == pc' = [pc EXCEPT ![q] = label]

(* The handler validates and normalizes the payload and opens the           *)
(* transaction; the catalog rows it upserts are those of every payload.    *)
Receive(q) ==
    /\ pc[q] = "idle"
    /\ \E p \in Payloads : payload' = [payload EXCEPT ![q] = p]
    /\ Goto(q, "find")
    /\ UNCHANGED <<tables, existingRun, loadedRun, runRow, submission,
                   submissionStatus, overviewRow, projectRow>>

(* The row buildRunValues preserves is read before any lock is held. *)
FindExistingRun(q) ==
    /\ pc[q] = "find"
    /\ existingRun' = [existingRun EXCEPT ![q] = run[payload[q].run]]
    /\ Goto(q, "load")
    /\ UNCHANGED <<tables, payload, loadedRun, runRow, submission,
                   submissionStatus, overviewRow, projectRow>>

(* The SELECT of findOrCreate. *)
LoadRun(q) ==
    /\ pc[q] = "load"
    /\ loadedRun' = [loadedRun EXCEPT ![q] = run[payload[q].run]]
    /\ Goto(q, "write")
    /\ UNCHANGED <<tables, payload, existingRun, runRow, submission,
                   submissionStatus, overviewRow, projectRow>>

(* Faulty variant: a concurrent creation of the run is not loaded again. *)
InsertRunOnce(q) ==
    LET r == payload[q].run IN
    /\ pc[q] = "write" /\ loadedRun[q] = None /\ RunRowFree(r) /\ run[r] = None
    /\ runRow' = [runRow EXCEPT ![q] = RunValues(existingRun[q], payload[q])]
    /\ Goto(q, "lock")
    /\ UNCHANGED <<tables, payload, existingRun, loadedRun, submission,
                   submissionStatus, overviewRow, projectRow>>

(* The INSERT of findOrCreate waits for a concurrent INSERT of the same     *)
(* run; when that one has committed, the unique key makes it load the row. *)
InsertRun(q) ==
    LET r == payload[q].run IN
    /\ pc[q] = "write" /\ loadedRun[q] = None /\ RunRowFree(r)
    /\ IF run[r] = None
       THEN /\ runRow' = [runRow EXCEPT ![q] = RunValues(existingRun[q], payload[q])]
            /\ Goto(q, "lock")
            /\ UNCHANGED loadedRun
       ELSE /\ loadedRun' = [loadedRun EXCEPT ![q] = run[r]]
            /\ UNCHANGED <<runRow, pc>>
    /\ UNCHANGED <<tables, payload, existingRun, submission,
                   submissionStatus, overviewRow, projectRow>>

(* record.update(values): metadata.ingestedAt always differs, so there is   *)
(* always an UPDATE, and it waits for the row lock.                        *)
UpdateRun(q) ==
    LET r == payload[q].run IN
    /\ pc[q] = "write" /\ loadedRun[q] # None /\ RunRowFree(r)
    /\ runRow' = [runRow EXCEPT ![q] =
                    MergeColumns(run[r], loadedRun[q],
                                 RunValues(existingRun[q], payload[q]))]
    /\ Goto(q, "lock")
    /\ UNCHANGED <<tables, payload, existingRun, loadedRun, submission,
                   submissionStatus, overviewRow, projectRow>>

(* Faulty variant: only the run is locked. *)
AcquireRunLock(q) ==
    /\ pc[q] = "lock"
    /\ \A o \in Requests : pc[o] \in LockedSteps => payload[o].run # payload[q].run
    /\ Goto(q, "revise")
    /\ UNCHANGED <<tables, locals>>

(* pg_advisory_xact_lock on the project, then on the run. *)
AcquireLocks(q) ==
    /\ pc[q] = "lock"
    /\ ProjectLockFree
    /\ Goto(q, "revise")
    /\ UNCHANGED <<tables, locals>>

(* createSubmissionRevision, first outcome: the same content is active, the *)
(* request is a retry; only the active selection is written again.         *)
Deduplicate(q) ==
    /\ pc[q] = "revise"
    /\ \E s \in RowsOf(PayloadIdentity(payload[q])) :
          /\ IsActive(s) /\ s.report = payload[q].report
          /\ submission' = [submission EXCEPT ![q] = s]
    /\ submissionStatus' = [submissionStatus EXCEPT ![q] = "deduplicated"]
    /\ Goto(q, "commit")
    /\ UNCHANGED <<tables, payload, existingRun, loadedRun, runRow, overviewRow, projectRow>>

(* Faulty variant: a superseded content becomes a new revision. *)
ReviseAnyContent(q) ==
    LET rows == RowsOf(PayloadIdentity(payload[q])) IN
    /\ pc[q] = "revise"
    /\ \A s \in rows : IsActive(s) => s.report # payload[q].report
    /\ \E n \in {0} \union {s.revision : s \in rows} :
          /\ IsLatestRevision(n, rows)
          /\ submission' = [submission EXCEPT ![q] = NewSubmission(payload[q], n)]
    /\ submissionStatus' = [submissionStatus EXCEPT ![q] = "revised"]
    /\ Goto(q, "project")
    /\ UNCHANGED <<tables, payload, existingRun, loadedRun, runRow, overviewRow, projectRow>>

(* Second outcome: a new revision, unless the unique key on identity and    *)
(* content hash, which covers the superseded rows too, refuses the INSERT. *)
Revise(q) ==
    LET rows == RowsOf(PayloadIdentity(payload[q])) IN
    /\ pc[q] = "revise"
    /\ \A s \in rows : s.report # payload[q].report
    /\ \E n \in {0} \union {s.revision : s \in rows} :
          /\ IsLatestRevision(n, rows)
          /\ submission' = [submission EXCEPT ![q] = NewSubmission(payload[q], n)]
    /\ submissionStatus' = [submissionStatus EXCEPT ![q] =
                              IF rows = {} THEN "created" ELSE "revised"]
    /\ Goto(q, "project")
    /\ UNCHANGED <<tables, payload, existingRun, loadedRun, runRow, overviewRow, projectRow>>

(* The end of a transaction releases its locks and forgets its rows. *)
EndTransaction(q) ==
    /\ existingRun' = [existingRun EXCEPT ![q] = None]
    /\ loadedRun' = [loadedRun EXCEPT ![q] = None]
    /\ runRow' = [runRow EXCEPT ![q] = None]
    /\ overviewRow' = [overviewRow EXCEPT ![q] = None]
    /\ projectRow' = [projectRow EXCEPT ![q] = None]

(* Third outcome: the INSERT violates the unique key and the request fails. *)
RejectRepublication(q) ==
    /\ pc[q] = "revise"
    /\ \E s \in RowsOf(PayloadIdentity(payload[q])) : s.report = payload[q].report
    /\ \A s \in RowsOf(PayloadIdentity(payload[q])) :
          s.report = payload[q].report => ~IsActive(s)
    /\ submissionStatus' = [submissionStatus EXCEPT ![q] = "rejected"]
    /\ EndTransaction(q)
    /\ Goto(q, "failed")
    /\ UNCHANGED <<tables, payload, submission>>

-----------------------------------------------------------------------------
(* Projections.                                                             *)

(* The RunOverview row: the test columns follow submissions that bear       *)
(* tests, the coverage column those that bear coverage.                    *)
ProjectedRun(current, p) ==
    LET kinds == SubmissionFactKinds(p)
        old == IF current = None
               THEN [status |-> None, total |-> 0, failed |-> 0, linesPct |-> None]
               ELSE current
    IN  [completedAt |-> p.completedAt,
         status |-> IF "tests" \in kinds THEN RunStatus(p.report) ELSE old.status,
         total |-> IF "tests" \in kinds THEN p.report.total ELSE old.total,
         failed |-> IF "tests" \in kinds THEN p.report.failed ELSE old.failed,
         linesPct |-> IF "coverage" \in kinds THEN p.report.lines ELSE old.linesPct]

(* finiteNumber: Number(null) is 0, and 0 is finite. *)
FiniteNumber(x) == IF x = None THEN 0 ELSE x

Overviewed(overviews) == {r \in Runs : overviews[r] # None}

(* ORDER BY completed_at DESC, run_id DESC. *)
IsLatestRun(r, overviews) ==
    \A o \in Overviewed(overviews) :
        \/ overviews[o].completedAt < overviews[r].completedAt
        \/ overviews[o].completedAt = overviews[r].completedAt /\ o <= r

ProjectedProject(overviews, latest) ==
    [runCount |-> Cardinality(Overviewed(overviews)), latestRun |-> latest,
     status |-> overviews[latest].status, completedAt |-> overviews[latest].completedAt,
     total |-> overviews[latest].total, failed |-> overviews[latest].failed,
     linesPct |-> FiniteNumber(overviews[latest].linesPct)]

(* updateReadProjections *)
UpdateReadProjections(q) ==
    LET r == payload[q].run
        row == ProjectedRun(runOverview[r], payload[q])
        overviews == [runOverview EXCEPT ![r] = row]
    IN
    /\ pc[q] = "project"
    /\ overviewRow' = [overviewRow EXCEPT ![q] = row]
    /\ \E latest \in Overviewed(overviews) :
          /\ IsLatestRun(latest, overviews)
          /\ projectRow' = [projectRow EXCEPT ![q] = ProjectedProject(overviews, latest)]
    /\ Goto(q, "commit")
    /\ UNCHANGED <<tables, payload, existingRun, loadedRun, runRow, submission, submissionStatus>>

-----------------------------------------------------------------------------
(* The end of the transaction.                                              *)

(* selectActiveSubmissions: the pointers of the submission's fact kinds. *)
Selected(pointers, s) ==
    [k \in FactKinds |-> IF k \in s.factKinds THEN SubmissionId(s) ELSE pointers[k]]

(* Faulty variant: the previous revision stays active. *)
AppendedSubmissions(s, status) == reportSubmission \union {s}

WrittenSubmissions(s, status) ==
    IF status = "deduplicated" THEN reportSubmission
    ELSE {IF Identity(o) = Identity(s) /\ IsActive(o) THEN Supersede(o) ELSE o :
             o \in reportSubmission} \union {s}

Commit(q) ==
    LET r == payload[q].run IN
    /\ pc[q] = "commit"
    /\ run' = [run EXCEPT ![r] = runRow[q]]
    /\ reportSubmission' = WrittenSubmissions(submission[q], submissionStatus[q])
    /\ runActiveSubmission' = [runActiveSubmission EXCEPT ![r] = Selected(@, submission[q])]
    /\ IF submissionStatus[q] = "deduplicated"
       THEN UNCHANGED <<runOverview, projectOverview>>
       ELSE /\ runOverview' = [runOverview EXCEPT ![r] = overviewRow[q]]
            /\ projectOverview' = projectRow[q]
    /\ EndTransaction(q)
    /\ Goto(q, "committed")
    /\ UNCHANGED <<payload, submission, submissionStatus>>

(* The project's cached benchmark queries are dropped and the receipt is    *)
(* sent.                                                                   *)
Respond(q) ==
    /\ pc[q] = "committed"
    /\ Goto(q, "done")
    /\ UNCHANGED <<tables, locals>>

(* A database error, a timeout or the death of the process: an open         *)
(* transaction rolls back, a committed one has lost its receipt.           *)
Fail(q) ==
    /\ \/ pc[q] \in InTransaction /\ Goto(q, "failed")
       \/ pc[q] = "committed" /\ Goto(q, "lost")
    /\ EndTransaction(q)
    /\ UNCHANGED <<tables, payload, submission, submissionStatus>>

-----------------------------------------------------------------------------
Init ==
    /\ run = [r \in Runs |-> None]
    /\ reportSubmission = {}
    /\ runActiveSubmission = [r \in Runs |-> [k \in FactKinds |-> None]]
    /\ runOverview = [r \in Runs |-> None]
    /\ projectOverview = None
    /\ pc = [q \in Requests |-> "idle"]
    /\ payload = [q \in Requests |-> None]
    /\ existingRun = [q \in Requests |-> None]
    /\ loadedRun = [q \in Requests |-> None]
    /\ runRow = [q \in Requests |-> None]
    /\ submission = [q \in Requests |-> None]
    /\ submissionStatus = [q \in Requests |-> None]
    /\ overviewRow = [q \in Requests |-> None]
    /\ projectRow = [q \in Requests |-> None]

Persist(q) == \/ FindExistingRun(q) \/ LoadRun(q) \/ InsertRun(q) \/ UpdateRun(q)
              \/ AcquireLocks(q) \/ Deduplicate(q) \/ Revise(q) \/ RejectRepublication(q)
              \/ UpdateReadProjections(q) \/ Commit(q) \/ Respond(q)

(* Every request has been answered. *)
Finished == /\ \A q \in Requests : pc[q] \in {"done", "failed", "lost"}
            /\ UNCHANGED vars

Next == \/ \E q \in Requests : Receive(q) \/ Persist(q) \/ Fail(q)
        \/ Finished

Spec == Init /\ [][Next]_vars

(* The event loop keeps running a handler whose queries return. *)
FairSpec == Spec /\ \A q \in Requests : WF_vars(Persist(q))
-----------------------------------------------------------------------------
(* Types.                                                                   *)

Steps == InTransaction \union {"idle", "committed", "done", "failed", "lost"}

Identities == Runs \X SubmissionKinds \X Producers
SummaryType == [total : Nat, failed : Nat, coverage : Nat \union {None}]
RunType == [status : {"passed", "failed", "skipped"}, summary : SummaryType,
            completedAt : Nat]
SubmissionType == [run : Runs, kind : SubmissionKinds, producer : Producers,
                   report : Reports, factKinds : SUBSET FactKinds,
                   revision : Nat \ {0}, status : {"active", "superseded"}]
SubmissionIds == [kind : SubmissionKinds, producer : Producers, revision : Nat \ {0}]
OverviewType == [completedAt : Nat, status : {"passed", "failed", "skipped", None},
                 total : Nat, failed : Nat, linesPct : Nat \union {None}]
ProjectType == [runCount : Nat, latestRun : Runs,
                status : {"passed", "failed", "skipped", None}, completedAt : Nat,
                total : Nat, failed : Nat, linesPct : Nat]

ASSUME NoneAssumption ==
    /\ None \notin Payloads /\ None \notin Reports /\ None \notin SubmissionKinds
    /\ None \notin Nat
    /\ None \notin RunType /\ None \notin SubmissionType /\ None \notin SubmissionIds
    /\ None \notin OverviewType /\ None \notin ProjectType

(* Every variable holds a value of its type. *)
TypeOK ==
    /\ run \in [Runs -> RunType \union {None}]
    /\ reportSubmission \subseteq SubmissionType
    /\ runActiveSubmission \in [Runs -> [FactKinds -> SubmissionIds \union {None}]]
    /\ runOverview \in [Runs -> OverviewType \union {None}]
    /\ projectOverview \in ProjectType \union {None}
    /\ pc \in [Requests -> Steps]
    /\ payload \in [Requests -> Payloads \union {None}]
    /\ existingRun \in [Requests -> RunType \union {None}]
    /\ loadedRun \in [Requests -> RunType \union {None}]
    /\ runRow \in [Requests -> RunType \union {None}]
    /\ submission \in [Requests -> SubmissionType \union {None}]
    /\ submissionStatus \in
          [Requests -> {"created", "revised", "deduplicated", "rejected", None}]
    /\ overviewRow \in [Requests -> OverviewType \union {None}]
    /\ projectRow \in [Requests -> ProjectType \union {None}]

-----------------------------------------------------------------------------
(* Safety.                                                                  *)

(* The ledger of an identity is a gapless sequence of revisions with        *)
(* distinct contents, of which exactly the newest is active, however many   *)
(* transactions revise it at once (createSubmissionRevision).              *)
LedgerSound ==
    \A s \in reportSubmission :
        /\ \A n \in 1..s.revision : \E o \in RowsOf(Identity(s)) : o.revision = n
        /\ \A o \in RowsOf(Identity(s)) :
              /\ o.revision = s.revision \/ o.report = s.report => o = s
              /\ IsActive(s) => o.revision <= s.revision
        /\ ~IsActive(s) => \E o \in RowsOf(Identity(s)) : o.revision > s.revision

(* A run's pointer for a kind of fact names the newest revision of its      *)
(* identity that bears the kind: a revision that no longer bears it does    *)
(* not take the pointer away, one that does never leaves it behind.        *)
SelectionNewest ==
    \A r \in Runs, k \in FactKinds :
        LET id == runActiveSubmission[r][k] IN
        id # None =>
            \E s \in reportSubmission :
                /\ s.run = r /\ SubmissionId(s) = id /\ k \in s.factKinds
                /\ \A o \in RowsOf(Identity(s)) :
                      k \in o.factKinds => o.revision <= s.revision

(* The project's projection agrees with the runs' projections: the count,   *)
(* the choice of the latest run and every column copied from it, although   *)
(* the transactions that write it belong to different runs.                *)
ProjectOverviewCurrent ==
    /\ projectOverview = None <=> Overviewed(runOverview) = {}
    /\ projectOverview # None =>
          LET r == projectOverview.latestRun IN
          /\ projectOverview.runCount = Cardinality(Overviewed(runOverview))
          /\ r \in Overviewed(runOverview) /\ IsLatestRun(r, runOverview)
          /\ projectOverview.status = runOverview[r].status
          /\ projectOverview.completedAt = runOverview[r].completedAt
          /\ projectOverview.total = runOverview[r].total
          /\ projectOverview.failed = runOverview[r].failed
          /\ runOverview[r].linesPct # None => projectOverview.linesPct = runOverview[r].linesPct

(* The test columns of a run's projection are those of the newest           *)
(* test-bearing revision of one publisher, and they are empty until a       *)
(* submission bears tests: a coverage or performance upload never touches   *)
(* them.                                                                   *)
OverviewFollowsLedger ==
    \A r \in Overviewed(runOverview) :
        LET testing == {s \in reportSubmission : s.run = r /\ "tests" \in s.factKinds}
        IN  IF testing = {} THEN runOverview[r].status = None
            ELSE \E s \in testing :
                   /\ \A o \in testing : Identity(o) = Identity(s) => o.revision <= s.revision
                   /\ runOverview[r].status = RunStatus(s.report)
                   /\ runOverview[r].total = s.report.total
                   /\ runOverview[r].failed = s.report.failed

(* A run, its submissions, its selection and its projection appear          *)
(* together: no crash or refused request leaves a run without its           *)
(* submission, or one kind of fact published without a pointer.            *)
PublishedTogether ==
    \A r \in Runs :
        LET rows == {s \in reportSubmission : s.run = r} IN
        /\ run[r] # None <=> rows # {}
        /\ runOverview[r] # None <=> rows # {}
        /\ \A k \in FactKinds : runActiveSubmission[r][k] # None
                                <=> \E s \in rows : k \in s.factKinds

(* What readers are given of a run is what the ledger holds, in every       *)
(* reachable state: pointers, both projections and the run itself.          *)
ReadModelSound ==
    SelectionNewest /\ ProjectOverviewCurrent /\ OverviewFollowsLedger /\ PublishedTogether

(* A request that the server began to handle is answered: no order of row   *)
(* locks, advisory locks and aborted transactions leaves it waiting.       *)
EveryRequestAnswered ==
    \A q \in Requests :
        pc[q] = "find" ~> pc[q] \in {"done", "failed", "lost"}

-----------------------------------------------------------------------------
(* What the repository's documents say of the service.                      *)

(* "The same identity with different content must either create an explicit *)
(* revision or return a conflict": a well-formed report is not refused by a *)
(* database error.                                                         *)
EveryRevisionAccepted == \A q \in Requests : submissionStatus[q] # "rejected"

(* "relational active pointers preserve concurrent tests/coverage/          *)
(* performance publications", "project/run advisory locks close concurrent  *)
(* creation races": once everything has been answered, the run shows the    *)
(* verdict of the submission selected for tests.                           *)
RunShowsSelectedTests ==
    (\A q \in Requests : pc[q] \in {"idle", "done", "failed", "lost"}) =>
        \A s \in reportSubmission :
            SubmissionId(s) = runActiveSubmission[s.run]["tests"]
                => run[s.run].status = RunStatus(s.report)

-----------------------------------------------------------------------------
(* The ledger this service implements: a submission is its report, a slot   *)
(* is a run and a kind of fact.                                            *)

ActiveReport(identity) ==
    IF \E s \in RowsOf(identity) : IsActive(s)
    THEN (CHOOSE s \in RowsOf(identity) : IsActive(s)).report ELSE None

SelectedContent(r, id) ==
    IF id = None THEN None
    ELSE LET s == CHOOSE s \in reportSubmission : s.run = r /\ SubmissionId(s) = id
         IN  <<Identity(s), s.report>>

Ledger == INSTANCE SubmissionLedger WITH
    Contents <- {p.report : p \in Payloads},
    Slots <- Runs \X FactKinds,
    SlotsOf <- [i \in Identities |-> {i[1]} \X FactKinds],
    current <- [i \in Identities |-> ActiveReport(i)],
    superseded <- [i \in Identities |->
                     {s.report : s \in {o \in RowsOf(i) : ~IsActive(o)}}],
    selected <- [rk \in Runs \X FactKinds |->
                   SelectedContent(rk[1], runActiveSubmission[rk[1]][rk[2]])]

(* Every transaction that commits is one publication in the ledger, every   *)
(* other step leaves the ledger as it is.                                  *)
RefinesLedger == Ledger!Spec
=============================================================================
