---------------------------- MODULE IngestProofs ----------------------------
(***************************************************************************)
(* Proofs about Ingest, for any number of requests, runs, publishers and   *)
(* payloads.                                                               *)
(***************************************************************************)
EXTENDS Ingest, TLAPS, FiniteSetTheorems

(* What a handler has in hand at each step. *)
LocalsOK ==
    \A q \in Requests :
        /\ pc[q] # "idle" => payload[q] \in Payloads
        /\ loadedRun[q] # None => pc[q] # "idle" /\ run[payload[q].run] # None
        /\ pc[q] \in {"lock", "revise", "project", "commit"} => runRow[q] \in RunType
        /\ pc[q] \notin {"lock", "revise", "project", "commit"} => runRow[q] = None
        /\ pc[q] \in {"project", "commit"} => submission[q] \in SubmissionType
        /\ pc[q] = "project" => submissionStatus[q] \in {"created", "revised"}
        /\ pc[q] = "commit" =>
              /\ submissionStatus[q] \in {"created", "revised", "deduplicated"}
              /\ submissionStatus[q] # "deduplicated" =>
                    overviewRow[q] \in OverviewType /\ projectRow[q] \in ProjectType

-----------------------------------------------------------------------------
(* The types of what the helpers compute. *)

LEMMA PayloadType ==
    ASSUME NEW p \in Payloads
    PROVE  /\ p \in PayloadSet /\ p.run \in Runs /\ p.producer \in Producers
           /\ p.report \in Reports /\ p.completedAt \in Nat
           /\ SubmissionKind(p) \in SubmissionKinds
           /\ SubmissionFactKinds(p) \in SUBSET FactKinds
<1>1. /\ p \in PayloadSet /\ p.run \in Runs /\ p.producer \in Producers
      /\ p.report \in Reports /\ p.completedAt \in Nat
      /\ p.kind \in SubmissionKinds \union {None}
  BY PayloadsAssumption DEF PayloadSet
<1>2. DerivedKind(p.report) \in SubmissionKinds
  BY DEF DerivedKind, SubmissionKinds
<1>3. SubmissionKind(p) \in SubmissionKinds
  BY <1>1, <1>2 DEF SubmissionKind
<1>4. SubmissionFactKinds(p) \in SUBSET FactKinds
  BY DEF SubmissionFactKinds, Bears, FactKinds
<1> QED BY <1>1, <1>3, <1>4

LEMMA RunValuesType ==
    ASSUME NEW p \in Payloads, NEW e \in RunType \union {None}
    PROVE  RunValues(e, p) \in RunType
<1>1. p.report \in Reports /\ p.completedAt \in Nat
  BY PayloadType
<1>2. RunStatus(p.report) \in {"passed", "failed", "skipped"}
  BY DEF RunStatus
<1>3. Summary(p.report) \in SummaryType
  BY <1>1 DEF Summary, SummaryType, Reports
<1>4. CASE e = None
  BY <1>1, <1>2, <1>3, <1>4 DEF RunValues, RunType
<1>5. CASE e # None
  <2>1. e \in RunType
    BY <1>5
  <2>2. /\ e.status \in {"passed", "failed", "skipped"} /\ e.summary \in SummaryType
    BY <2>1 DEF RunType
  <2>3. Summary(p.report).coverage # None
        => [e.summary EXCEPT !.coverage = Summary(p.report).coverage] \in SummaryType
    BY <2>2, <1>3 DEF SummaryType
  <2> DEFINE v == RunValues(e, p)
  <2>4. v.status \in {"passed", "failed", "skipped"}
    BY <2>2, <1>2 DEF RunValues
  <2>5. v.summary \in SummaryType
    BY <2>2, <2>3, <1>3 DEF RunValues
  <2>6. v = [status |-> v.status, summary |-> v.summary, completedAt |-> p.completedAt]
    BY DEF RunValues
  <2> HIDE DEF v
  <2>7. v \in RunType
    BY <2>4, <2>5, <2>6, <1>1 DEF RunType
  <2> QED BY <2>7 DEF v
<1> QED BY <1>4, <1>5

LEMMA MergeColumnsType ==
    ASSUME NEW c \in RunType, NEW l \in RunType, NEW v \in RunType
    PROVE  MergeColumns(c, l, v) \in RunType
BY DEF MergeColumns, RunType

LEMMA NewSubmissionType ==
    ASSUME NEW p \in Payloads, NEW n \in Nat
    PROVE  NewSubmission(p, n) \in SubmissionType
BY PayloadType DEF NewSubmission, SubmissionType

LEMMA SupersedeType ==
    ASSUME NEW s \in SubmissionType
    PROVE  Supersede(s) \in SubmissionType
BY DEF Supersede, SubmissionType

LEMMA ProjectedRunType ==
    ASSUME NEW p \in Payloads, NEW e \in OverviewType \union {None}
    PROVE  ProjectedRun(e, p) \in OverviewType
<1>1. /\ p.completedAt \in Nat /\ p.report.total \in Nat /\ p.report.failed \in Nat
      /\ p.report.lines \in Nat \union {None}
  BY PayloadType DEF Reports
<1>2. RunStatus(p.report) \in {"passed", "failed", "skipped", None}
  BY DEF RunStatus
<1> QED BY <1>1, <1>2 DEF ProjectedRun, OverviewType

LEMMA ProjectedProjectType ==
    ASSUME NEW ov \in [Runs -> OverviewType \union {None}], NEW r \in Overviewed(ov)
    PROVE  ProjectedProject(ov, r) \in ProjectType
<1>1. r \in Runs /\ ov[r] \in OverviewType
  BY DEF Overviewed
<1>2. Cardinality(Overviewed(ov)) \in Nat
  <2>1. IsFiniteSet(Overviewed(ov))
    BY RunsAssumption, FS_Subset DEF Overviewed
  <2> QED BY <2>1, FS_CardinalityType
<1>3. FiniteNumber(ov[r].linesPct) \in Nat
  BY <1>1 DEF FiniteNumber, OverviewType
<1> QED BY <1>1, <1>2, <1>3 DEF ProjectedProject, ProjectType, OverviewType
-----------------------------------------------------------------------------
(* Type correctness.  What a handler has in hand is part of the invariant:  *)
(* Commit would otherwise install a row the transaction never wrote.       *)

Typed == TypeOK /\ LocalsOK

LEMMA InitTyped == Init => Typed
BY NoneAssumption DEF Init, Typed, TypeOK, LocalsOK, Steps, InTransaction

LEMMA ReceiveTyped ==
    ASSUME NEW q \in Requests, Typed, Receive(q)
    PROVE  Typed'
BY DEF Receive, Typed, TypeOK, LocalsOK, Steps, InTransaction, tables, Goto

LEMMA FindExistingRunTyped ==
    ASSUME NEW q \in Requests, Typed, FindExistingRun(q)
    PROVE  Typed'
<1>1. payload[q] \in Payloads /\ run[payload[q].run] \in RunType \union {None}
  BY PayloadType DEF FindExistingRun, Typed, TypeOK, LocalsOK
<1> QED
  BY <1>1 DEF FindExistingRun, Typed, TypeOK, LocalsOK, Steps, InTransaction, tables, Goto

LEMMA LoadRunTyped ==
    ASSUME NEW q \in Requests, Typed, LoadRun(q)
    PROVE  Typed'
<1>1. payload[q] \in Payloads /\ run[payload[q].run] \in RunType \union {None}
  BY PayloadType DEF LoadRun, Typed, TypeOK, LocalsOK
<1> QED
  BY <1>1 DEF LoadRun, Typed, TypeOK, LocalsOK, Steps, InTransaction, tables, Goto

LEMMA InsertRunTyped ==
    ASSUME NEW q \in Requests, Typed, InsertRun(q)
    PROVE  Typed'
<1>1. /\ payload[q] \in Payloads /\ run[payload[q].run] \in RunType \union {None}
      /\ existingRun[q] \in RunType \union {None}
  BY PayloadType DEF InsertRun, Typed, TypeOK, LocalsOK
<1>2. RunValues(existingRun[q], payload[q]) \in RunType
  BY <1>1, RunValuesType
<1>3. CASE run[payload[q].run] = None
  <2> DEFINE row == RunValues(existingRun[q], payload[q])
  <2>1. /\ runRow' = [runRow EXCEPT ![q] = row] /\ pc[q] = "write" /\ row \in RunType
        /\ pc' = [pc EXCEPT ![q] = "lock"] /\ loadedRun' = loadedRun
    BY <1>2, <1>3 DEF InsertRun, Goto
  <2> HIDE DEF row
  <2>2. TypeOK'
    BY <2>1 DEF InsertRun, Typed, TypeOK, Steps, InTransaction, tables
  <2>3. LocalsOK'
    BY <2>1 DEF InsertRun, Typed, TypeOK, LocalsOK, tables
  <2> QED BY <2>2, <2>3 DEF Typed
<1>4. CASE run[payload[q].run] # None
  BY <1>1, <1>4
     DEF InsertRun, Typed, TypeOK, LocalsOK, Steps, InTransaction, tables, Goto
<1> QED BY <1>3, <1>4

LEMMA UpdateRunTyped ==
    ASSUME NEW q \in Requests, Typed, UpdateRun(q)
    PROVE  Typed'
<1>1. /\ payload[q] \in Payloads /\ run[payload[q].run] \in RunType
      /\ existingRun[q] \in RunType \union {None} /\ loadedRun[q] \in RunType
  BY PayloadType DEF UpdateRun, Typed, TypeOK, LocalsOK
<1>2. MergeColumns(run[payload[q].run], loadedRun[q],
                   RunValues(existingRun[q], payload[q])) \in RunType
  BY <1>1, RunValuesType, MergeColumnsType
<1> DEFINE row == MergeColumns(run[payload[q].run], loadedRun[q],
                               RunValues(existingRun[q], payload[q]))
<1>3. runRow' = [runRow EXCEPT ![q] = row] /\ pc[q] = "write"
  BY DEF UpdateRun
<1>4. row \in RunType
  BY <1>2
<1> HIDE DEF row
<1>5. TypeOK'
  BY <1>3, <1>4 DEF UpdateRun, Typed, TypeOK, Steps, InTransaction, tables, Goto
<1>6. LocalsOK'
  BY <1>1, <1>3, <1>4 DEF UpdateRun, Typed, TypeOK, LocalsOK, tables, Goto
<1> QED BY <1>5, <1>6 DEF Typed
LEMMA AcquireLocksTyped ==
    ASSUME NEW q \in Requests, Typed, AcquireLocks(q)
    PROVE  Typed'
BY DEF AcquireLocks, Typed, TypeOK, LocalsOK, Steps, InTransaction, tables, locals, Goto

LEMMA DeduplicateTyped ==
    ASSUME NEW q \in Requests, Typed, Deduplicate(q)
    PROVE  Typed'
BY DEF Deduplicate, RowsOf, Typed, TypeOK, LocalsOK, Steps, InTransaction, tables, Goto

LEMMA ReviseTyped ==
    ASSUME NEW q \in Requests, Typed, Revise(q)
    PROVE  Typed'
<1>1. payload[q] \in Payloads
  BY DEF Revise, Typed, LocalsOK
<1>2. PICK n \in {0} \union {s.revision : s \in RowsOf(PayloadIdentity(payload[q]))} :
        submission' = [submission EXCEPT ![q] = NewSubmission(payload[q], n)]
  BY DEF Revise
<1>3. n \in Nat
  BY <1>2 DEF RowsOf, Typed, TypeOK, SubmissionType
<1>4. NewSubmission(payload[q], n) \in SubmissionType
  BY <1>1, <1>3, NewSubmissionType
<1>5. submissionStatus' \in
        [Requests -> {"created", "revised", "deduplicated", "rejected", None}]
  BY DEF Revise, Typed, TypeOK
<1>6. submissionStatus'[q] \in {"created", "revised"}
  BY DEF Revise, Typed, TypeOK
<1>7. \A o \in Requests \ {q} : submissionStatus'[o] = submissionStatus[o]
  BY DEF Revise, Typed, TypeOK
<1>8. TypeOK'
  BY <1>2, <1>4, <1>5 DEF Revise, Typed, TypeOK, Steps, InTransaction, tables, Goto
<1>9. LocalsOK'
  BY <1>1, <1>2, <1>4, <1>6, <1>7
     DEF Revise, Typed, TypeOK, LocalsOK, Steps, InTransaction, tables, Goto
<1> QED BY <1>8, <1>9 DEF Typed

LEMMA RejectRepublicationTyped ==
    ASSUME NEW q \in Requests, Typed, RejectRepublication(q)
    PROVE  Typed'
BY DEF RejectRepublication, EndTransaction, Typed, TypeOK, LocalsOK, Steps,
       InTransaction, tables, Goto

LEMMA UpdateReadProjectionsTyped ==
    ASSUME NEW q \in Requests, Typed, UpdateReadProjections(q)
    PROVE  Typed'
<1> DEFINE r == payload[q].run
           row == ProjectedRun(runOverview[r], payload[q])
           overviews == [runOverview EXCEPT ![r] = row]
<1>1. payload[q] \in Payloads /\ r \in Runs
  BY PayloadType DEF UpdateReadProjections, Typed, LocalsOK
<1>2. row \in OverviewType
  BY <1>1, ProjectedRunType DEF Typed, TypeOK
<1>3. overviews \in [Runs -> OverviewType \union {None}]
  BY <1>1, <1>2 DEF Typed, TypeOK
<1>4. PICK latest \in Overviewed(overviews) :
        projectRow' = [projectRow EXCEPT ![q] = ProjectedProject(overviews, latest)]
  BY DEF UpdateReadProjections
<1>5. ProjectedProject(overviews, latest) \in ProjectType
  BY <1>3, ProjectedProjectType
<1>6. /\ pc[q] = "project" /\ pc' = [pc EXCEPT ![q] = "commit"]
      /\ overviewRow' = [overviewRow EXCEPT ![q] = row]
  BY DEF UpdateReadProjections, Goto
<1> DEFINE projected == ProjectedProject(overviews, latest)
<1>7. projected \in ProjectType /\ projectRow' = [projectRow EXCEPT ![q] = projected]
  BY <1>4, <1>5
<1>8. /\ UNCHANGED <<tables, payload, existingRun, loadedRun, runRow, submission,
                     submissionStatus>>
  BY DEF UpdateReadProjections
<1> HIDE DEF row, overviews, projected
<1>9. TypeOK'
  BY <1>2, <1>6, <1>7, <1>8 DEF Typed, TypeOK, Steps, InTransaction, tables
<1>10. LocalsOK'
  BY <1>1, <1>2, <1>6, <1>7, <1>8 DEF Typed, TypeOK, LocalsOK, tables
<1> QED BY <1>9, <1>10 DEF Typed

LEMMA CommitTyped ==
    ASSUME NEW q \in Requests, Typed, Commit(q)
    PROVE  Typed'
<1>1. /\ payload[q] \in Payloads /\ payload[q].run \in Runs
      /\ runRow[q] \in RunType /\ submission[q] \in SubmissionType
      /\ submissionStatus[q] # "deduplicated" =>
            overviewRow[q] \in OverviewType /\ projectRow[q] \in ProjectType
  BY PayloadType DEF Commit, Typed, LocalsOK
<1>2. runRow[q] # None
  BY <1>1, NoneAssumption
<1>3. WrittenSubmissions(submission[q], submissionStatus[q]) \subseteq SubmissionType
  BY <1>1, SupersedeType DEF WrittenSubmissions, Typed, TypeOK
<1>4. Selected(runActiveSubmission[payload[q].run], submission[q])
        \in [FactKinds -> SubmissionIds \union {None}]
  BY <1>1 DEF Selected, SubmissionId, SubmissionIds, SubmissionType, Typed, TypeOK
<1>5. TypeOK'
  BY <1>1, <1>3, <1>4
     DEF Commit, EndTransaction, Typed, TypeOK, Steps, InTransaction, Goto
<1>6. LocalsOK'
  BY <1>1, <1>2 DEF Commit, EndTransaction, Typed, TypeOK, LocalsOK, Goto
<1> QED BY <1>5, <1>6 DEF Typed

LEMMA RespondTyped ==
    ASSUME NEW q \in Requests, Typed, Respond(q)
    PROVE  Typed'
BY DEF Respond, Typed, TypeOK, LocalsOK, Steps, InTransaction, tables, locals, Goto

LEMMA FailTyped ==
    ASSUME NEW q \in Requests, Typed, Fail(q)
    PROVE  Typed'
BY DEF Fail, EndTransaction, Typed, TypeOK, LocalsOK, Steps, InTransaction, tables, Goto

LEMMA NextTyped == Typed /\ [Next]_vars => Typed'
<1> SUFFICES ASSUME Typed, [Next]_vars PROVE Typed'
  OBVIOUS
<1>1. CASE UNCHANGED vars
  BY <1>1 DEF vars, tables, locals, Typed, TypeOK, LocalsOK
<1>2. CASE Next
  <2>1. CASE Finished
    BY <2>1, <1>1 DEF Finished
  <2>2. ASSUME NEW q \in Requests, Receive(q) \/ Persist(q) \/ Fail(q)
        PROVE  Typed'
    BY <2>2, ReceiveTyped, FindExistingRunTyped, LoadRunTyped, InsertRunTyped,
       UpdateRunTyped, AcquireLocksTyped, DeduplicateTyped, ReviseTyped,
       RejectRepublicationTyped, UpdateReadProjectionsTyped, CommitTyped,
       RespondTyped, FailTyped DEF Persist
  <2> QED BY <1>2, <2>1, <2>2 DEF Next
<1> QED BY <1>1, <1>2

LEMMA AlwaysTyped == Spec => []Typed
BY InitTyped, NextTyped, PTL DEF Spec

(* Every reachable state is well typed: whatever the interleaving, each     *)
(* handler and each table of the ingestion service holds what its next      *)
(* step expects.                                                           *)
THEOREM TypeCorrect == Spec => []TypeOK
<1>1. Typed => TypeOK
  BY DEF Typed
<1> QED BY <1>1, AlwaysTyped, PTL
-----------------------------------------------------------------------------
(* The ledger.  LedgerSound is not inductive by itself: it needs that the   *)
(* row a transaction has written but not committed still fits the committed *)
(* ledger, which in turn holds because the project's lock admits one        *)
(* transaction at a time to the steps between the read and the commit.     *)

MutualExclusion ==
    \A o, q \in Requests : pc[o] \in LockedSteps /\ pc[q] \in LockedSteps => o = q

(* s can be appended to its identity's ledger. *)
Appendable(s) ==
    /\ IsActive(s)
    /\ \A o \in RowsOf(Identity(s)) : o.revision < s.revision /\ o.report # s.report
    /\ \A n \in 1..(s.revision - 1) : \E o \in RowsOf(Identity(s)) : o.revision = n

StagedSound ==
    \A q \in Requests :
        /\ pc[q] = "project" => Appendable(submission[q])
        /\ pc[q] = "commit" /\ submissionStatus[q] # "deduplicated"
              => Appendable(submission[q])

LedgerInv == Typed /\ MutualExclusion /\ StagedSound /\ LedgerSound

LEMMA MutualExclusionStep ==
    Typed /\ MutualExclusion /\ [Next]_vars => MutualExclusion'
<1> SUFFICES ASSUME Typed, MutualExclusion, [Next]_vars PROVE MutualExclusion'
  OBVIOUS
<1> USE DEF Typed, TypeOK, MutualExclusion, LockedSteps
<1>1. CASE UNCHANGED vars
  BY <1>1 DEF vars
<1>2. CASE Finished
  BY <1>2 DEF Finished, vars
<1>3. ASSUME NEW q \in Requests, AcquireLocks(q) PROVE MutualExclusion'
  BY <1>3 DEF AcquireLocks, ProjectLockFree, Goto
<1>4. ASSUME NEW q \in Requests,
             \/ Receive(q) \/ FindExistingRun(q) \/ LoadRun(q) \/ InsertRun(q)
             \/ UpdateRun(q) \/ RejectRepublication(q) \/ Commit(q) \/ Respond(q) \/ Fail(q)
      PROVE  MutualExclusion'
  <2>1. UNCHANGED pc \/ \E l \in Steps \ LockedSteps : pc' = [pc EXCEPT ![q] = l]
    BY <1>4 DEF Receive, FindExistingRun, LoadRun, InsertRun, UpdateRun,
       RejectRepublication, Commit, Respond, Fail, Goto, Steps, InTransaction
  <2> QED BY <2>1
<1>5. ASSUME NEW q \in Requests, Deduplicate(q) \/ Revise(q) \/ UpdateReadProjections(q)
      PROVE  MutualExclusion'
  <2>1. pc[q] \in LockedSteps /\ \E l \in LockedSteps : pc' = [pc EXCEPT ![q] = l]
    BY <1>5 DEF Deduplicate, Revise, UpdateReadProjections, Goto
  <2> QED BY <2>1
<1> QED BY <1>1, <1>2, <1>3, <1>4, <1>5 DEF Next, Persist

(* The submission a transaction is about to append, when it revises. *)
LEMMA ReviseAppendable ==
    ASSUME Typed, LedgerSound, NEW q \in Requests, Revise(q)
    PROVE  Appendable(submission'[q])
<1> DEFINE p == payload[q]
           rows == RowsOf(PayloadIdentity(p))
<1>1. PICK n \in {0} \union {s.revision : s \in rows} :
        /\ \A s \in rows : s.revision <= n
        /\ submission' = [submission EXCEPT ![q] = NewSubmission(p, n)]
  BY DEF Revise, IsLatestRevision
<1> DEFINE new == NewSubmission(p, n)
<1>2. submission'[q] = new
  BY <1>1 DEF Typed, TypeOK
<1>3. /\ Identity(new) = PayloadIdentity(p) /\ IsActive(new)
      /\ new.revision = n + 1 /\ new.report = p.report
  BY DEF NewSubmission, Identity, PayloadIdentity, IsActive
<1>4. /\ \A s \in rows : s.report # p.report
      /\ \A s \in rows : s \in SubmissionType /\ s \in reportSubmission
                         /\ Identity(s) = PayloadIdentity(p)
  BY DEF Revise, RowsOf, Typed, TypeOK
<1>5. n \in Nat /\ \A s \in rows : s.revision \in Nat \ {0}
  BY <1>1, <1>4 DEF SubmissionType
<1>6. ASSUME NEW m \in 1..n PROVE \E o \in rows : o.revision = m
  <2>1. PICK s \in rows : s.revision = n
    BY <1>1, <1>5, <1>6
  <2> QED BY <2>1, <1>4, <1>5, <1>6 DEF LedgerSound
<1> HIDE DEF rows, new
<1>7. /\ \A o \in rows : o.revision < new.revision /\ o.report # new.report
      /\ \A m \in 1..(new.revision - 1) : \E o \in rows : o.revision = m
  BY <1>1, <1>3, <1>4, <1>5, <1>6
<1> QED BY <1>2, <1>3, <1>7 DEF Appendable, rows

(* Appending a fitting row keeps the ledger sound. *)
LEMMA AppendSound ==
    ASSUME Typed, LedgerSound, NEW s \in SubmissionType, Appendable(s),
           reportSubmission' = WrittenSubmissions(s, "created")
    PROVE  LedgerSound'
<1> DEFINE I == Identity(s)
           img(o) == IF IsActive(o) THEN Supersede(o) ELSE o
<1>1. \A o \in reportSubmission : o \in SubmissionType
  BY DEF Typed, TypeOK
<1>2. ASSUME NEW o \in SubmissionType
      PROVE  /\ Identity(img(o)) = Identity(o) /\ img(o).revision = o.revision
             /\ img(o).report = o.report /\ ~IsActive(img(o))
  BY <1>2 DEF Supersede, Identity, IsActive, SubmissionType
<1>3. reportSubmission' = {IF Identity(o) = I THEN img(o) ELSE o : o \in reportSubmission}
                            \union {s}
  BY DEF WrittenSubmissions
<1> HIDE DEF img, I
<1>4. ASSUME NEW i, i # I PROVE RowsOf(i)' = RowsOf(i)
  BY <1>1, <1>2, <1>3, <1>4 DEF RowsOf, I, Identity
<1>5. RowsOf(I)' = {img(o) : o \in RowsOf(I)} \union {s}
  BY <1>1, <1>2, <1>3 DEF RowsOf, I, Identity
<1>6. /\ \A o \in RowsOf(I) : o.revision < s.revision /\ o.report # s.report
      /\ \A n \in 1..(s.revision - 1) : \E o \in RowsOf(I) : o.revision = n
      /\ IsActive(s) /\ Identity(s) = I /\ s.revision \in Nat \ {0}
  BY DEF Appendable, I, SubmissionType
<1>7. \A o \in RowsOf(I) : o \in reportSubmission /\ o \in SubmissionType /\ Identity(o) = I
                         /\ o.revision \in Nat \ {0}
  BY <1>1 DEF RowsOf, SubmissionType
<1>8. \A o \in RowsOf(I) :
        /\ \A n \in 1..o.revision : \E y \in RowsOf(I) : y.revision = n
        /\ \A y \in RowsOf(I) : y.revision = o.revision \/ y.report = o.report => y = o
  BY <1>7 DEF LedgerSound
<1>9. SUFFICES ASSUME NEW x \in reportSubmission'
      PROVE  /\ \A n \in 1..x.revision : \E o \in RowsOf(Identity(x))' : o.revision = n
             /\ \A o \in RowsOf(Identity(x))' :
                   /\ o.revision = x.revision \/ o.report = x.report => o = x
                   /\ IsActive(x) => o.revision <= x.revision
             /\ ~IsActive(x) => \E o \in RowsOf(Identity(x))' : o.revision > x.revision
  BY DEF LedgerSound, RowsOf, IsActive, Identity
<1>10. CASE Identity(x) # I
  <2>1. x \in reportSubmission
    BY <1>1, <1>2, <1>3, <1>6, <1>10
  <2> QED BY <2>1, <1>4, <1>10 DEF LedgerSound
<1>11. CASE Identity(x) = I
  <2>1. x \in RowsOf(I)'
    BY <1>11 DEF RowsOf, Identity
  <2>2. CASE x = s
    BY <2>2, <1>2, <1>5, <1>6, <1>7, <1>11
  <2>3. CASE x # s
    <3>1. PICK o \in RowsOf(I) : x = img(o)
      BY <2>1, <2>3, <1>5
    <3>2. x.revision = o.revision /\ x.report = o.report /\ ~IsActive(x)
      BY <3>1, <1>2, <1>7
    <3>3. \A n \in 1..x.revision : \E y \in RowsOf(I)' : y.revision = n
      <4>1. TAKE n \in 1..x.revision
      <4>2. PICK y \in RowsOf(I) : y.revision = n
        BY <3>2, <1>8
      <4>3. img(y) \in RowsOf(I)' /\ img(y).revision = n
        BY <4>2, <1>2, <1>5, <1>7
      <4> QED BY <4>3
    <3>4. \A y \in RowsOf(I)' : y.revision = x.revision \/ y.report = x.report => y = x
      BY <3>1, <3>2, <1>2, <1>5, <1>6, <1>7, <1>8
    <3>5. s \in RowsOf(I)' /\ s.revision > x.revision
      BY <3>1, <3>2, <1>5, <1>6, <1>7
    <3> QED BY <3>2, <3>3, <3>4, <3>5, <1>11
  <2> QED BY <2>2, <2>3
<1> QED BY <1>10, <1>11

LEMMA StagedSoundStep ==
    LedgerInv /\ [Next]_vars => StagedSound'
<1> SUFFICES ASSUME LedgerInv, [Next]_vars PROVE StagedSound'
  OBVIOUS
<1> USE DEF LedgerInv
<1>1. CASE UNCHANGED vars
  BY <1>1 DEF vars, tables, locals, StagedSound, Appendable, RowsOf
<1>2. CASE Finished
  BY <1>1, <1>2 DEF Finished
<1>3. ASSUME NEW q \in Requests, Revise(q) PROVE StagedSound'
  <2>1. Appendable(submission'[q])
    BY <1>3, ReviseAppendable
  <2>2. /\ pc[q] = "revise" /\ UNCHANGED reportSubmission
        /\ \A o \in Requests \ {q} : pc'[o] = pc[o] /\ pc[o] \notin LockedSteps
    BY <1>3 DEF Revise, Goto, tables, MutualExclusion, LockedSteps, Typed, TypeOK
  <2>3. Appendable(submission[q])'
    BY <2>1, <2>2 DEF Appendable, RowsOf
  <2> QED BY <2>2, <2>3 DEF StagedSound, LockedSteps
<1>4. ASSUME NEW q \in Requests, UpdateReadProjections(q) PROVE StagedSound'
  <2>1. /\ pc[q] = "project" /\ UNCHANGED <<reportSubmission, submission, submissionStatus>>
        /\ \A o \in Requests \ {q} : pc'[o] = pc[o]
    BY <1>4 DEF UpdateReadProjections, Goto, tables, Typed, TypeOK
  <2> QED BY <2>1 DEF StagedSound, Appendable, RowsOf
<1>5. ASSUME NEW q \in Requests, Commit(q) PROVE StagedSound'
  <2>1. /\ \A o \in Requests \ {q} : pc'[o] = pc[o] /\ pc[o] \notin LockedSteps
        /\ pc'[q] = "committed"
    BY <1>5 DEF Commit, Goto, MutualExclusion, LockedSteps, Typed, TypeOK
  <2> QED BY <2>1 DEF StagedSound, LockedSteps
<1>6. ASSUME NEW q \in Requests, Deduplicate(q) PROVE StagedSound'
  <2>1. /\ pc'[q] = "commit" /\ submissionStatus'[q] = "deduplicated"
        /\ UNCHANGED reportSubmission
        /\ \A o \in Requests \ {q} : /\ pc'[o] = pc[o] /\ submission'[o] = submission[o]
                                     /\ submissionStatus'[o] = submissionStatus[o]
    BY <1>6 DEF Deduplicate, Goto, tables, Typed, TypeOK
  <2> QED BY <2>1 DEF StagedSound, Appendable, RowsOf
<1>7. ASSUME NEW q \in Requests,
             \/ Receive(q) \/ FindExistingRun(q) \/ LoadRun(q) \/ InsertRun(q)
             \/ UpdateRun(q) \/ AcquireLocks(q) \/ RejectRepublication(q)
             \/ Respond(q) \/ Fail(q)
      PROVE  StagedSound'
  <2>1. /\ UNCHANGED <<reportSubmission, submission>>
        /\ pc'[q] \notin {"project", "commit"}
        /\ \A o \in Requests \ {q} : /\ pc'[o] = pc[o]
                                     /\ submissionStatus'[o] = submissionStatus[o]
    BY <1>7 DEF Receive, FindExistingRun, LoadRun, InsertRun, UpdateRun, AcquireLocks,
       RejectRepublication, Respond, Fail, Goto, tables, locals, Typed, TypeOK
  <2> QED BY <2>1 DEF StagedSound, Appendable, RowsOf
<1> QED BY <1>1, <1>2, <1>3, <1>4, <1>5, <1>6, <1>7 DEF Next, Persist

LEMMA LedgerSoundStep ==
    LedgerInv /\ [Next]_vars => LedgerSound'
<1> SUFFICES ASSUME LedgerInv, [Next]_vars PROVE LedgerSound'
  OBVIOUS
<1>1. CASE UNCHANGED reportSubmission
  BY <1>1 DEF LedgerInv, LedgerSound, RowsOf
<1>2. ASSUME NEW q \in Requests, Commit(q) PROVE LedgerSound'
  <2>1. CASE submissionStatus[q] = "deduplicated"
    BY <1>1, <1>2, <2>1 DEF Commit, WrittenSubmissions
  <2>2. CASE submissionStatus[q] # "deduplicated"
    <3>1. Appendable(submission[q]) /\ submission[q] \in SubmissionType
      BY <1>2, <2>2 DEF Commit, LedgerInv, StagedSound, Typed, LocalsOK
    <3>2. reportSubmission' = WrittenSubmissions(submission[q], "created")
      BY <1>2, <2>2 DEF Commit, WrittenSubmissions
    <3> QED BY <3>1, <3>2, AppendSound DEF LedgerInv
  <2> QED BY <2>1, <2>2
<1>3. ASSUME NEW q \in Requests,
             \/ Receive(q) \/ FindExistingRun(q) \/ LoadRun(q) \/ InsertRun(q)
             \/ UpdateRun(q) \/ AcquireLocks(q) \/ Deduplicate(q) \/ Revise(q)
             \/ RejectRepublication(q) \/ UpdateReadProjections(q) \/ Respond(q) \/ Fail(q)
      PROVE  UNCHANGED reportSubmission
  BY <1>3 DEF Receive, FindExistingRun, LoadRun, InsertRun, UpdateRun, AcquireLocks,
     Deduplicate, Revise, RejectRepublication, UpdateReadProjections, Respond, Fail, tables
<1> QED BY <1>1, <1>2, <1>3 DEF Next, Persist, Finished, vars, tables

(* Whatever the requests, runs, publishers and payloads, and whatever their *)
(* interleaving, every identity's ledger is gapless, free of repeated       *)
(* contents, and has its newest revision as the only active one.           *)
THEOREM LedgerCorrect == Spec => []LedgerSound
<1>1. Init => LedgerInv
  BY InitTyped DEF Init, LedgerInv, MutualExclusion, StagedSound, LedgerSound, LockedSteps
<1>2. LedgerInv /\ [Next]_vars => LedgerInv'
  BY NextTyped, MutualExclusionStep, StagedSoundStep, LedgerSoundStep DEF LedgerInv
<1>3. LedgerInv => LedgerSound
  BY DEF LedgerInv
<1> QED BY <1>1, <1>2, <1>3, PTL DEF Spec
-----------------------------------------------------------------------------
(* The read model.  ReadModelSound needs the ledger, and that what a        *)
(* transaction has staged still fits tables that it read before: the rows   *)
(* of its submission and of both projections are written under the lock of  *)
(* the project, and only the transaction that holds it commits.             *)

(* The submission in hand is new, and not the active one found again. *)
Appends(q) == pc[q] = "project" \/ (pc[q] = "commit" /\ submissionStatus[q] # "deduplicated")
FoundAgain(q) == pc[q] = "commit" /\ submissionStatus[q] = "deduplicated"

OverviewsWith(q) == [runOverview EXCEPT ![payload[q].run] = overviewRow[q]]

(* What request q has staged is of its payload, and fits the tables. *)
StagedRow(q) ==
    /\ Appends(q) \/ FoundAgain(q) => /\ submission[q].run = payload[q].run
                                      /\ submission[q].report = payload[q].report
    /\ Appends(q) => submission[q].factKinds = SubmissionFactKinds(payload[q])
    /\ FoundAgain(q) => submission[q] \in reportSubmission /\ IsActive(submission[q])
    /\ pc[q] = "commit" /\ Appends(q) =>
          /\ overviewRow[q] = ProjectedRun(runOverview[payload[q].run], payload[q])
          /\ \E latest \in Overviewed(OverviewsWith(q)) :
                /\ IsLatestRun(latest, OverviewsWith(q))
                /\ projectRow[q] = ProjectedProject(OverviewsWith(q), latest)

StagedRows == \A q \in Requests : StagedRow(q)

(* What Commit does to the pointers of run r. *)
Selects(s, r) ==
    runActiveSubmission' = [runActiveSubmission EXCEPT ![r] = Selected(@, s)]

ReadInv == LedgerInv /\ StagedRows /\ ReadModelSound

(* x says of its revision what o says. *)
SameFacts(o, x) ==
    /\ x.run = o.run /\ x.kind = o.kind /\ x.producer = o.producer
    /\ x.report = o.report /\ x.factKinds = o.factKinds /\ x.revision = o.revision

(* Appending a submission leaves the facts of the others as they are. *)
LEMMA AppendKeepsFacts ==
    ASSUME Typed, NEW s \in SubmissionType,
           reportSubmission' = WrittenSubmissions(s, "created")
    PROVE  /\ s \in reportSubmission'
           /\ \A o \in reportSubmission : \E x \in reportSubmission' : SameFacts(o, x)
           /\ \A x \in reportSubmission' :
                 x = s \/ \E o \in reportSubmission : SameFacts(o, x)
<1> DEFINE img(o) == IF Identity(o) = Identity(s) /\ IsActive(o) THEN Supersede(o) ELSE o
<1>1. ASSUME NEW o \in reportSubmission PROVE SameFacts(o, img(o))
  <2>1. o \in SubmissionType
    BY DEF Typed, TypeOK
  <2> QED BY <2>1 DEF SameFacts, Supersede, SubmissionType
<1>2. reportSubmission' = {img(o) : o \in reportSubmission} \union {s}
  BY DEF WrittenSubmissions
<1> HIDE DEF img
<1> QED BY <1>1, <1>2

(* What Commit does to the tables, for a submission that is new. *)
LEMMA CommitOfNew ==
    ASSUME LedgerInv, StagedRows, NEW q \in Requests, Commit(q), Appends(q)
    PROVE  /\ Appendable(submission[q]) /\ submission[q] \in SubmissionType
           /\ reportSubmission' = WrittenSubmissions(submission[q], "created")
           /\ payload[q] \in Payloads /\ payload[q].run \in Runs
           /\ runRow[q] \in RunType
           /\ overviewRow[q] \in OverviewType /\ projectRow[q] \in ProjectType
           /\ run' = [run EXCEPT ![payload[q].run] = runRow[q]]
           /\ Selects(submission[q], payload[q].run)
           /\ runOverview' = OverviewsWith(q) /\ projectOverview' = projectRow[q]
<1>1. pc[q] = "commit" /\ submissionStatus[q] # "deduplicated"
  BY DEF Commit, Appends
<1>2. Appendable(submission[q])
  BY <1>1 DEF LedgerInv, StagedSound
<1>3. /\ submission[q] \in SubmissionType /\ payload[q] \in Payloads /\ runRow[q] \in RunType
      /\ overviewRow[q] \in OverviewType /\ projectRow[q] \in ProjectType
  BY <1>1 DEF LedgerInv, Typed, LocalsOK
<1>4. payload[q].run \in Runs
  BY <1>3, PayloadType
<1>5. reportSubmission' = WrittenSubmissions(submission[q], "created")
  BY <1>1 DEF Commit, WrittenSubmissions
<1> QED BY <1>1, <1>2, <1>3, <1>4, <1>5 DEF Commit, OverviewsWith, Selects

(* And for one that was found again. *)
LEMMA CommitOfFound ==
    ASSUME LedgerInv, StagedRows, NEW q \in Requests, Commit(q), ~Appends(q)
    PROVE  /\ submission[q] \in reportSubmission /\ submission[q] \in SubmissionType
           /\ IsActive(submission[q]) /\ submission[q].run = payload[q].run
           /\ payload[q].run \in Runs /\ runRow[q] \in RunType
           /\ UNCHANGED <<reportSubmission, runOverview, projectOverview>>
           /\ run' = [run EXCEPT ![payload[q].run] = runRow[q]]
           /\ Selects(submission[q], payload[q].run)
<1>1. pc[q] = "commit" /\ submissionStatus[q] = "deduplicated" /\ FoundAgain(q)
  BY DEF Commit, Appends, FoundAgain
<1>2. submission[q] \in SubmissionType /\ payload[q] \in Payloads /\ runRow[q] \in RunType
  BY <1>1 DEF LedgerInv, Typed, LocalsOK
<1>3. payload[q].run \in Runs
  BY <1>2, PayloadType
<1>4. /\ submission[q] \in reportSubmission /\ IsActive(submission[q])
      /\ submission[q].run = payload[q].run
  BY <1>1 DEF StagedRows, StagedRow
<1> QED BY <1>1, <1>2, <1>3, <1>4 DEF Commit, WrittenSubmissions, Selects

(* The pointers after Commit. *)
LEMMA SelectedPointers ==
    ASSUME Typed, NEW s \in SubmissionType, NEW r \in Runs,
           Selects(s, r), NEW r2 \in Runs, NEW k \in FactKinds
    PROVE  runActiveSubmission'[r2][k] = IF r2 = r /\ k \in s.factKinds THEN SubmissionId(s)
                                         ELSE runActiveSubmission[r2][k]
BY DEF Typed, TypeOK, Selected, Selects

-----------------------------------------------------------------------------
LEMMA SelectionOfNew ==
    ASSUME ReadInv, NEW q \in Requests, Commit(q), Appends(q)
    PROVE  SelectionNewest'
<1> DEFINE s == submission[q]
           r == payload[q].run
<1>1. /\ Appendable(s) /\ s \in SubmissionType /\ r \in Runs /\ s.run = r
      /\ reportSubmission' = WrittenSubmissions(s, "created")
      /\ Selects(s, r)
  BY CommitOfNew DEF ReadInv, StagedRows, StagedRow
<1>2. /\ s \in reportSubmission'
      /\ \A o \in reportSubmission : \E x \in reportSubmission' : SameFacts(o, x)
      /\ \A x \in reportSubmission' : x = s \/ \E o \in reportSubmission : SameFacts(o, x)
  BY <1>1, AppendKeepsFacts DEF ReadInv, LedgerInv
<1> SUFFICES ASSUME NEW r2 \in Runs, NEW k \in FactKinds,
                    runActiveSubmission'[r2][k] # None
             PROVE  \E x \in reportSubmission' :
                       /\ x.run = r2 /\ SubmissionId(x) = runActiveSubmission'[r2][k]
                       /\ k \in x.factKinds
                       /\ \A o \in reportSubmission' :
                             Identity(o) = Identity(x) /\ k \in o.factKinds
                                => o.revision <= x.revision
  BY DEF SelectionNewest, RowsOf, SubmissionId, Identity
<1>3. \A o \in reportSubmission : o \in SubmissionType /\ o.revision \in Nat
  BY DEF ReadInv, LedgerInv, Typed, TypeOK, SubmissionType
<1>4. s.revision \in Nat
  BY <1>1 DEF SubmissionType
<1>5. CASE r2 = r /\ k \in s.factKinds
  <2>1. runActiveSubmission'[r2][k] = SubmissionId(s)
    BY <1>1, <1>5, SelectedPointers DEF ReadInv, LedgerInv
  <2>2. ASSUME NEW o \in reportSubmission', Identity(o) = Identity(s)
        PROVE  o.revision <= s.revision
    <3>1. CASE o = s
      BY <3>1, <1>4
    <3>2. CASE o # s
      <4>1. PICK y \in reportSubmission : SameFacts(y, o)
        BY <3>2, <1>2
      <4>2. y \in RowsOf(Identity(s))
        BY <4>1, <2>2 DEF RowsOf, Identity, SameFacts
      <4> QED BY <4>1, <4>2, <1>1, <1>3, <1>4 DEF Appendable, SameFacts
    <3> QED BY <3>1, <3>2
  <2> QED BY <2>1, <2>2, <1>1, <1>2, <1>5
<1>6. CASE ~(r2 = r /\ k \in s.factKinds)
  <2>1. runActiveSubmission'[r2][k] = runActiveSubmission[r2][k]
    BY <1>1, <1>6, SelectedPointers DEF ReadInv, LedgerInv
  <2>2. PICK x \in reportSubmission :
          /\ x.run = r2 /\ SubmissionId(x) = runActiveSubmission[r2][k] /\ k \in x.factKinds
          /\ \A o \in RowsOf(Identity(x)) : k \in o.factKinds => o.revision <= x.revision
    BY <2>1 DEF ReadInv, ReadModelSound, SelectionNewest
  <2>3. PICK y \in reportSubmission' : SameFacts(x, y)
    BY <1>2
  <2>4. y.run = r2 /\ SubmissionId(y) = runActiveSubmission'[r2][k] /\ k \in y.factKinds
    BY <2>1, <2>2, <2>3 DEF SameFacts, SubmissionId
  <2>5. ASSUME NEW o \in reportSubmission', Identity(o) = Identity(y), k \in o.factKinds
        PROVE  o.revision <= y.revision
    <3>1. o # s
      BY <2>4, <2>5, <1>1, <1>6 DEF Identity
    <3>2. PICK z \in reportSubmission : SameFacts(z, o)
      BY <3>1, <1>2
    <3>3. z \in RowsOf(Identity(x)) /\ k \in z.factKinds
      BY <3>2, <2>3, <2>5 DEF SameFacts, RowsOf, Identity
    <3> QED BY <3>2, <3>3, <2>2, <2>3 DEF SameFacts
  <2> QED BY <2>4, <2>5
<1> QED BY <1>5, <1>6

LEMMA SelectionOfFound ==
    ASSUME ReadInv, NEW q \in Requests, Commit(q), ~Appends(q)
    PROVE  SelectionNewest'
<1> DEFINE s == submission[q]
           r == payload[q].run
<1>1. /\ s \in reportSubmission /\ s \in SubmissionType /\ IsActive(s) /\ s.run = r /\ r \in Runs
      /\ reportSubmission' = reportSubmission
      /\ Selects(s, r)
  BY CommitOfFound DEF ReadInv
<1> SUFFICES ASSUME NEW r2 \in Runs, NEW k \in FactKinds,
                    runActiveSubmission'[r2][k] # None
             PROVE  \E x \in reportSubmission :
                       /\ x.run = r2 /\ SubmissionId(x) = runActiveSubmission'[r2][k]
                       /\ k \in x.factKinds
                       /\ \A o \in RowsOf(Identity(x)) :
                             k \in o.factKinds => o.revision <= x.revision
  BY <1>1 DEF SelectionNewest, RowsOf, SubmissionId, Identity
<1>2. CASE r2 = r /\ k \in s.factKinds
  <2>1. runActiveSubmission'[r2][k] = SubmissionId(s)
    BY <1>1, <1>2, SelectedPointers DEF ReadInv, LedgerInv
  <2>2. \A o \in RowsOf(Identity(s)) : o.revision <= s.revision
    BY <1>1 DEF ReadInv, LedgerInv, LedgerSound
  <2> QED BY <2>1, <2>2, <1>1, <1>2
<1>3. CASE ~(r2 = r /\ k \in s.factKinds)
  <2>1. runActiveSubmission'[r2][k] = runActiveSubmission[r2][k]
    BY <1>1, <1>3, SelectedPointers DEF ReadInv, LedgerInv
  <2> QED BY <2>1 DEF ReadInv, ReadModelSound, SelectionNewest
<1> QED BY <1>2, <1>3

-----------------------------------------------------------------------------
LEMMA PublishedOfNew ==
    ASSUME ReadInv, NEW q \in Requests, Commit(q), Appends(q)
    PROVE  PublishedTogether'
<1> DEFINE s == submission[q]
           r == payload[q].run
<1>1. /\ s \in SubmissionType /\ r \in Runs /\ s.run = r
      /\ reportSubmission' = WrittenSubmissions(s, "created")
      /\ Selects(s, r)
  BY CommitOfNew DEF ReadInv, StagedRows, StagedRow
<1>2. /\ s \in reportSubmission'
      /\ \A o \in reportSubmission : \E x \in reportSubmission' : SameFacts(o, x)
      /\ \A x \in reportSubmission' : x = s \/ \E o \in reportSubmission : SameFacts(o, x)
  BY <1>1, AppendKeepsFacts DEF ReadInv, LedgerInv
<1>3. /\ run' = [run EXCEPT ![r] = runRow[q]] /\ runRow[q] # None
      /\ runOverview' = [runOverview EXCEPT ![r] = overviewRow[q]] /\ overviewRow[q] # None
  BY CommitOfNew, NoneAssumption DEF ReadInv, OverviewsWith
<1>4. SubmissionId(s) # None
  BY <1>1, NoneAssumption DEF SubmissionId, SubmissionIds, SubmissionType
<1> SUFFICES ASSUME NEW r2 \in Runs
             PROVE  /\ run'[r2] # None <=> \E x \in reportSubmission' : x.run = r2
                    /\ runOverview'[r2] # None <=> \E x \in reportSubmission' : x.run = r2
                    /\ \A k \in FactKinds :
                          runActiveSubmission'[r2][k] # None
                            <=> \E x \in reportSubmission' : x.run = r2 /\ k \in x.factKinds
  BY DEF PublishedTogether
<1>5. /\ run[r2] # None <=> \E x \in reportSubmission : x.run = r2
      /\ runOverview[r2] # None <=> \E x \in reportSubmission : x.run = r2
      /\ \A k \in FactKinds :
            runActiveSubmission[r2][k] # None
              <=> \E x \in reportSubmission : x.run = r2 /\ k \in x.factKinds
  BY DEF ReadInv, ReadModelSound, PublishedTogether
<1>6. /\ run'[r2] = IF r2 = r THEN runRow[q] ELSE run[r2]
      /\ runOverview'[r2] = IF r2 = r THEN overviewRow[q] ELSE runOverview[r2]
  BY <1>3 DEF ReadInv, LedgerInv, Typed, TypeOK
<1>7. (\E x \in reportSubmission' : x.run = r2)
        <=> r2 = r \/ \E x \in reportSubmission : x.run = r2
  BY <1>1, <1>2 DEF SameFacts
<1>8. ASSUME NEW k \in FactKinds
      PROVE  runActiveSubmission'[r2][k] # None
               <=> \E x \in reportSubmission' : x.run = r2 /\ k \in x.factKinds
  <2>1. (\E x \in reportSubmission' : x.run = r2 /\ k \in x.factKinds)
          <=> \/ r2 = r /\ k \in s.factKinds
              \/ \E x \in reportSubmission : x.run = r2 /\ k \in x.factKinds
    BY <1>1, <1>2 DEF SameFacts
  <2>2. runActiveSubmission'[r2][k] = IF r2 = r /\ k \in s.factKinds THEN SubmissionId(s)
                                      ELSE runActiveSubmission[r2][k]
    BY <1>1, SelectedPointers DEF ReadInv, LedgerInv
  <2> QED BY <2>1, <2>2, <1>4, <1>5
<1> QED BY <1>3, <1>5, <1>6, <1>7, <1>8

LEMMA PublishedOfFound ==
    ASSUME ReadInv, NEW q \in Requests, Commit(q), ~Appends(q)
    PROVE  PublishedTogether'
<1> DEFINE s == submission[q]
           r == payload[q].run
<1>1. /\ s \in reportSubmission /\ s \in SubmissionType /\ s.run = r /\ r \in Runs
      /\ UNCHANGED <<reportSubmission, runOverview>>
      /\ Selects(s, r) /\ run' = [run EXCEPT ![r] = runRow[q]] /\ runRow[q] # None
  BY CommitOfFound, NoneAssumption DEF ReadInv
<1>2. SubmissionId(s) # None
  BY <1>1, NoneAssumption DEF SubmissionId, SubmissionIds, SubmissionType
<1> SUFFICES ASSUME NEW r2 \in Runs
             PROVE  /\ run'[r2] # None <=> \E x \in reportSubmission : x.run = r2
                    /\ runOverview[r2] # None <=> \E x \in reportSubmission : x.run = r2
                    /\ \A k \in FactKinds :
                          runActiveSubmission'[r2][k] # None
                            <=> \E x \in reportSubmission : x.run = r2 /\ k \in x.factKinds
  BY <1>1 DEF PublishedTogether
<1>3. /\ run[r2] # None <=> \E x \in reportSubmission : x.run = r2
      /\ runOverview[r2] # None <=> \E x \in reportSubmission : x.run = r2
      /\ \A k \in FactKinds :
            runActiveSubmission[r2][k] # None
              <=> \E x \in reportSubmission : x.run = r2 /\ k \in x.factKinds
  BY DEF ReadInv, ReadModelSound, PublishedTogether
<1>4. run'[r2] = IF r2 = r THEN runRow[q] ELSE run[r2]
  BY <1>1 DEF ReadInv, LedgerInv, Typed, TypeOK
<1>5. \A k \in FactKinds :
         runActiveSubmission'[r2][k] = IF r2 = r /\ k \in s.factKinds THEN SubmissionId(s)
                                       ELSE runActiveSubmission[r2][k]
  BY <1>1, SelectedPointers DEF ReadInv, LedgerInv
<1> QED BY <1>1, <1>2, <1>3, <1>4, <1>5

LEMMA ProjectOfNew ==
    ASSUME ReadInv, NEW q \in Requests, Commit(q), Appends(q)
    PROVE  ProjectOverviewCurrent'
<1> DEFINE ov == runOverview'
<1>1. /\ runOverview' = OverviewsWith(q) /\ projectOverview' = projectRow[q]
      /\ projectRow[q] # None /\ pc[q] = "commit"
  BY CommitOfNew, NoneAssumption DEF ReadInv, Commit
<1>2. PICK latest \in Overviewed(ov) :
        IsLatestRun(latest, ov) /\ projectOverview' = ProjectedProject(ov, latest)
  BY <1>1 DEF ReadInv, StagedRows, StagedRow
<1>3. /\ projectOverview'.latestRun = latest
      /\ projectOverview'.runCount = Cardinality(Overviewed(ov))
      /\ projectOverview'.status = ov[latest].status
      /\ projectOverview'.completedAt = ov[latest].completedAt
      /\ projectOverview'.total = ov[latest].total
      /\ projectOverview'.failed = ov[latest].failed
      /\ ov[latest].linesPct # None => projectOverview'.linesPct = ov[latest].linesPct
  BY <1>2 DEF ProjectedProject, FiniteNumber
<1>4. projectOverview' # None /\ Overviewed(ov) # {}
  BY <1>1, <1>2
<1>5. Overviewed(runOverview)' = Overviewed(ov)
  BY DEF Overviewed
<1>6. IsLatestRun(latest, ov) <=> IsLatestRun(projectOverview.latestRun, runOverview)'
  BY <1>3 DEF IsLatestRun, Overviewed
<1> HIDE DEF ov
<1> QED BY <1>2, <1>3, <1>4, <1>5, <1>6 DEF ProjectOverviewCurrent, ov

(* The columns of a run's projection that come from its tests. *)
LEMMA ProjectedTests ==
    ASSUME NEW p, NEW c
    PROVE  LET row == ProjectedRun(c, p) IN
           /\ "tests" \in SubmissionFactKinds(p) =>
                 /\ row.status = RunStatus(p.report)
                 /\ row.total = p.report.total /\ row.failed = p.report.failed
           /\ "tests" \notin SubmissionFactKinds(p) /\ c # None =>
                 /\ row.status = c.status /\ row.total = c.total /\ row.failed = c.failed
           /\ "tests" \notin SubmissionFactKinds(p) /\ c = None => row.status = None
BY DEF ProjectedRun

LEMMA OverviewOfNew ==
    ASSUME ReadInv, NEW q \in Requests, Commit(q), Appends(q)
    PROVE  OverviewFollowsLedger'
<1> DEFINE s == submission[q]
           r == payload[q].run
<1>1. /\ Appendable(s) /\ s \in SubmissionType /\ r \in Runs /\ s.run = r
      /\ reportSubmission' = WrittenSubmissions(s, "created")
      /\ s.report = payload[q].report /\ s.factKinds = SubmissionFactKinds(payload[q])
      /\ pc[q] = "commit"
  BY CommitOfNew DEF ReadInv, StagedRows, StagedRow, Commit
<1>2. /\ s \in reportSubmission'
      /\ \A o \in reportSubmission : \E x \in reportSubmission' : SameFacts(o, x)
      /\ \A x \in reportSubmission' : x = s \/ \E o \in reportSubmission : SameFacts(o, x)
  BY <1>1, AppendKeepsFacts DEF ReadInv, LedgerInv
<1>3. /\ runOverview' = [runOverview EXCEPT ![r] = overviewRow[q]]
      /\ overviewRow[q] = ProjectedRun(runOverview[r], payload[q])
  BY <1>1, CommitOfNew DEF ReadInv, StagedRows, StagedRow, OverviewsWith
<1> SUFFICES ASSUME NEW r2 \in Runs, runOverview'[r2] # None
             PROVE  \/ /\ ~\E x \in reportSubmission' : x.run = r2 /\ "tests" \in x.factKinds
                       /\ runOverview'[r2].status = None
                    \/ \E x \in reportSubmission' :
                          /\ x.run = r2 /\ "tests" \in x.factKinds
                          /\ \A o \in reportSubmission' :
                                o.run = r2 /\ "tests" \in o.factKinds /\ Identity(o) = Identity(x)
                                   => o.revision <= x.revision
                          /\ runOverview'[r2].status = RunStatus(x.report)
                          /\ runOverview'[r2].total = x.report.total
                          /\ runOverview'[r2].failed = x.report.failed
  BY DEF OverviewFollowsLedger, Overviewed, Identity, RunStatus
<1>4. runOverview'[r2] = IF r2 = r THEN ProjectedRun(runOverview[r], payload[q])
                         ELSE runOverview[r2]
  BY <1>3 DEF ReadInv, LedgerInv, Typed, TypeOK
<1>5. \A o \in reportSubmission : o \in SubmissionType /\ o.revision \in Nat
  BY DEF ReadInv, LedgerInv, Typed, TypeOK, SubmissionType
<1>6. s.revision \in Nat
  BY <1>1 DEF SubmissionType
<1>7. CASE r2 = r /\ "tests" \in s.factKinds
  <2>1. /\ runOverview'[r2].status = RunStatus(s.report)
        /\ runOverview'[r2].total = s.report.total
        /\ runOverview'[r2].failed = s.report.failed
    BY <1>1, <1>4, <1>7, ProjectedTests
  <2>2. ASSUME NEW o \in reportSubmission', Identity(o) = Identity(s)
        PROVE  o.revision <= s.revision
    <3>1. CASE o = s
      BY <3>1, <1>6
    <3>2. CASE o # s
      <4>1. PICK y \in reportSubmission : SameFacts(y, o)
        BY <3>2, <1>2
      <4>2. y \in RowsOf(Identity(s))
        BY <4>1, <2>2 DEF RowsOf, Identity, SameFacts
      <4> QED BY <4>1, <4>2, <1>1, <1>5, <1>6 DEF Appendable, SameFacts
    <3> QED BY <3>1, <3>2
  <2> QED BY <2>1, <2>2, <1>1, <1>2, <1>7
<1>8. CASE ~(r2 = r /\ "tests" \in s.factKinds)
  <2>1. \A x \in reportSubmission' :
           x.run = r2 /\ "tests" \in x.factKinds => \E o \in reportSubmission : SameFacts(o, x)
    BY <1>1, <1>2, <1>8
  <2>2. CASE runOverview[r2] = None
    <3>1. r2 = r /\ runOverview'[r2].status = None
      BY <1>1, <1>4, <1>8, <2>2, ProjectedTests
    <3>2. ~\E o \in reportSubmission : o.run = r2
      BY <2>2 DEF ReadInv, ReadModelSound, PublishedTogether
    <3> QED BY <2>1, <3>1, <3>2 DEF SameFacts
  <2>3. CASE runOverview[r2] # None
    <3>1. /\ runOverview'[r2].status = runOverview[r2].status
          /\ runOverview'[r2].total = runOverview[r2].total
          /\ runOverview'[r2].failed = runOverview[r2].failed
      BY <1>1, <1>4, <1>8, <2>3, ProjectedTests
    <3> DEFINE testing == {x \in reportSubmission : x.run = r2 /\ "tests" \in x.factKinds}
    <3>2. IF testing = {} THEN runOverview[r2].status = None
          ELSE \E x \in testing :
                 /\ \A o \in testing : Identity(o) = Identity(x) => o.revision <= x.revision
                 /\ runOverview[r2].status = RunStatus(x.report)
                 /\ runOverview[r2].total = x.report.total
                 /\ runOverview[r2].failed = x.report.failed
      BY <2>3 DEF ReadInv, ReadModelSound, OverviewFollowsLedger, Overviewed
    <3>3. CASE testing = {}
      BY <3>1, <3>2, <3>3, <2>1 DEF SameFacts
    <3>4. CASE testing # {}
      <4>1. PICK x \in testing :
              /\ \A o \in testing : Identity(o) = Identity(x) => o.revision <= x.revision
              /\ runOverview[r2].status = RunStatus(x.report)
              /\ runOverview[r2].total = x.report.total
              /\ runOverview[r2].failed = x.report.failed
        BY <3>2, <3>4
      <4>2. PICK y \in reportSubmission' : SameFacts(x, y)
        BY <1>2
      <4>3. ASSUME NEW o \in reportSubmission', o.run = r2, "tests" \in o.factKinds,
                   Identity(o) = Identity(y)
            PROVE  o.revision <= y.revision
        <5>1. PICK z \in reportSubmission : SameFacts(z, o)
          BY <2>1, <4>3
        <5>2. z \in testing /\ Identity(z) = Identity(x)
          BY <5>1, <4>2, <4>3 DEF SameFacts, Identity
        <5> QED BY <5>1, <5>2, <4>1, <4>2 DEF SameFacts
      <4>4. y.run = r2 /\ "tests" \in y.factKinds /\ y.report = x.report
        BY <4>1, <4>2 DEF SameFacts
      <4> QED BY <4>1, <4>3, <4>4, <3>1
    <3> QED BY <3>3, <3>4
  <2> QED BY <2>2, <2>3
<1> QED BY <1>7, <1>8

LEMMA CommitReadModel ==
    ASSUME ReadInv, NEW q \in Requests, Commit(q)
    PROVE  ReadModelSound'
<1>1. CASE Appends(q)
  BY <1>1, SelectionOfNew, PublishedOfNew, ProjectOfNew, OverviewOfNew DEF ReadModelSound
<1>2. CASE ~Appends(q)
  <2>1. UNCHANGED <<reportSubmission, runOverview, projectOverview>>
    BY <1>2, CommitOfFound DEF ReadInv
  <2>2. ProjectOverviewCurrent' /\ OverviewFollowsLedger'
    BY <2>1 DEF ReadInv, ReadModelSound, ProjectOverviewCurrent, OverviewFollowsLedger,
       Overviewed, IsLatestRun
  <2> QED BY <1>2, <2>2, SelectionOfFound, PublishedOfFound DEF ReadModelSound
<1> QED BY <1>1, <1>2

(* The steps that write no table. *)
LEMMA ReadModelUnread ==
    ASSUME ReadModelSound, UNCHANGED tables
    PROVE  ReadModelSound'
BY DEF tables, ReadModelSound, SelectionNewest, ProjectOverviewCurrent,
   OverviewFollowsLedger, PublishedTogether, RowsOf, Overviewed, IsLatestRun

-----------------------------------------------------------------------------
(* A row stays staged while its request and the tables rest. *)
LEMMA RowKept ==
    ASSUME NEW o \in Requests, StagedRow(o), UNCHANGED tables,
           pc'[o] = pc[o], payload'[o] = payload[o], submission'[o] = submission[o],
           submissionStatus'[o] = submissionStatus[o],
           overviewRow'[o] = overviewRow[o], projectRow'[o] = projectRow[o]
    PROVE  StagedRow(o)'
<1>1. OverviewsWith(o)' = OverviewsWith(o) /\ Appends(o)' = Appends(o)
      /\ FoundAgain(o)' = FoundAgain(o)
  BY DEF OverviewsWith, tables, Appends, FoundAgain
<1> QED BY <1>1 DEF StagedRow, tables

LEMMA StagedRowsStep ==
    ReadInv /\ [Next]_vars => StagedRows'
<1> SUFFICES ASSUME ReadInv, [Next]_vars, NEW o \in Requests PROVE StagedRow(o)'
  BY DEF StagedRows, StagedRow
<1>0. StagedRow(o)
  BY DEF ReadInv, StagedRows, StagedRow
<1> USE DEF ReadInv, LedgerInv
<1>1. CASE UNCHANGED vars
  BY <1>0, <1>1, RowKept DEF vars, locals
<1>2. CASE Finished
  BY <1>1, <1>2 DEF Finished
<1>3. CASE pc'[o] \notin {"project", "commit"}
  BY <1>3 DEF StagedRow, Appends, FoundAgain
<1>4. ASSUME NEW q \in Requests, Revise(q), pc'[o] \in {"project", "commit"}
      PROVE  StagedRow(o)'
  <2>1. o = q
    BY <1>4 DEF Revise, Goto, MutualExclusion, LockedSteps, Typed, TypeOK
  <2>2. PICK n : submission' = [submission EXCEPT ![q] = NewSubmission(payload[q], n)]
    BY <1>4 DEF Revise
  <2>3. submission'[q] = NewSubmission(payload[q], n) /\ pc'[q] = "project"
        /\ payload' = payload
    BY <1>4, <2>2 DEF Revise, Goto, Typed, TypeOK
  <2> QED BY <2>1, <2>3 DEF StagedRow, Appends, FoundAgain, NewSubmission
<1>5. ASSUME NEW q \in Requests, Deduplicate(q), pc'[o] \in {"project", "commit"}
      PROVE  StagedRow(o)'
  <2>1. o = q
    BY <1>5 DEF Deduplicate, Goto, MutualExclusion, LockedSteps, Typed, TypeOK
  <2>2. PICK s \in RowsOf(PayloadIdentity(payload[q])) :
          /\ IsActive(s) /\ s.report = payload[q].report
          /\ submission' = [submission EXCEPT ![q] = s]
    BY <1>5 DEF Deduplicate
  <2>3. /\ submission'[q] = s /\ pc'[q] = "commit" /\ payload' = payload
        /\ submissionStatus'[q] = "deduplicated" /\ reportSubmission' = reportSubmission
    BY <1>5, <2>2 DEF Deduplicate, Goto, tables, Typed, TypeOK
  <2>4. s \in reportSubmission /\ s.run = payload[q].run
    BY <2>2 DEF RowsOf, Identity, PayloadIdentity
  <2> QED BY <2>1, <2>2, <2>3, <2>4 DEF StagedRow, Appends, FoundAgain, IsActive
<1>6. ASSUME NEW q \in Requests, UpdateReadProjections(q), pc'[o] \in {"project", "commit"}
      PROVE  StagedRow(o)'
  <2> DEFINE row == ProjectedRun(runOverview[payload[q].run], payload[q])
             overviews == [runOverview EXCEPT ![payload[q].run] = row]
  <2>1. o = q
    BY <1>6 DEF UpdateReadProjections, Goto, MutualExclusion, LockedSteps, Typed, TypeOK
  <2>2. PICK latest \in Overviewed(overviews) :
          /\ IsLatestRun(latest, overviews)
          /\ projectRow' = [projectRow EXCEPT ![q] = ProjectedProject(overviews, latest)]
    BY <1>6 DEF UpdateReadProjections
  <2>3. /\ overviewRow'[q] = row /\ projectRow'[q] = ProjectedProject(overviews, latest)
        /\ pc[q] = "project" /\ pc'[q] = "commit"
        /\ UNCHANGED <<tables, payload, submission, submissionStatus>>
    BY <1>6, <2>2 DEF UpdateReadProjections, Goto, Typed, TypeOK
  <2>4. OverviewsWith(q)' = overviews
    BY <2>3 DEF OverviewsWith, tables
  <2>5. Appends(q) /\ ~FoundAgain(q)' /\ submissionStatus[q] \in {"created", "revised"}
    BY <2>3 DEF Appends, FoundAgain, Typed, LocalsOK
  <2>6. overviewRow'[q] = ProjectedRun(runOverview[payload[q].run], payload[q])'
    BY <2>3 DEF tables
  <2>7. \E x \in Overviewed(OverviewsWith(q)') :
           /\ IsLatestRun(x, OverviewsWith(q)')
           /\ projectRow'[q] = ProjectedProject(OverviewsWith(q)', x)
    BY <2>2, <2>3, <2>4
  <2> HIDE DEF row, overviews
  <2> QED BY <1>0, <2>1, <2>3, <2>5, <2>6, <2>7 DEF StagedRow
<1>7. ASSUME NEW q \in Requests, Commit(q), pc'[o] \in {"project", "commit"}
      PROVE  StagedRow(o)'
  BY <1>7 DEF Commit, Goto, MutualExclusion, LockedSteps, Typed, TypeOK
<1>8. ASSUME NEW q \in Requests,
             \/ Receive(q) \/ FindExistingRun(q) \/ LoadRun(q) \/ InsertRun(q)
             \/ UpdateRun(q) \/ AcquireLocks(q) \/ RejectRepublication(q)
             \/ Respond(q) \/ Fail(q),
             pc'[o] \in {"project", "commit"}
      PROVE  StagedRow(o)'
  <2>1. o # q
    BY <1>8 DEF Receive, FindExistingRun, LoadRun, InsertRun, UpdateRun, AcquireLocks,
       RejectRepublication, Respond, Fail, Goto, Typed, TypeOK
  <2>2. /\ UNCHANGED tables /\ pc'[o] = pc[o] /\ payload'[o] = payload[o]
        /\ submission'[o] = submission[o] /\ submissionStatus'[o] = submissionStatus[o]
        /\ overviewRow'[o] = overviewRow[o] /\ projectRow'[o] = projectRow[o]
    BY <1>8, <2>1 DEF Receive, FindExistingRun, LoadRun, InsertRun, UpdateRun, AcquireLocks,
       RejectRepublication, EndTransaction, Respond, Fail, Goto, locals, Typed, TypeOK
  <2> QED BY <1>0, <2>2, RowKept
<1> QED BY <1>1, <1>2, <1>3, <1>4, <1>5, <1>6, <1>7, <1>8 DEF Next, Persist

LEMMA ReadModelStep ==
    ReadInv /\ [Next]_vars => ReadModelSound'
<1> SUFFICES ASSUME ReadInv, [Next]_vars PROVE ReadModelSound'
  OBVIOUS
<1>1. CASE UNCHANGED tables
  BY <1>1, ReadModelUnread DEF ReadInv
<1>2. ASSUME NEW q \in Requests, Commit(q) PROVE ReadModelSound'
  BY <1>2, CommitReadModel
<1>3. ASSUME NEW q \in Requests,
             \/ Receive(q) \/ FindExistingRun(q) \/ LoadRun(q) \/ InsertRun(q)
             \/ UpdateRun(q) \/ AcquireLocks(q) \/ Deduplicate(q) \/ Revise(q)
             \/ RejectRepublication(q) \/ UpdateReadProjections(q) \/ Respond(q) \/ Fail(q)
      PROVE  UNCHANGED tables
  BY <1>3 DEF Receive, FindExistingRun, LoadRun, InsertRun, UpdateRun, AcquireLocks,
     Deduplicate, Revise, RejectRepublication, UpdateReadProjections, Respond, Fail
<1> QED BY <1>1, <1>2, <1>3 DEF Next, Persist, Finished, vars

LEMMA InitRead == Init => ReadInv
<1> SUFFICES ASSUME Init PROVE ReadInv
  OBVIOUS
<1>1. LedgerInv
  BY InitTyped DEF Init, LedgerInv, MutualExclusion, StagedSound, LedgerSound, LockedSteps
<1>2. StagedRows
  BY DEF Init, StagedRows, StagedRow, Appends, FoundAgain
<1>3. Overviewed(runOverview) = {}
  BY DEF Init, Overviewed
<1>4. ReadModelSound
  BY <1>3 DEF Init, ReadModelSound, SelectionNewest, ProjectOverviewCurrent,
     OverviewFollowsLedger, PublishedTogether
<1> QED BY <1>1, <1>2, <1>4 DEF ReadInv

LEMMA NextRead == ReadInv /\ [Next]_vars => ReadInv'
BY NextTyped, MutualExclusionStep, StagedSoundStep, LedgerSoundStep, StagedRowsStep,
   ReadModelStep DEF ReadInv, LedgerInv

(* Whatever the requests, their interleaving and the transactions that      *)
(* abort, what the server's readers are given agrees with the ledger: the   *)
(* pointers name the newest revision, the projections of the runs and of    *)
(* the project are current, and a run appears with all of them or not at    *)
(* all.                                                                    *)
THEOREM ReadModelCorrect == Spec => []ReadModelSound
<1>1. ReadInv => ReadModelSound
  BY DEF ReadInv
<1> QED BY <1>1, InitRead, NextRead, PTL DEF Spec

-----------------------------------------------------------------------------
(* The refinement of SubmissionLedger.                                      *)

(* What the mapping of Ledger says of a set of rows. *)
ActiveOf(rows) ==
    IF \E s \in rows : IsActive(s) THEN (CHOOSE s \in rows : IsActive(s)).report ELSE None

SupersededOf(rows) == {s.report : s \in {o \in rows : ~IsActive(o)}}

ContentOf(rows, r, id) ==
    IF id = None THEN None
    ELSE LET s == CHOOSE s \in rows : s.run = r /\ SubmissionId(s) = id
         IN  <<Identity(s), s.report>>

(* A row is known by its identity and revision, and the active one by its   *)
(* identity alone.                                                         *)
Distinct(rows) ==
    \A s, o \in rows :
        /\ Identity(s) = Identity(o)
        /\ s.revision = o.revision \/ (IsActive(s) /\ IsActive(o))
        => s = o

LEMMA DistinctRows ==
    ASSUME LedgerInv
    PROVE  Distinct(reportSubmission)
<1> SUFFICES ASSUME NEW s \in reportSubmission, NEW o \in reportSubmission,
                    Identity(s) = Identity(o),
                    s.revision = o.revision \/ (IsActive(s) /\ IsActive(o))
             PROVE  s = o
  BY DEF Distinct
<1>1. s.revision \in Nat /\ o.revision \in Nat
  BY DEF LedgerInv, Typed, TypeOK, SubmissionType
<1>2. o \in RowsOf(Identity(s)) /\ s \in RowsOf(Identity(o))
  BY DEF RowsOf
<1> QED BY <1>1, <1>2 DEF LedgerInv, LedgerSound

LEMMA ActiveOfActive ==
    ASSUME NEW rows, NEW i, Distinct(rows), NEW s \in {o \in rows : Identity(o) = i}, IsActive(s)
    PROVE  ActiveOf({o \in rows : Identity(o) = i}) = s.report
<1> DEFINE own == {o \in rows : Identity(o) = i}
<1>1. PICK t : t = CHOOSE x \in own : IsActive(x)
  OBVIOUS
<1>2. t \in own /\ IsActive(t)
  BY <1>1
<1>3. t = s
  BY <1>2 DEF Distinct
<1> QED BY <1>1, <1>3 DEF ActiveOf

LEMMA ContentOfRow ==
    ASSUME NEW rows, Distinct(rows), NEW s \in rows, SubmissionId(s) # None
    PROVE  ContentOf(rows, s.run, SubmissionId(s)) = <<Identity(s), s.report>>
<1>1. PICK t : t = CHOOSE x \in rows : x.run = s.run /\ SubmissionId(x) = SubmissionId(s)
  OBVIOUS
<1>2. t \in rows /\ t.run = s.run /\ SubmissionId(t) = SubmissionId(s)
  BY <1>1
<1>3. t.kind = s.kind /\ t.producer = s.producer /\ t.revision = s.revision
  BY <1>2 DEF SubmissionId
<1>4. t = s
  BY <1>2, <1>3 DEF Distinct, Identity
<1> QED BY <1>1, <1>4 DEF ContentOf

(* The variables of the ledger, in terms of the tables. *)
LedgerCurrent == [i \in Identities |-> ActiveOf(RowsOf(i))]
LedgerSuperseded == [i \in Identities |-> SupersededOf(RowsOf(i))]
LedgerSelected ==
    [rk \in Runs \X FactKinds |->
        ContentOf(reportSubmission, rk[1], runActiveSubmission[rk[1]][rk[2]])]

LEMMA LedgerMapping ==
    /\ Ledger!ledgerVars = <<LedgerCurrent, LedgerSuperseded, LedgerSelected>>
    /\ (Ledger!ledgerVars)' = <<LedgerCurrent', LedgerSuperseded', LedgerSelected'>>
BY DEF Ledger!ledgerVars, LedgerCurrent, LedgerSuperseded, LedgerSelected, ActiveReport,
   SelectedContent, ActiveOf, SupersededOf, ContentOf

(* What a publication or a retry of the ledger is. *)
LEMMA LedgerPublish ==
    ASSUME NEW i \in Identities, NEW c \in {p.report : p \in Payloads},
           NEW S \in SUBSET ({i[1]} \X FactKinds),
           c \notin LedgerSuperseded[i] \union {LedgerCurrent[i]},
           LedgerCurrent' = [LedgerCurrent EXCEPT ![i] = c],
           LedgerSuperseded' =
              [LedgerSuperseded EXCEPT ![i] = @ \union ({LedgerCurrent[i]} \ {None})],
           LedgerSelected' = [rk \in Runs \X FactKinds |->
                                IF rk \in S THEN <<i, c>> ELSE LedgerSelected[rk]]
    PROVE  Ledger!Next
<1>1. S \in SUBSET [j \in Identities |-> {j[1]} \X FactKinds][i]
  OBVIOUS
<1>2. Ledger!Select(i, c)
  BY <1>1 DEF Ledger!Select, LedgerSelected, SelectedContent, ContentOf
<1>3. Ledger!Publish(i, c)
  BY <1>2 DEF Ledger!Publish, LedgerCurrent, LedgerSuperseded, ActiveReport, ActiveOf,
     SupersededOf
<1> QED BY <1>3 DEF Ledger!Next

LEMMA LedgerRetry ==
    ASSUME NEW i \in Identities, NEW c \in {p.report : p \in Payloads},
           NEW S \in SUBSET ({i[1]} \X FactKinds),
           LedgerCurrent[i] = c,
           UNCHANGED <<LedgerCurrent, LedgerSuperseded>>,
           LedgerSelected' = [rk \in Runs \X FactKinds |->
                                IF rk \in S THEN <<i, c>> ELSE LedgerSelected[rk]]
    PROVE  Ledger!Next
<1>1. S \in SUBSET [j \in Identities |-> {j[1]} \X FactKinds][i]
  OBVIOUS
<1>2. Ledger!Select(i, c)
  BY <1>1 DEF Ledger!Select, LedgerSelected, SelectedContent, ContentOf
<1>3. Ledger!Retry(i, c)
  BY <1>2 DEF Ledger!Retry, LedgerCurrent, LedgerSuperseded, ActiveReport, ActiveOf,
     SupersededOf
<1> QED BY <1>3 DEF Ledger!Next

(* Both outcomes of Commit select the same way: the pointers of the facts   *)
(* borne name the submission, the others what they named before.           *)
LEMMA CommitSelects ==
    ASSUME ReadInv, ReadInv', NEW r \in Runs, NEW s \in SubmissionType, s.run = r,
           Selects(s, r), s \in reportSubmission',
           \A o \in reportSubmission : \E x \in reportSubmission' : SameFacts(o, x)
    PROVE  LedgerSelected' = [rk \in Runs \X FactKinds |->
                                IF rk \in {r} \X s.factKinds THEN <<Identity(s), s.report>>
                                ELSE LedgerSelected[rk]]
<1> DEFINE new(rk) == IF rk \in {r} \X s.factKinds THEN <<Identity(s), s.report>>
                      ELSE LedgerSelected[rk]
<1>1. Distinct(reportSubmission) /\ Distinct(reportSubmission')
  <2>1. Distinct(reportSubmission)
    BY DistinctRows DEF ReadInv
  <2>2. ASSUME NEW x \in reportSubmission', NEW o \in reportSubmission',
               Identity(x) = Identity(o), x.revision = o.revision \/ (IsActive(x) /\ IsActive(o))
        PROVE  x = o
    <3>1. x.revision \in Nat /\ o.revision \in Nat
      BY DEF ReadInv, LedgerInv, Typed, TypeOK, SubmissionType
    <3>2. o \in RowsOf(Identity(x))' /\ x \in RowsOf(Identity(o))'
      BY <2>2 DEF RowsOf, Identity
    <3>3. LedgerSound'
      BY DEF ReadInv, LedgerInv
    <3> QED BY <2>2, <3>1, <3>2, <3>3 DEF LedgerSound, RowsOf, Identity, IsActive
  <2> QED BY <2>1, <2>2 DEF Distinct
<1>2. SubmissionId(s) # None
  BY NoneAssumption DEF SubmissionId, SubmissionIds, SubmissionType
<1>3. ASSUME NEW r2 \in Runs, NEW k \in FactKinds
      PROVE  ContentOf(reportSubmission', r2, runActiveSubmission'[r2][k]) = new(<<r2, k>>)
  <2>1. LedgerSelected[<<r2, k>>]
          = ContentOf(reportSubmission, r2, runActiveSubmission[r2][k])
    BY DEF LedgerSelected
  <2>2. CASE r2 = r /\ k \in s.factKinds
    <3>1. runActiveSubmission'[r2][k] = SubmissionId(s)
      BY <2>2, SelectedPointers DEF ReadInv, LedgerInv
    <3> QED BY <3>1, <2>2, <1>1, <1>2, ContentOfRow
  <2>3. CASE ~(r2 = r /\ k \in s.factKinds)
    <3>1. runActiveSubmission'[r2][k] = runActiveSubmission[r2][k]
      BY <2>3, SelectedPointers DEF ReadInv, LedgerInv
    <3>2. new(<<r2, k>>) = LedgerSelected[<<r2, k>>]
      BY <2>3
    <3>3. CASE runActiveSubmission[r2][k] = None
      BY <3>1, <3>2, <3>3, <2>1 DEF ContentOf
    <3>4. CASE runActiveSubmission[r2][k] # None
      <4>1. PICK x \in reportSubmission :
              x.run = r2 /\ SubmissionId(x) = runActiveSubmission[r2][k]
        BY <3>4 DEF ReadInv, ReadModelSound, SelectionNewest
      <4>2. PICK y \in reportSubmission' : SameFacts(x, y)
        OBVIOUS
      <4>3. /\ y.run = r2 /\ SubmissionId(y) = SubmissionId(x)
            /\ Identity(y) = Identity(x) /\ y.report = x.report
        BY <4>1, <4>2 DEF SameFacts, SubmissionId, Identity
      <4>4. ContentOf(reportSubmission, r2, SubmissionId(x)) = <<Identity(x), x.report>>
        BY <4>1, <3>4, <1>1, ContentOfRow
      <4>5. ContentOf(reportSubmission', r2, SubmissionId(y)) = <<Identity(y), y.report>>
        BY <4>1, <4>3, <3>4, <1>1, ContentOfRow
      <4> QED BY <4>1, <4>3, <4>4, <4>5, <3>1, <3>2, <2>1
    <3> QED BY <3>3, <3>4
  <2> QED BY <2>2, <2>3
<1>4. LedgerSelected' = [rk \in Runs \X FactKinds |->
                           ContentOf(reportSubmission', rk[1], runActiveSubmission'[rk[1]][rk[2]])]
  BY DEF LedgerSelected, ContentOf, Identity, SubmissionId
<1>5. ASSUME NEW rk \in Runs \X FactKinds
      PROVE  ContentOf(reportSubmission', rk[1], runActiveSubmission'[rk[1]][rk[2]]) = new(rk)
  <2>1. rk[1] \in Runs /\ rk[2] \in FactKinds /\ rk = <<rk[1], rk[2]>>
    OBVIOUS
  <2> HIDE DEF new
  <2>2. ContentOf(reportSubmission', rk[1], runActiveSubmission'[rk[1]][rk[2]])
          = new(<<rk[1], rk[2]>>)
    BY <1>3, <2>1
  <2> QED BY <2>1, <2>2
<1> HIDE DEF new
<1>6. LedgerSelected' = [rk \in Runs \X FactKinds |-> new(rk)]
  BY <1>4, <1>5
<1> QED BY <1>6 DEF new

LEMMA CommitOfFoundRetries ==
    ASSUME ReadInv, ReadInv', NEW q \in Requests, Commit(q), ~Appends(q)
    PROVE  Ledger!Next
<1> DEFINE s == submission[q]
           r == payload[q].run
           i == Identity(s)
<1>1. /\ s \in reportSubmission /\ s \in SubmissionType /\ IsActive(s) /\ s.run = r /\ r \in Runs
      /\ reportSubmission' = reportSubmission /\ Selects(s, r)
  BY CommitOfFound DEF ReadInv
<1>2. payload[q] \in Payloads /\ s.report = payload[q].report
  <2>1. FoundAgain(q) /\ pc[q] = "commit"
    BY DEF Commit, Appends, FoundAgain
  <2>2. payload[q] \in Payloads
    BY <2>1 DEF ReadInv, LedgerInv, Typed, LocalsOK
  <2> QED BY <2>1, <2>2 DEF ReadInv, StagedRows, StagedRow
<1>3. i \in Identities /\ i[1] = r
  BY <1>1 DEF Identity, Identities, SubmissionType
<1>4. {r} \X s.factKinds \in SUBSET ({i[1]} \X FactKinds)
  BY <1>1, <1>3 DEF SubmissionType
<1>5. Distinct(reportSubmission)
  BY DistinctRows DEF ReadInv
<1>6. LedgerCurrent[i] = s.report
  <2>1. ActiveOf({o \in reportSubmission : Identity(o) = i}) = s.report
    BY <1>1, <1>5, ActiveOfActive
  <2> QED BY <2>1, <1>3 DEF LedgerCurrent, RowsOf
<1>7. UNCHANGED <<LedgerCurrent, LedgerSuperseded>>
  BY <1>1 DEF LedgerCurrent, LedgerSuperseded, RowsOf
<1>8. LedgerSelected' = [rk \in Runs \X FactKinds |->
                           IF rk \in {r} \X s.factKinds THEN <<i, s.report>>
                           ELSE LedgerSelected[rk]]
  <2>1. \A o \in reportSubmission : \E x \in reportSubmission' : SameFacts(o, x)
    BY <1>1 DEF SameFacts
  <2> QED BY <1>1, <2>1, CommitSelects
<1> DEFINE S == {r} \X s.factKinds
           c == s.report
<1>9. c \in {p.report : p \in Payloads}
  BY <1>2
<1>10. S \in SUBSET ({i[1]} \X FactKinds)
  BY <1>4
<1>11. LedgerSelected' = [rk \in Runs \X FactKinds |->
                            IF rk \in S THEN <<i, c>> ELSE LedgerSelected[rk]]
  BY <1>8
<1>12. LedgerCurrent[i] = c
  BY <1>6
<1> HIDE DEF i, S, c
<1> QED BY <1>3, <1>7, <1>9, <1>10, <1>11, <1>12, LedgerRetry

LEMMA CommitOfNewPublishes ==
    ASSUME ReadInv, ReadInv', NEW q \in Requests, Commit(q), Appends(q)
    PROVE  Ledger!Next
<1>0. PICK s, r, i, own :
        s = submission[q] /\ r = payload[q].run /\ i = Identity(s) /\ own = RowsOf(i)
  OBVIOUS
<1> DEFINE img(o) == IF Identity(o) = Identity(s) /\ IsActive(o) THEN Supersede(o) ELSE o
<1>1. /\ s \in SubmissionType /\ Appendable(s) /\ r \in Runs /\ s.run = r
      /\ reportSubmission' = WrittenSubmissions(s, "created") /\ Selects(s, r)
      /\ payload[q] \in Payloads /\ s.report = payload[q].report
  BY <1>0, CommitOfNew DEF ReadInv, StagedRows, StagedRow
<1>2. i \in Identities /\ i[1] = r
  BY <1>0, <1>1 DEF Identity, Identities, SubmissionType
<1>3. {r} \X s.factKinds \in SUBSET ({i[1]} \X FactKinds)
  BY <1>0, <1>1, <1>2 DEF SubmissionType
<1>4. reportSubmission' = {img(o) : o \in reportSubmission} \union {s}
  BY <1>1 DEF WrittenSubmissions
<1>5. ASSUME NEW o \in reportSubmission
      PROVE  /\ Identity(img(o)) = Identity(o) /\ img(o).report = o.report
             /\ Identity(o) = i => ~IsActive(img(o))
             /\ Identity(o) # i => img(o) = o
  <2>1. o \in SubmissionType
    BY DEF ReadInv, LedgerInv, Typed, TypeOK
  <2> QED BY <2>1, <1>0 DEF Supersede, Identity, IsActive, SubmissionType
<1>6. s.report # None
  BY <1>1, NoneAssumption DEF SubmissionType
<1>7. IsActive(s) /\ \A o \in own : o.report # s.report
  BY <1>0, <1>1 DEF Appendable
<1>8. ASSUME NEW j PROVE RowsOf(j)' = {o \in reportSubmission' : Identity(o) = j}
  BY DEF RowsOf, Identity
<1> HIDE DEF img
<1>9. RowsOf(i)' = {img(o) : o \in own} \union {s}
  <2>1. RowsOf(i)' = {o \in reportSubmission' : Identity(o) = i}
    BY <1>8
  <2>2. own = {o \in reportSubmission : Identity(o) = i} /\ Identity(s) = i
    BY <1>0 DEF RowsOf
  <2> QED BY <1>4, <1>5, <2>1, <2>2
<1>10. ASSUME NEW j \in Identities \ {i} PROVE RowsOf(j)' = RowsOf(j)
  <2>1. RowsOf(j)' = {o \in reportSubmission' : Identity(o) = j}
    BY <1>8
  <2>2. RowsOf(j) = {o \in reportSubmission : Identity(o) = j} /\ Identity(s) = i
    BY <1>0 DEF RowsOf
  <2> QED BY <1>4, <1>5, <2>1, <2>2
<1>11. LedgerCurrent' = [LedgerCurrent EXCEPT ![i] = s.report]
  <2>1. LedgerCurrent' = [j \in Identities |-> ActiveOf(RowsOf(j)')]
    BY DEF LedgerCurrent, ActiveOf, IsActive
  <2>2. ActiveOf(RowsOf(i)') = s.report
    <3>1. \A x \in RowsOf(i)' : IsActive(x) => x = s
      BY <1>0, <1>5, <1>9 DEF RowsOf
    <3>2. s \in RowsOf(i)'
      BY <1>9
    <3> QED BY <3>1, <3>2, <1>7 DEF ActiveOf
  <2>3. LedgerCurrent = [j \in Identities |-> ActiveOf(RowsOf(j))]
    BY DEF LedgerCurrent
  <2> QED BY <2>1, <2>2, <2>3, <1>2, <1>10
<1>12. LedgerCurrent[i] = ActiveOf(own) /\ LedgerSuperseded[i] = SupersededOf(own)
  BY <1>0, <1>2 DEF LedgerCurrent, LedgerSuperseded
<1>13. ActiveOf(own) # s.report
  BY <1>6, <1>7 DEF ActiveOf
<1>14. s.report \notin SupersededOf(own)
  BY <1>7 DEF SupersededOf
<1>15. SupersededOf(RowsOf(i)') = SupersededOf(own) \union ({ActiveOf(own)} \ {None})
  <2>1. SupersededOf(RowsOf(i)') = {o.report : o \in own}
    BY <1>0, <1>5, <1>7, <1>9 DEF SupersededOf, RowsOf
  <2>2. \A o \in own : o.report # None
    BY <1>0, NoneAssumption DEF RowsOf, ReadInv, LedgerInv, Typed, TypeOK, SubmissionType
  <2>3. CASE \E o \in own : IsActive(o)
    <3>1. PICK a \in own : IsActive(a)
      BY <2>3
    <3>2. ActiveOf(own) = a.report
      <4>1. Distinct(reportSubmission)
        BY DistinctRows DEF ReadInv
      <4> QED BY <1>0, <3>1, <4>1, ActiveOfActive DEF RowsOf
    <3>3. \A o \in own : IsActive(o) => o = a
      BY <1>0, <3>1, DistinctRows DEF ReadInv, Distinct, RowsOf
    <3> QED BY <2>1, <2>2, <3>1, <3>2, <3>3 DEF SupersededOf
  <2>4. CASE ~\E o \in own : IsActive(o)
    <3>1. ActiveOf(own) = None
      BY <2>4 DEF ActiveOf
    <3> QED BY <2>1, <2>4, <3>1 DEF SupersededOf
  <2> QED BY <2>3, <2>4
<1>16. LedgerSuperseded'
         = [LedgerSuperseded EXCEPT ![i] = @ \union ({LedgerCurrent[i]} \ {None})]
  <2>1. LedgerSuperseded' = [j \in Identities |-> SupersededOf(RowsOf(j)')]
    BY DEF LedgerSuperseded, SupersededOf, IsActive
  <2>2. LedgerSuperseded = [j \in Identities |-> SupersededOf(RowsOf(j))]
    BY DEF LedgerSuperseded
  <2> QED BY <2>1, <2>2, <1>2, <1>10, <1>12, <1>15
<1>17. LedgerSelected' = [rk \in Runs \X FactKinds |->
                            IF rk \in {r} \X s.factKinds THEN <<i, s.report>>
                            ELSE LedgerSelected[rk]]
  <2>1. /\ s \in reportSubmission'
        /\ \A o \in reportSubmission : \E x \in reportSubmission' : SameFacts(o, x)
    BY <1>1, AppendKeepsFacts DEF ReadInv, LedgerInv
  <2>2. LedgerSelected' = [rk \in Runs \X FactKinds |->
                             IF rk \in {r} \X s.factKinds THEN <<Identity(s), s.report>>
                             ELSE LedgerSelected[rk]]
    BY <1>1, <2>1, CommitSelects
  <2> QED BY <1>0, <2>2
<1>18. s.report \notin LedgerSuperseded[i] \union {LedgerCurrent[i]}
  BY <1>12, <1>13, <1>14
<1>19. s.report \in {p.report : p \in Payloads}
  BY <1>1
<1> QED BY <1>2, <1>3, <1>11, <1>16, <1>17, <1>18, <1>19, LedgerPublish

LEMMA LedgerStep ==
    ReadInv /\ ReadInv' /\ [Next]_vars => [Ledger!Next]_(Ledger!ledgerVars)
<1> SUFFICES ASSUME ReadInv, ReadInv', [Next]_vars
             PROVE  Ledger!Next \/ UNCHANGED Ledger!ledgerVars
  OBVIOUS
<1>1. ASSUME UNCHANGED tables PROVE UNCHANGED Ledger!ledgerVars
  <2>1. UNCHANGED <<LedgerCurrent, LedgerSuperseded, LedgerSelected>>
    BY <1>1 DEF tables, LedgerCurrent, LedgerSuperseded, LedgerSelected, RowsOf
  <2> QED BY <2>1, LedgerMapping
<1>2. ASSUME NEW q \in Requests, Commit(q) PROVE Ledger!Next
  BY <1>2, CommitOfFoundRetries, CommitOfNewPublishes
<1>3. ASSUME NEW q \in Requests,
             \/ Receive(q) \/ FindExistingRun(q) \/ LoadRun(q) \/ InsertRun(q)
             \/ UpdateRun(q) \/ AcquireLocks(q) \/ Deduplicate(q) \/ Revise(q)
             \/ RejectRepublication(q) \/ UpdateReadProjections(q) \/ Respond(q) \/ Fail(q)
      PROVE  UNCHANGED tables
  BY <1>3 DEF Receive, FindExistingRun, LoadRun, InsertRun, UpdateRun, AcquireLocks,
     Deduplicate, Revise, RejectRepublication, UpdateReadProjections, Respond, Fail
<1>4. (\E q \in Requests : Commit(q)) \/ UNCHANGED tables
  BY <1>3 DEF Next, Persist, Finished, vars
<1> QED BY <1>1, <1>2, <1>4

(* The service implements the ledger, for any requests, runs, publishers    *)
(* and payloads: a transaction that commits publishes one content, or       *)
(* retries the current one, and every other step, of locks, aborts and      *)
(* receipts, leaves the ledger as it is.                                   *)
THEOREM ImplementsLedger == Spec => RefinesLedger
<1>1. Init => Ledger!Init
  BY DEF Init, Ledger!Init, ActiveReport, SelectedContent, RowsOf
<1> QED BY <1>1, InitRead, NextRead, LedgerStep, PTL DEF Spec, RefinesLedger, Ledger!Spec
=============================================================================
