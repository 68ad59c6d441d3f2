-------------------------- MODULE MigrationsProofs --------------------------
(***************************************************************************)
(* Proofs about Migrations, for any number of migrators, migrations,       *)
(* indexes and attempts.                                                   *)
(***************************************************************************)
EXTENDS Migrations, TLAPS

Working == {"next", "building", "awaiting"}

(* Only the holder of the advisory lock is between the lock and its release. *)
Exclusive == \A p \in Migrators : pc[p] \in Locked => lockHolder = p

(* A migrator builds the index its cursor names, of an unrecorded migration. *)
BuildsUnrecorded ==
    \A p \in Migrators : pc[p] \in {"building", "awaiting"} =>
        At(p) \notin known[p] /\ IndexAt(p) \in Indexes

(* The indexes before the cursor exist. *)
PassedIndexesExist ==
    \A p \in Migrators : pc[p] \in Working =>
        /\ cursor[p][2] > 0
        /\ \A i \in Indexes : i[1] = At(p) /\ i[2] < cursor[p][2] => index[i] # "absent"

IndInv ==
    /\ TypeOK /\ Exclusive /\ AppliedInOrder /\ AppliedOnce /\ KnowledgeCurrent
    /\ BuildsUnrecorded /\ PassedIndexesExist /\ RecordedIndexExists

-----------------------------------------------------------------------------
LEMMA IndexType ==
    ASSUME NEW i
    PROVE  i \in Indexes <=> /\ i = <<i[1], i[2]>> /\ i[1] \in Migrations
                             /\ i[2] \in 1..IndexCount[i[1]]
BY DEF Indexes

(* A recorded prefix is an interval. *)
LEMMA AppliedIsPrefix ==
    ASSUME TypeOK, AppliedInOrder
    PROVE  Len(rows) \in Nat /\ Applied = 1..Len(rows)
<1>1. rows \in Seq(Migrations) /\ Len(rows) \in Nat
  BY DEF TypeOK
<1>2. \A i \in 1..Len(rows) : rows[i] = i
  BY DEF AppliedInOrder
<1> QED BY <1>1, <1>2 DEF Applied

(* What a step that records a migration has in hand. *)
LEMMA RecordsTheNext ==
    ASSUME IndInv, NEW p \in Migrators, pc[p] = "next",
           At(p) \in Migrations \ (known[p] \union Applied)
    PROVE  /\ At(p) = Len(rows) + 1 /\ Applied = 1..Len(rows) /\ Len(rows) \in Nat
           /\ Append(rows, At(p)) \in Seq(Migrations)
           /\ Len(Append(rows, At(p))) = Len(rows) + 1
           /\ \A i \in 1..(Len(rows) + 1) : Append(rows, At(p))[i] = i
           /\ ups[At(p)] = 0
<1>1. Applied = 1..Len(rows) /\ Len(rows) \in Nat
  BY AppliedIsPrefix DEF IndInv
<1>2. At(p) \in Migrations /\ At(p) \in Nat /\ At(p) \notin 1..Len(rows)
  BY <1>1, MigrationsAssumption DEF Migrations
<1>3. 1..(At(p) - 1) \subseteq 1..Len(rows)
  BY <1>1 DEF IndInv, KnowledgeCurrent
<1>4. At(p) = Len(rows) + 1
  <2>1. At(p) > Len(rows)
    BY <1>1, <1>2, MigrationsAssumption DEF Migrations
  <2>2. At(p) - 1 <= Len(rows)
    <3>1. CASE At(p) = 1
      BY <3>1, <1>1
    <3>2. CASE At(p) # 1
      <4>1. At(p) - 1 \in 1..(At(p) - 1)
        BY <3>2, <1>2, MigrationsAssumption DEF Migrations
      <4> QED BY <4>1, <1>3, <1>1
    <3> QED BY <3>1, <3>2
  <2> QED BY <2>1, <2>2, <1>1, <1>2
<1>5. rows \in Seq(Migrations) /\ \A i \in 1..Len(rows) : rows[i] = i
  BY DEF IndInv, TypeOK, AppliedInOrder
<1>6. ups[At(p)] = 0
  BY <1>2 DEF IndInv, AppliedOnce
<1> DEFINE m == At(p)
<1> HIDE DEF m
<1>7. /\ Append(rows, m) \in Seq(Migrations) /\ Len(Append(rows, m)) = Len(rows) + 1
      /\ \A i \in 1..(Len(rows) + 1) : Append(rows, m)[i] = i
  <2>1. m \in Migrations /\ m = Len(rows) + 1
    BY <1>2, <1>4 DEF m
  <2> QED BY <2>1, <1>1, <1>5
<1> QED BY <1>1, <1>4, <1>6, <1>7 DEF m

-----------------------------------------------------------------------------
LEMMA InitInv == Init => IndInv
<1> SUFFICES ASSUME Init PROVE IndInv
  OBVIOUS
<1> USE MigrationsAssumption DEF Init
<1>1. rows \in Seq(Migrations) /\ Len(rows) = Deployed /\ Deployed \in Nat
  <2>1. Deployed \in Nat /\ Deployed <= Newest
    BY DEF Migrations
  <2>2. \A m \in 1..Deployed : m \in Migrations
    BY <2>1 DEF Migrations
  <2> QED BY <2>1, <2>2
<1>2. AppliedInOrder
  BY <1>1 DEF AppliedInOrder
<1>3. Applied = 1..Deployed
  BY <1>1 DEF Applied
<1>4. TypeOK
  <2>1. ups \in [Migrations -> Nat]
    OBVIOUS
  <2>2. index \in [Indexes -> {"absent", "building", "invalid", "valid"}]
    OBVIOUS
  <2> QED BY <1>1, <2>1, <2>2 DEF TypeOK, Locked
<1>5. AppliedOnce
  BY <1>3 DEF AppliedOnce, Migrations
<1>6. RecordedIndexExists
  BY <1>3, IndexType DEF RecordedIndexExists, Builds
<1>7. Exclusive /\ KnowledgeCurrent /\ BuildsUnrecorded /\ PassedIndexesExist
  BY DEF Exclusive, Locked, KnowledgeCurrent, BuildsUnrecorded, PassedIndexesExist, Working
<1> QED BY <1>2, <1>4, <1>5, <1>6, <1>7 DEF IndInv

-----------------------------------------------------------------------------
(* Preservation: types, the lock, then what the database says.              *)

LEMMA TypeStep == IndInv /\ [Next]_vars => TypeOK'
<1> SUFFICES ASSUME IndInv, [Next]_vars PROVE TypeOK'
  OBVIOUS
<1> TypeOK /\ MigrationsAssumption
  BY MigrationsAssumption DEF IndInv
<1> USE DEF TypeOK
<1> DEFINE Database == /\ rows \in Seq(Migrations) /\ ups \in [Migrations -> Nat]
                       /\ index \in [Indexes -> {"absent", "building", "invalid", "valid"}]
<1>1. ASSUME UNCHANGED vars PROVE TypeOK'
  BY <1>1 DEF vars, database
<1>2. ASSUME EndOrphanedBuild PROVE TypeOK'
  BY <1>2 DEF EndOrphanedBuild
<1>3. ASSUME NEW p \in Migrators, Connect(p) \/ Restart(p) PROVE TypeOK'
  <2>1. CASE Connect(p)
    <3>1. attempts' \in [Migrators -> 0..MaxAttempts]
      BY <2>1 DEF Connect
    <3>2. pc' \in [Migrators -> Locked \union {"idle", "locking", "done", "failed", "hung"}]
      BY <2>1 DEF Connect, Goto
    <3> QED BY <2>1, <3>1, <3>2 DEF Connect, database
  <2>2. CASE Restart(p)
    BY <2>2 DEF Restart, Goto, database
  <2> QED BY <1>3, <2>1, <2>2
<1>4. ASSUME NEW p \in Migrators, Migrate(p) PROVE TypeOK'
  <2>0. /\ cursor[p] \in Nat \X Nat /\ cursor[p][1] \in Nat /\ cursor[p][2] \in Nat
        /\ <<cursor[p][1] + 1, 1>> \in Nat \X Nat
        /\ <<cursor[p][1], cursor[p][2] + 1>> \in Nat \X Nat
    OBVIOUS
  <2>1. CASE AcquireLock(p)
    BY <2>1 DEF AcquireLock, Goto, DropSnapshot, database, Locked
  <2>2. CASE LoadApplied(p)
    <3>1. Applied \in SUBSET Migrations
      BY DEF Applied
    <3>2. known' \in [Migrators -> SUBSET Migrations] /\ cursor' \in [Migrators -> Nat \X Nat]
      BY <2>2, <3>1 DEF LoadApplied
    <3> QED BY <2>2, <3>2 DEF LoadApplied, Goto, database, Locked
  <2>3. CASE SkipApplied(p)
    <3>1. cursor' \in [Migrators -> Nat \X Nat]
      BY <2>0, <2>3 DEF SkipApplied, At
    <3> QED BY <2>3, <3>1 DEF SkipApplied, database
  <2>4. CASE ApplyInTransaction(p) \/ RecordIndexes(p)
    <3>1. /\ pc[p] = "next" /\ At(p) \in Migrations \ (known[p] \union Applied)
          /\ ups' = [ups EXCEPT ![At(p)] = @ + 1] /\ rows' = Append(rows, At(p))
          /\ cursor' = [cursor EXCEPT ![p] = <<At(p) + 1, 1>>]
          /\ UNCHANGED <<index, lockHolder, pc, known, waitsFor, attempts>>
      BY <2>4 DEF ApplyInTransaction, RecordIndexes
    <3>2. rows' \in Seq(Migrations)
      BY <3>1, RecordsTheNext
    <3>3. cursor' \in [Migrators -> Nat \X Nat]
      BY <2>0, <3>1 DEF At
    <3>4. ups' \in [Migrations -> Nat]
      BY <3>1
    <3> QED BY <3>1, <3>2, <3>3, <3>4
  <2>5. CASE CreateIndex(p)
    <3>1. cursor' \in [Migrators -> Nat \X Nat]
      <4>1. \/ UNCHANGED cursor
            \/ cursor' = [cursor EXCEPT ![p] = <<cursor[p][1], cursor[p][2] + 1>>]
        BY <2>5 DEF CreateIndex
      <4> QED BY <2>0, <4>1
    <3>2. index' \in [Indexes -> {"absent", "building", "invalid", "valid"}]
      BY <2>5 DEF CreateIndex
    <3>3. pc' \in [Migrators -> Locked \union {"idle", "locking", "done", "failed", "hung"}]
      BY <2>5 DEF CreateIndex, Goto, Locked
    <3> QED BY <2>5, <3>1, <3>2, <3>3 DEF CreateIndex
  <2>6. CASE AwaitSnapshots(p)
    BY <2>6 DEF AwaitSnapshots, Goto, database, Locked
  <2>7. CASE FinishIndex(p)
    <3>1. cursor' \in [Migrators -> Nat \X Nat]
      BY <2>0, <2>7 DEF FinishIndex
    <3>2. index' \in [Indexes -> {"absent", "building", "invalid", "valid"}]
      BY <2>7 DEF FinishIndex
    <3> QED BY <2>7, <3>1, <3>2 DEF FinishIndex, Goto, Locked
  <2>8. CASE Complete(p) \/ Unlock(p)
    BY <2>8 DEF Complete, Unlock, Goto, database, Locked
  <2> QED BY <1>4, <2>1, <2>2, <2>3, <2>4, <2>5, <2>6, <2>7, <2>8 DEF Migrate
<1>5. ASSUME NEW p \in Migrators, CancelIndex(p) PROVE TypeOK'
  BY <1>5 DEF CancelIndex, Goto, Locked
<1>6. ASSUME NEW p \in Migrators, CancelLocking(p) PROVE TypeOK'
  BY <1>6 DEF CancelLocking, DropSnapshot, Goto, database
<1>7. ASSUME NEW p \in Migrators, RollBack(p) \/ Crash(p) PROVE TypeOK'
  <2>1. CASE RollBack(p)
    BY <2>1 DEF RollBack, Goto, database, Locked
  <2>2. CASE Crash(p)
    <3>1. waitsFor' \in [Migrators -> SUBSET Migrators]
      BY <2>2 DEF Crash
    <3> QED BY <2>2, <3>1 DEF Crash, Goto, database, Locked
  <2> QED BY <1>7, <2>1, <2>2
<1>8. ASSUME NEW p \in Migrators, Disturb(p) PROVE TypeOK'
  BY <1>5, <1>6, <1>7, <1>8 DEF Disturb, Timeout
<1> QED BY <1>1, <1>2, <1>3, <1>4, <1>8 DEF Next

(* Mutual exclusion: a migrator that passes the lock finds nobody inside. *)
LEMMA ExclusiveStep == IndInv /\ [Next]_vars => Exclusive'
<1> SUFFICES ASSUME IndInv, [Next]_vars PROVE Exclusive'
  OBVIOUS
<1>0. Exclusive /\ TypeOK /\ None \notin Migrators
  BY MigrationsAssumption DEF IndInv
<1> USE <1>0 DEF Exclusive, Locked, TypeOK
<1>1. ASSUME UNCHANGED vars \/ EndOrphanedBuild PROVE Exclusive'
  BY <1>1 DEF vars, EndOrphanedBuild
<1>2. ASSUME NEW p \in Migrators, Connect(p) \/ Restart(p) PROVE Exclusive'
  BY <1>2 DEF Connect, Restart, Goto
<1>3. ASSUME NEW p \in Migrators, AcquireLock(p) PROVE Exclusive'
  BY <1>3 DEF AcquireLock, Goto
<1>4. ASSUME NEW p \in Migrators, Unlock(p) \/ Crash(p) PROVE Exclusive'
  BY <1>4 DEF Unlock, Crash, Goto
<1>5. ASSUME NEW p \in Migrators,
             LoadApplied(p) \/ AwaitSnapshots(p) \/ FinishIndex(p) \/ Complete(p) \/ RollBack(p)
      PROVE  Exclusive'
  BY <1>5 DEF LoadApplied, AwaitSnapshots, FinishIndex, Complete, RollBack, Goto
<1>6. ASSUME NEW p \in Migrators,
             SkipApplied(p) \/ ApplyInTransaction(p) \/ RecordIndexes(p) \/ CreateIndex(p)
      PROVE  Exclusive'
  BY <1>6 DEF SkipApplied, ApplyInTransaction, RecordIndexes, CreateIndex, Goto
<1>7. ASSUME NEW p \in Migrators, CancelLocking(p) PROVE Exclusive'
  BY <1>7 DEF CancelLocking, Goto
<1>8. ASSUME NEW p \in Migrators, CancelIndex(p), pc[p] \in {"building", "awaiting"}
      PROVE  Exclusive'
  BY <1>8 DEF CancelIndex, Goto
<1>9. ASSUME NEW p \in Migrators, Migrate(p) \/ Disturb(p) PROVE Exclusive'
  BY <1>3, <1>4, <1>5, <1>6, <1>7, <1>8, <1>9 DEF Migrate, Disturb, Timeout
<1> QED BY <1>1, <1>2, <1>9 DEF Next

(* The conjuncts that relate the database to what a migrator knows. *)
DataInv ==
    /\ AppliedInOrder /\ AppliedOnce /\ KnowledgeCurrent
    /\ BuildsUnrecorded /\ PassedIndexesExist /\ RecordedIndexExists

(* A migrator that leaves the loop, or is not in it, disturbs nothing. *)
LEMMA LeavingStep ==
    ASSUME IndInv, UNCHANGED <<database, known, cursor>>,
           \A o \in Migrators : pc'[o] \in Working => pc'[o] = pc[o]
    PROVE  DataInv'
<1> UNCHANGED <<rows, ups, index, known, cursor, Applied>>
  BY DEF database, Applied
<1> \A o \in Migrators, i \in Indexes : Builds(o, i)' => Builds(o, i)
  BY DEF Builds, IndexAt, Working
<1>1. AppliedInOrder' /\ AppliedOnce'
  BY DEF IndInv, AppliedInOrder, AppliedOnce
<1>2. KnowledgeCurrent' /\ BuildsUnrecorded'
  BY DEF IndInv, KnowledgeCurrent, BuildsUnrecorded, At, IndexAt, Working
<1>3. PassedIndexesExist'
  BY DEF IndInv, PassedIndexesExist, At, Working
<1>4. RecordedIndexExists'
  BY DEF IndInv, RecordedIndexExists
<1> QED BY <1>1, <1>2, <1>3, <1>4 DEF DataInv

(* Recording a migration whose indexes, if any, all exist. *)
LEMMA RecordingStep ==
    ASSUME IndInv, TypeOK', NEW p \in Migrators, pc[p] = "next",
           At(p) \in Migrations \ (known[p] \union Applied),
           \A i \in Indexes : i[1] = At(p) => index[i] # "absent",
           ups' = [ups EXCEPT ![At(p)] = @ + 1], rows' = Append(rows, At(p)),
           cursor' = [cursor EXCEPT ![p] = <<At(p) + 1, 1>>],
           UNCHANGED <<index, lockHolder, pc, known, waitsFor, attempts>>
    PROVE  DataInv'
<1> DEFINE m == At(p)
           n == Len(rows)
<1>1. /\ m = n + 1 /\ Applied = 1..n /\ n \in Nat /\ ups[m] = 0
      /\ rows' \in Seq(Migrations) /\ Len(rows') = n + 1
      /\ \A i \in 1..(n + 1) : rows'[i] = i
  BY RecordsTheNext
<1>2. AppliedInOrder'
  BY <1>1 DEF AppliedInOrder
<1>3. Applied' = 1..(n + 1)
  BY <1>1 DEF Applied
<1>4. Applied' = Applied \union {m} /\ m \notin Applied /\ m \in Migrations
  BY <1>1, <1>3
<1>5. TypeOK /\ Exclusive
  BY DEF IndInv
<1>6. \A o \in Migrators : pc[o] \in Working => o = p
  BY <1>5 DEF Exclusive, Locked, Working
<1>7. cursor'[p] = <<m + 1, 1>> /\ At(p)' = m + 1 /\ cursor'[p][2] = 1
  BY <1>5 DEF At, TypeOK
<1> HIDE DEF m, n
<1>8. AppliedOnce'
  <2> SUFFICES ASSUME NEW k \in Migrations
               PROVE  ups'[k] = IF k \in Applied' THEN 1 ELSE 0
    BY DEF AppliedOnce
  <2>1. ups[k] = IF k \in Applied THEN 1 ELSE 0
    BY DEF IndInv, AppliedOnce
  <2>2. CASE k = m
    BY <2>2, <1>1, <1>4, <1>5 DEF TypeOK, m
  <2>3. CASE k # m
    BY <2>1, <2>3, <1>4, <1>5 DEF TypeOK, m
  <2> QED BY <2>2, <2>3
<1>9. KnowledgeCurrent'
  <2>1. Applied = known[p] \union 1..(m - 1)
    BY DEF IndInv, KnowledgeCurrent, m
  <2>2. 1..(m + 1 - 1) = 1..(m - 1) \union {m}
    BY <1>1
  <2>3. Applied' = known'[p] \union 1..(At(p)' - 1)
    BY <2>1, <2>2, <1>4, <1>7
  <2> QED BY <2>3, <1>6 DEF KnowledgeCurrent, Working
<1>10. BuildsUnrecorded'
  BY <1>6 DEF BuildsUnrecorded, Working
<1>11. PassedIndexesExist'
  <2>1. \A i \in Indexes : ~(i[1] = m + 1 /\ i[2] < 1)
    BY IndexType, MigrationsAssumption DEF Migrations
  <2> QED BY <2>1, <1>6, <1>7 DEF PassedIndexesExist
<1>12. RecordedIndexExists'
  <2>1. \A o \in Migrators, i \in Indexes : ~Builds(o, i)'
    BY <1>6 DEF Builds, Working
  <2>2. \A i \in Indexes : i[1] \in Applied' => index'[i] # "absent"
    BY <1>4 DEF IndInv, RecordedIndexExists, m
  <2> QED BY <2>1, <2>2 DEF RecordedIndexExists
<1> QED BY <1>2, <1>8, <1>9, <1>10, <1>11, <1>12 DEF DataInv

(* The steps of the loop that move the cursor without recording. *)
LEMMA CursorStep ==
    ASSUME IndInv, TypeOK', NEW p \in Migrators, LoadApplied(p) \/ SkipApplied(p)
    PROVE  DataInv'
<1>1. TypeOK /\ Exclusive
  BY DEF IndInv
<1>2. /\ UNCHANGED <<rows, ups, index, Applied>>
      /\ pc[p] \in Locked /\ pc'[p] = "next" /\ \A o \in Migrators : o # p => pc'[o] = pc[o]
  <2>1. CASE LoadApplied(p)
    <3>1. UNCHANGED <<rows, ups, index>> /\ pc[p] = "prepare" /\ pc' = [pc EXCEPT ![p] = "next"]
      BY <2>1 DEF LoadApplied, Goto, database
    <3>2. UNCHANGED Applied
      BY <3>1 DEF Applied
    <3>3. DOMAIN pc = Migrators
      BY <1>1 DEF TypeOK
    <3> QED BY <3>1, <3>2, <3>3 DEF Locked
  <2>2. CASE SkipApplied(p)
    <3>1. UNCHANGED <<rows, ups, index, pc>> /\ pc[p] = "next"
      BY <2>2 DEF SkipApplied, database
    <3>2. UNCHANGED Applied
      BY <3>1 DEF Applied
    <3> QED BY <3>1, <3>2 DEF Locked
  <2> QED BY <2>1, <2>2
<1>3. \A o \in Migrators : pc'[o] \in Working => o = p
  BY <1>1, <1>2 DEF Exclusive, Locked, Working
<1>4. AppliedInOrder' /\ AppliedOnce'
  BY <1>2 DEF IndInv, AppliedInOrder, AppliedOnce
<1>5. Applied = known'[p] \union 1..(At(p)' - 1)
  <2>1. CASE LoadApplied(p)
    <3>1. known'[p] = Applied /\ At(p)' = 1
      BY <2>1, <1>1 DEF LoadApplied, At, TypeOK
    <3> QED BY <3>1
  <2>2. CASE SkipApplied(p)
    <3>1. At(p)' = At(p) + 1 /\ known' = known /\ At(p) \in known[p] /\ At(p) \in Nat
      BY <2>2, <1>1 DEF SkipApplied, At, TypeOK
    <3>2. Applied = known[p] \union 1..(At(p) - 1)
      BY <2>2 DEF SkipApplied, IndInv, KnowledgeCurrent
    <3>3. At(p) \in Migrations
      BY <3>1, <1>1 DEF TypeOK
    <3>4. 1..(At(p) + 1 - 1) = 1..(At(p) - 1) \union {At(p)}
      BY <3>3, MigrationsAssumption DEF Migrations
    <3> QED BY <3>1, <3>2, <3>4
  <2> QED BY <2>1, <2>2
<1>6. KnowledgeCurrent'
  BY <1>2, <1>3, <1>5 DEF KnowledgeCurrent, Working
<1>7. BuildsUnrecorded' /\ (\A o \in Migrators, i \in Indexes : ~Builds(o, i)')
  BY <1>2, <1>3 DEF BuildsUnrecorded, Builds, Working
<1>8. PassedIndexesExist'
  <2>1. cursor'[p][2] = 1
    BY <1>1 DEF LoadApplied, SkipApplied, TypeOK
  <2>2. \A i \in Indexes : ~(i[2] < 1)
    BY IndexType, MigrationsAssumption DEF Migrations
  <2> QED BY <1>3, <2>1, <2>2 DEF PassedIndexesExist
<1>9. RecordedIndexExists'
  BY <1>2, <1>7 DEF IndInv, RecordedIndexExists
<1> QED BY <1>4, <1>6, <1>7, <1>8, <1>9 DEF DataInv

(* A step that changes indexes, never to absent. *)
LEMMA IndexStep ==
    ASSUME IndInv, TypeOK', UNCHANGED <<rows, ups, known>>,
           \A i \in Indexes : index'[i] = "absent" => index[i] = "absent",
           \A o \in Migrators :
              /\ pc'[o] \in Working => pc[o] \in Working /\ At(o)' = At(o)
              /\ pc'[o] \in {"building", "awaiting"} =>
                    At(o) \notin known[o] /\ IndexAt(o) \in Indexes /\ UNCHANGED cursor[o]
              /\ pc'[o] \in Working => 
                    \/ UNCHANGED cursor[o]
                    \/ /\ cursor'[o][2] = cursor[o][2] + 1
                       /\ IndexAt(o) \in Indexes => index'[IndexAt(o)] # "absent"
    PROVE  DataInv'
<1>1. TypeOK /\ UNCHANGED Applied
  BY DEF IndInv, Applied
<1>2. AppliedInOrder' /\ AppliedOnce'
  BY <1>1 DEF IndInv, AppliedInOrder, AppliedOnce
<1>3. KnowledgeCurrent' /\ BuildsUnrecorded'
  BY <1>1 DEF IndInv, KnowledgeCurrent, BuildsUnrecorded, Working, At, IndexAt
<1>4. PassedIndexesExist'
  <2> SUFFICES ASSUME NEW o \in Migrators, pc'[o] \in Working
               PROVE  /\ cursor'[o][2] > 0
                      /\ \A i \in Indexes : i[1] = At(o)' /\ i[2] < cursor'[o][2]
                                                => index'[i] # "absent"
    BY DEF PassedIndexesExist
  <2>1. /\ cursor[o][2] > 0 /\ cursor[o][2] \in Nat /\ At(o)' = At(o)
        /\ \A i \in Indexes : i[1] = At(o) /\ i[2] < cursor[o][2] => index[i] # "absent"
    BY <1>1 DEF IndInv, PassedIndexesExist, TypeOK
  <2>2. CASE UNCHANGED cursor[o]
    BY <2>1, <2>2
  <2>3. CASE /\ cursor'[o][2] = cursor[o][2] + 1
             /\ IndexAt(o) \in Indexes => index'[IndexAt(o)] # "absent"
    <3> SUFFICES ASSUME NEW i \in Indexes, i[1] = At(o), i[2] < cursor[o][2] + 1
                 PROVE  index'[i] # "absent"
      BY <2>1, <2>3
    <3>1. i[2] \in Nat /\ i = <<i[1], i[2]>>
      BY IndexType, MigrationsAssumption DEF Migrations
    <3>2. CASE i[2] = cursor[o][2]
      <4>1. i = IndexAt(o)
        BY <3>1, <3>2 DEF At, IndexAt
      <4> QED BY <4>1, <2>3
    <3>3. CASE i[2] < cursor[o][2]
      BY <3>3, <2>1
    <3> QED BY <2>1, <3>1, <3>2, <3>3
  <2> QED BY <2>2, <2>3
<1>5. RecordedIndexExists'
  <2>1. \A i \in Indexes : i[1] \in Applied' => index'[i] # "absent"
    BY <1>1 DEF IndInv, RecordedIndexExists
  <2>2. ASSUME NEW o \in Migrators, NEW i \in Indexes, i[1] \in Applied', Builds(o, i)'
        PROVE  FALSE
    <3>1. /\ pc'[o] \in {"building", "awaiting"} /\ i[1] = At(o) /\ At(o) \notin known[o]
          /\ pc[o] \in Working /\ IndexAt(o) \in Indexes
      BY <2>2 DEF Builds, IndexAt, At, Working
    <3>2. Applied = known[o] \union 1..(At(o) - 1)
      BY <3>1 DEF IndInv, KnowledgeCurrent, Working
    <3>3. At(o) \in Nat /\ At(o) \notin 1..(At(o) - 1)
      BY <1>1 DEF TypeOK, At
    <3> QED BY <3>1, <3>2, <3>3, <2>2, <1>1
  <2> QED BY <2>1, <2>2 DEF RecordedIndexExists
<1> QED BY <1>2, <1>3, <1>4, <1>5 DEF DataInv

LEMMA CreateIndexStep ==
    ASSUME IndInv, TypeOK', NEW p \in Migrators, CreateIndex(p)
    PROVE  DataInv'
<1>1. TypeOK
  BY DEF IndInv
<1>2. /\ UNCHANGED <<rows, ups, known>> /\ pc[p] = "next" /\ IndexAt(p) \in Indexes
      /\ At(p) \notin known[p] /\ cursor[p] = <<cursor[p][1], cursor[p][2]>>
  BY <1>1 DEF CreateIndex, TypeOK
<1>3. CASE index[IndexAt(p)] = "absent"
  <2>1. /\ index' = [index EXCEPT ![IndexAt(p)] = "building"]
        /\ pc' = [pc EXCEPT ![p] = "building"] /\ UNCHANGED cursor
    BY <1>3 DEF CreateIndex, Goto
  <2> QED BY <1>1, <1>2, <2>1, IndexStep
            DEF At, IndexAt, Working, TypeOK, IndInv, BuildsUnrecorded
<1>4. CASE index[IndexAt(p)] # "absent"
  <2>1. /\ cursor' = [cursor EXCEPT ![p] = <<cursor[p][1], cursor[p][2] + 1>>]
        /\ UNCHANGED <<index, pc>>
    BY <1>4 DEF CreateIndex
  <2> QED BY <1>1, <1>2, <1>4, <2>1, IndexStep
            DEF At, IndexAt, Working, TypeOK, IndInv, BuildsUnrecorded
<1> QED BY <1>3, <1>4

LEMMA FinishIndexStep ==
    ASSUME IndInv, TypeOK', NEW p \in Migrators, FinishIndex(p)
    PROVE  DataInv'
<1>1. TypeOK
  BY DEF IndInv
<1>2. /\ index' = [index EXCEPT ![IndexAt(p)] = "valid"] /\ pc[p] = "awaiting"
      /\ cursor' = [cursor EXCEPT ![p] = <<cursor[p][1], cursor[p][2] + 1>>]
      /\ pc' = [pc EXCEPT ![p] = "next"] /\ UNCHANGED <<rows, ups, known>>
  BY <1>1 DEF FinishIndex, Goto
<1> QED BY <1>1, <1>2, IndexStep DEF At, IndexAt, Working, TypeOK, IndInv, BuildsUnrecorded

LEMMA AwaitSnapshotsStep ==
    ASSUME IndInv, TypeOK', NEW p \in Migrators, AwaitSnapshots(p)
    PROVE  DataInv'
<1>1. TypeOK
  BY DEF IndInv
<1>2. /\ UNCHANGED <<rows, ups, known, cursor, index>> /\ pc[p] = "building"
      /\ pc' = [pc EXCEPT ![p] = "awaiting"]
  BY DEF AwaitSnapshots, Goto, database
<1> QED BY <1>1, <1>2, IndexStep DEF At, IndexAt, Working, TypeOK, IndInv, BuildsUnrecorded

(* A cancelled build, of a live migrator or of a dead one. *)
LEMMA CancelIndexStep ==
    ASSUME IndInv, TypeOK', EndOrphanedBuild \/ \E p \in Migrators : CancelIndex(p)
    PROVE  DataInv'
<1>1. TypeOK
  BY DEF IndInv
<1>2. /\ UNCHANGED <<rows, ups, known, cursor>>
      /\ \A i \in Indexes : index'[i] = "absent" => index[i] = "absent"
      /\ \A o \in Migrators : pc'[o] \in Working => pc'[o] = pc[o]
  <2>1. CASE EndOrphanedBuild
    BY <2>1, <1>1 DEF EndOrphanedBuild, TypeOK
  <2>2. ASSUME NEW p \in Migrators, CancelIndex(p)
        PROVE <1>2!1 /\ <1>2!2 /\ <1>2!3
    BY <2>2, <1>1 DEF CancelIndex, Goto, Working, TypeOK
  <2> QED BY <2>1, <2>2
<1> QED BY <1>1, <1>2, IndexStep DEF At, IndexAt, Working, TypeOK, IndInv, BuildsUnrecorded

LEMMA DataStep == IndInv /\ [Next]_vars => DataInv'
<1> SUFFICES ASSUME IndInv, [Next]_vars PROVE DataInv'
  OBVIOUS
<1>1. TypeOK' /\ TypeOK
  BY TypeStep DEF IndInv
<1>2. ASSUME UNCHANGED vars PROVE DataInv'
  BY <1>2, LeavingStep DEF vars, database
<1>3. ASSUME NEW p \in Migrators,
             \/ Connect(p) \/ Restart(p) \/ AcquireLock(p) \/ Complete(p) \/ Unlock(p)
             \/ RollBack(p) \/ Crash(p) \/ CancelLocking(p)
      PROVE  DataInv'
  <2>1. UNCHANGED <<database, known, cursor>>
    BY <1>3 DEF Connect, Restart, AcquireLock, Complete, Unlock, RollBack, Crash, CancelLocking
  <2>2. \A o \in Migrators : pc'[o] \in Working => pc'[o] = pc[o]
    <3>1. \E s \in {"idle", "locking", "prepare", "unlock", "done", "failed", "abort", "hung"} :
              pc' = [pc EXCEPT ![p] = s]
      <4>1. CASE Connect(p) \/ Restart(p) \/ AcquireLock(p) \/ Complete(p)
        BY <4>1 DEF Connect, Restart, AcquireLock, Complete, Goto
      <4>2. CASE Unlock(p)
        BY <4>2 DEF Unlock, Goto
      <4>3. CASE RollBack(p) \/ Crash(p) \/ CancelLocking(p)
        BY <4>3 DEF RollBack, Crash, CancelLocking, Goto
      <4> QED BY <1>3, <4>1, <4>2, <4>3
    <3> QED BY <1>1, <3>1 DEF Working, TypeOK
  <2> QED BY <2>1, <2>2, LeavingStep
<1>4. ASSUME NEW p \in Migrators, ApplyInTransaction(p) PROVE DataInv'
  <2>1. \A i \in Indexes : i[1] # At(p)
    BY <1>4, IndexType, MigrationsAssumption DEF ApplyInTransaction, InTransaction
  <2> QED BY <1>1, <1>4, <2>1, RecordingStep DEF ApplyInTransaction
<1>5. ASSUME NEW p \in Migrators, RecordIndexes(p) PROVE DataInv'
  <2>1. \A i \in Indexes : i[1] = At(p) => index[i] # "absent"
    <3> SUFFICES ASSUME NEW i \in Indexes, i[1] = At(p) PROVE index[i] # "absent"
      OBVIOUS
    <3>1. /\ IndexAt(p) \notin Indexes /\ pc[p] = "next" /\ At(p) \in Migrations
          /\ cursor[p][2] > 0 /\ cursor[p][2] \in Nat
      BY <1>1, <1>5 DEF RecordIndexes, IndInv, PassedIndexesExist, Working, TypeOK
    <3>2. cursor[p][2] \notin 1..IndexCount[At(p)]
      BY <3>1, IndexType DEF IndexAt, At
    <3>3. i[2] < cursor[p][2]
      BY <3>1, <3>2, IndexType, MigrationsAssumption
    <3> QED BY <3>1, <3>3 DEF IndInv, PassedIndexesExist, Working
  <2> QED BY <1>1, <1>5, <2>1, RecordingStep DEF RecordIndexes
<1>6. ASSUME NEW p \in Migrators, Migrate(p) PROVE DataInv'
  BY <1>1, <1>3, <1>4, <1>5, <1>6, CursorStep, CreateIndexStep, FinishIndexStep,
     AwaitSnapshotsStep DEF Migrate
<1>7. ASSUME NEW p \in Migrators, Disturb(p) PROVE DataInv'
  <2>1. \/ RollBack(p) \/ Crash(p) \/ CancelIndex(p)
        \/ \E o \in Migrators : CancelLocking(o)
    BY <1>1, <1>7 DEF Disturb, Timeout, TypeOK
  <2> QED BY <1>1, <1>3, <2>1, CancelIndexStep
<1>8. ASSUME EndOrphanedBuild PROVE DataInv'
  BY <1>1, <1>8, CancelIndexStep
<1> QED BY <1>2, <1>3, <1>6, <1>7, <1>8 DEF Next

LEMMA IndInvHolds == Spec => []IndInv
<1>1. IndInv /\ [Next]_vars => IndInv'
  BY TypeStep, ExclusiveStep, DataStep DEF IndInv, DataInv
<1> QED BY InitInv, <1>1, PTL DEF Spec

-----------------------------------------------------------------------------
(* Every variable holds a value of its type. *)
THEOREM TypeCorrect == Spec => []TypeOK
BY IndInvHolds, PTL DEF IndInv

(* Whatever crashes, fails or runs beside it, a migration of                *)
(* runMigrationsWithLock takes effect once, exactly when it is recorded.   *)
THEOREM MigrationsAppliedOnce == Spec => []AppliedOnce
BY IndInvHolds, PTL DEF IndInv

(* schema_migrations holds a prefix of the migrations, in their order. *)
THEOREM MigrationsInOrder == Spec => []AppliedInOrder
BY IndInvHolds, PTL DEF IndInv

(* A recorded noTransaction migration has its indexes, and nobody builds one. *)
THEOREM RecordedIndexes == Spec => []RecordedIndexExists
BY IndInvHolds, PTL DEF IndInv

(* What loadAppliedMigrations read does not grow stale under the lock. *)
THEOREM KnowledgeIsCurrent == Spec => []KnowledgeCurrent
BY IndInvHolds, PTL DEF IndInv

(* schema_migrations tells what has happened to the database: the four above *)
(* in every state at once.                                                  *)
THEOREM HistoryIsSound == Spec => []HistorySound
BY MigrationsAppliedOnce, MigrationsInOrder, RecordedIndexes, KnowledgeIsCurrent, PTL DEF HistorySound

(* checkDatabaseReadiness looks at one row; that row vouches for the others. *)
THEOREM ReadinessSound == Spec => []ReadyMeansMigrated
<1>1. IndInv => ReadyMeansMigrated
  <2> SUFFICES ASSUME IndInv, Ready(Newest) PROVE Applied = Migrations
    BY DEF ReadyMeansMigrated
  <2>1. Applied = 1..Len(rows) /\ Len(rows) \in Nat
    BY AppliedIsPrefix DEF IndInv
  <2>2. Len(rows) = Newest
    BY <2>1 DEF Ready, IndInv, AppliedInOrder
  <2> QED BY <2>1, <2>2 DEF Migrations
<1> QED BY <1>1, IndInvHolds, PTL
=============================================================================
