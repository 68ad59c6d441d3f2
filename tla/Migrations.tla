----------------------------- MODULE Migrations -----------------------------
(***************************************************************************)
(* packages/server/migrations/runMigrations.js and the readiness check of  *)
(* packages/server/db.js: processes that migrate one PostgreSQL database,  *)
(* each holding a session advisory lock while it applies what is missing.  *)
(*                                                                         *)
(* A migration runs in a transaction of its own, or, with noTransaction,   *)
(* it builds its indexes with CREATE INDEX CONCURRENTLY IF NOT EXISTS.     *)
(* Such a statement waits for the statements whose snapshot is older, and  *)
(* leaves an invalid index behind when it is cancelled.                    *)
(***************************************************************************)
EXTENDS Integers, Sequences, FiniteSets

CONSTANTS Migrators,    \* the processes that call runMigrations
          Newest,       \* how many migrations there are, in the order of their file names
          IndexCount,   \* IndexCount[m]: the indexes of a noTransaction migration, 0 for others
          Deployed,     \* the newest migration of the release that is running
          MaxAttempts,  \* bound: the attempts of one migrator (backoffLimit)
          None

Migrations == 1..Newest

ASSUME MigrationsAssumption ==
    /\ Newest \in Nat
    /\ IndexCount \in [Migrations -> Nat]
    /\ Deployed \in Migrations
    /\ MaxAttempts \in Nat
    /\ None \notin Migrators

Indexes == UNION {{m} \X (1..IndexCount[m]) : m \in Migrations}
InTransaction(m) == IndexCount[m] = 0

VARIABLES
    rows,        \* the ids in schema_migrations, in the order of applied_at
    ups,         \* ups[m]: how often the statements of migration m took effect
    index,       \* index[i]: "absent", "building", "invalid" or "valid"
    lockHolder,  \* the migrator whose session holds the advisory lock, or None
    pc,          \* pc[p]: the next step of migrator p
    known,       \* known[p]: the ids p read from schema_migrations
    cursor,      \* cursor[p]: the migration p has reached, and its next index
    waitsFor,    \* waitsFor[p]: the migrators whose snapshot p's index build waits for
    attempts     \* attempts[p]: how often p has started

database == <<rows, ups, index>>
vars == <<database, lockHolder, pc, known, cursor, waitsFor, attempts>>

Applied == {rows[i] : i \in 1..Len(rows)}
Locked == {"prepare", "next", "building", "awaiting", "unlock", "abort"}

Goto(p, label) == pc' = [pc EXCEPT ![p] = label]
At(p) == cursor[p][1]
IndexAt(p) == <<cursor[p][1], cursor[p][2]>>

(* A statement that ends no longer holds a snapshot. *)
DropSnapshot(p) == waitsFor' = [o \in Migrators |-> waitsFor[o] \ {p}]

-----------------------------------------------------------------------------
(* The steps of a migrator.                                                 *)

(* getConnection, and SELECT pg_advisory_lock begins: it holds a snapshot   *)
(* for as long as it waits.                                                *)
Connect(p) ==
    /\ pc[p] = "idle" /\ attempts[p] < MaxAttempts
    /\ attempts' = [attempts EXCEPT ![p] = @ + 1]
    /\ Goto(p, "locking")
    /\ UNCHANGED <<database, lockHolder, known, cursor, waitsFor>>

AcquireLock(p) ==
    /\ pc[p] = "locking" /\ lockHolder = None
    /\ lockHolder' = p
    /\ DropSnapshot(p)
    /\ Goto(p, "prepare")
    /\ UNCHANGED <<database, known, cursor, attempts>>

(* Faulty variant: what is applied is read before the lock is held. *)
LoadAppliedEarly(p) ==
    /\ pc[p] = "prepare"
    /\ \E n \in 0..Len(rows) : known' = [known EXCEPT ![p] = {rows[i] : i \in 1..n}]
    /\ cursor' = [cursor EXCEPT ![p] = <<1, 1>>]
    /\ Goto(p, "next")
    /\ UNCHANGED <<database, lockHolder, waitsFor, attempts>>

(* ensureMigrationTable and loadAppliedMigrations. *)
LoadApplied(p) ==
    /\ pc[p] = "prepare"
    /\ known' = [known EXCEPT ![p] = Applied]
    /\ cursor' = [cursor EXCEPT ![p] = <<1, 1>>]
    /\ Goto(p, "next")
    /\ UNCHANGED <<database, lockHolder, waitsFor, attempts>>

SkipApplied(p) ==
    /\ pc[p] = "next" /\ At(p) \in known[p]
    /\ cursor' = [cursor EXCEPT ![p] = <<At(p) + 1, 1>>]
    /\ UNCHANGED <<database, lockHolder, pc, known, waitsFor, attempts>>

(* Faulty variant: the id of the following migration is recorded. *)
ApplyNext(p) ==
    /\ pc[p] = "next" /\ At(p) \in Migrations \ (known[p] \union Applied)
    /\ InTransaction(At(p))
    /\ ups' = [ups EXCEPT ![At(p)] = @ + 1]
    /\ rows' = Append(rows, At(p) + 1)
    /\ cursor' = [cursor EXCEPT ![p] = <<At(p) + 1, 1>>]
    /\ UNCHANGED <<index, lockHolder, pc, known, waitsFor, attempts>>

(* Statements and record commit together; the primary key of the record     *)
(* refuses a second application.                                           *)
ApplyInTransaction(p) ==
    /\ pc[p] = "next" /\ At(p) \in Migrations \ (known[p] \union Applied)
    /\ InTransaction(At(p))
    /\ ups' = [ups EXCEPT ![At(p)] = @ + 1]
    /\ rows' = Append(rows, At(p))
    /\ cursor' = [cursor EXCEPT ![p] = <<At(p) + 1, 1>>]
    /\ UNCHANGED <<index, lockHolder, pc, known, waitsFor, attempts>>

(* Faulty variant: the loop goes on after a rollback. *)
RollBackAndContinue(p) ==
    /\ pc[p] = "next" /\ At(p) \in Migrations \ known[p] /\ InTransaction(At(p))
    /\ cursor' = [cursor EXCEPT ![p] = <<At(p) + 1, 1>>]
    /\ UNCHANGED <<database, lockHolder, pc, known, waitsFor, attempts>>

(* A statement of a transaction fails: rollback, and the error is thrown. *)
RollBack(p) ==
    /\ pc[p] = "next" /\ At(p) \in Migrations \ known[p] /\ InTransaction(At(p))
    /\ Goto(p, "abort")
    /\ UNCHANGED <<database, lockHolder, known, cursor, waitsFor, attempts>>

(* CREATE INDEX CONCURRENTLY IF NOT EXISTS: any index of that name, an      *)
(* invalid one too, ends the statement.                                    *)
CreateIndex(p) ==
    /\ pc[p] = "next" /\ At(p) \in Migrations \ known[p] /\ IndexAt(p) \in Indexes
    /\ IF index[IndexAt(p)] = "absent"
       THEN /\ index' = [index EXCEPT ![IndexAt(p)] = "building"]
            /\ Goto(p, "building")
            /\ UNCHANGED cursor
       ELSE /\ cursor' = [cursor EXCEPT ![p] = <<@[1], @[2] + 1>>]
            /\ UNCHANGED <<index, pc>>
    /\ UNCHANGED <<rows, ups, lockHolder, known, waitsFor, attempts>>

(* The index is built; the statement waits for the older snapshots. *)
AwaitSnapshots(p) ==
    /\ pc[p] = "building"
    /\ waitsFor' = [waitsFor EXCEPT ![p] = {o \in Migrators : pc[o] = "locking"}]
    /\ Goto(p, "awaiting")
    /\ UNCHANGED <<database, lockHolder, known, cursor, attempts>>

FinishIndex(p) ==
    /\ pc[p] = "awaiting" /\ waitsFor[p] = {}
    /\ index' = [index EXCEPT ![IndexAt(p)] = "valid"]
    /\ cursor' = [cursor EXCEPT ![p] = <<@[1], @[2] + 1>>]
    /\ Goto(p, "next")
    /\ UNCHANGED <<rows, ups, lockHolder, known, waitsFor, attempts>>

(* recordAppliedMigration after the last index. *)
RecordIndexes(p) ==
    /\ pc[p] = "next" /\ At(p) \in Migrations \ (known[p] \union Applied)
    /\ ~InTransaction(At(p)) /\ IndexAt(p) \notin Indexes
    /\ rows' = Append(rows, At(p))
    /\ ups' = [ups EXCEPT ![At(p)] = @ + 1]
    /\ cursor' = [cursor EXCEPT ![p] = <<At(p) + 1, 1>>]
    /\ UNCHANGED <<index, lockHolder, pc, known, waitsFor, attempts>>

Complete(p) ==
    /\ pc[p] = "next" /\ At(p) \notin Migrations
    /\ Goto(p, "unlock")
    /\ UNCHANGED <<database, lockHolder, known, cursor, waitsFor, attempts>>

(* Faulty variant: a failed migrator keeps its session and the lock. *)
UnlockOnSuccess(p) ==
    /\ pc[p] \in {"unlock", "abort"}
    /\ lockHolder' = IF pc[p] = "unlock" THEN None ELSE lockHolder
    /\ Goto(p, IF pc[p] = "unlock" THEN "done" ELSE "failed")
    /\ UNCHANGED <<database, known, cursor, waitsFor, attempts>>

(* finally: pg_advisory_unlock, after a failure too. *)
Unlock(p) ==
    /\ pc[p] \in {"unlock", "abort"}
    /\ lockHolder' = None
    /\ Goto(p, IF pc[p] = "unlock" THEN "done" ELSE "failed")
    /\ UNCHANGED <<database, known, cursor, waitsFor, attempts>>

(* The Job starts a failed migrator again. *)
Restart(p) ==
    /\ pc[p] = "failed" /\ attempts[p] < MaxAttempts
    /\ Goto(p, "idle")
    /\ UNCHANGED <<database, lockHolder, known, cursor, waitsFor, attempts>>

-----------------------------------------------------------------------------
(* What the database and the cluster do to a migrator.                      *)

(* A cancelled build leaves its index invalid; the error reaches finally. *)
CancelIndex(p) ==
    /\ index' = [index EXCEPT ![IndexAt(p)] = "invalid"]
    /\ waitsFor' = [waitsFor EXCEPT ![p] = {}]
    /\ Goto(p, "abort")
    /\ UNCHANGED <<rows, ups, lockHolder, known, cursor, attempts>>

(* The lock query fails before the try block: its connection is never       *)
(* released, and sequelize.close() waits for it.                           *)
CancelLocking(p) ==
    /\ DropSnapshot(p)
    /\ Goto(p, "hung")
    /\ UNCHANGED <<database, lockHolder, known, cursor, attempts>>

(* statement_timeout, the only end of an index build that waits for a       *)
(* migrator that waits for the builder's lock: the session that holds the   *)
(* lock is idle, another connection builds, and the server sees no cycle.   *)
Timeout(p) == \/ pc[p] \in {"building", "awaiting"} /\ CancelIndex(p)
              \/ pc[p] = "locking" /\ lockHolder # None /\ CancelLocking(p)

(* The process dies and its sessions end; the server may still be busy with *)
(* an index that nobody waits for any more.                                *)
Crash(p) ==
    /\ pc[p] \in Locked \union {"locking"}
    /\ lockHolder' = IF lockHolder = p THEN None ELSE lockHolder
    /\ waitsFor' = [o \in Migrators |-> IF o = p THEN {} ELSE waitsFor[o] \ {p}]
    /\ Goto(p, "failed")
    /\ UNCHANGED <<database, known, cursor, attempts>>

Builds(p, i) == pc[p] \in {"building", "awaiting"} /\ IndexAt(p) = i

(* The server completes or cancels an index whose client has died. *)
EndOrphanedBuild ==
    \E i \in Indexes, outcome \in {"invalid", "valid"} :
        /\ index[i] = "building" /\ \A p \in Migrators : ~Builds(p, i)
        /\ index' = [index EXCEPT ![i] = outcome]
        /\ UNCHANGED <<rows, ups, lockHolder, pc, known, cursor, waitsFor, attempts>>

-----------------------------------------------------------------------------
Init ==
    /\ rows = [m \in 1..Deployed |-> m]
    /\ ups = [m \in Migrations |-> IF m <= Deployed THEN 1 ELSE 0]
    /\ index = [i \in Indexes |-> IF i[1] <= Deployed THEN "valid" ELSE "absent"]
    /\ lockHolder = None
    /\ pc = [p \in Migrators |-> "idle"]
    /\ known = [p \in Migrators |-> {}]
    /\ cursor = [p \in Migrators |-> <<1, 1>>]
    /\ waitsFor = [p \in Migrators |-> {}]
    /\ attempts = [p \in Migrators |-> 0]

Migrate(p) ==
    \/ AcquireLock(p) \/ LoadApplied(p) \/ SkipApplied(p)
    \/ ApplyInTransaction(p) \/ CreateIndex(p) \/ AwaitSnapshots(p) \/ FinishIndex(p)
    \/ RecordIndexes(p) \/ Complete(p) \/ Unlock(p)

Disturb(p) == RollBack(p) \/ Timeout(p) \/ Crash(p)

Next == \/ \E p \in Migrators : Connect(p) \/ Restart(p) \/ Migrate(p) \/ Disturb(p)
        \/ EndOrphanedBuild

Spec == Init /\ [][Next]_vars

(* A migrator keeps running, one that waits for the lock gets it when it is *)
(* free, and a statement that does not end in statement_timeout is ended.   *)
FairSpec == Spec /\ \A p \in Migrators : WF_vars(Migrate(p) \/ Timeout(p))

-----------------------------------------------------------------------------
(* Every variable holds a value of its type. *)
TypeOK ==
    /\ rows \in Seq(Migrations)
    /\ ups \in [Migrations -> Nat]
    /\ index \in [Indexes -> {"absent", "building", "invalid", "valid"}]
    /\ lockHolder \in Migrators \union {None}
    /\ pc \in [Migrators -> Locked \union {"idle", "locking", "done", "failed", "hung"}]
    /\ known \in [Migrators -> SUBSET Migrations]
    /\ cursor \in [Migrators -> Nat \X Nat]
    /\ waitsFor \in [Migrators -> SUBSET Migrators]
    /\ attempts \in [Migrators -> 0..MaxAttempts]

(* Whatever the crashes, restarts and concurrent migrators, a migration     *)
(* takes effect once, exactly when it is recorded.                         *)
AppliedOnce == \A m \in Migrations : ups[m] = IF m \in Applied THEN 1 ELSE 0

(* Migrations are recorded in their order, without gap or repetition: none  *)
(* ever runs on a schema that lacks an earlier one.                        *)
AppliedInOrder == \A i \in 1..Len(rows) : rows[i] = i

(* An index migration is recorded only when each of its indexes exists, and *)
(* no live migrator is still building one.                                 *)
RecordedIndexExists ==
    \A i \in Indexes : i[1] \in Applied =>
        index[i] # "absent" /\ \A p \in Migrators : ~Builds(p, i)

(* What a migrator read and did is what the database holds, at every step   *)
(* of its loop: the lock keeps its knowledge from growing stale.           *)
KnowledgeCurrent ==
    \A p \in Migrators :
        pc[p] \in {"next", "building", "awaiting"}
            => Applied = known[p] \union 1..(At(p) - 1)

(* schema_migrations tells what has happened to the database, whatever runs *)
(* beside a migrator or interrupts it.                                      *)
HistorySound == AppliedOnce /\ AppliedInOrder /\ RecordedIndexExists /\ KnowledgeCurrent

(* An index build and the migrators that wait for its lock, whose snapshots *)
(* it waits for, do not wait for each other for ever: whoever asks for the  *)
(* lock gets on or gives up, and the lock comes back from whoever has it,   *)
(* whatever fails, times out or dies meanwhile.                             *)
LockComesBack ==
    \A p \in Migrators :
        /\ pc[p] = "locking" ~> pc[p] \in {"done", "failed", "hung"}
        /\ lockHolder = p ~> lockHolder = None

-----------------------------------------------------------------------------
(* Readiness: the newest row must be the newest migration of the release.   *)

Ready(release) == Len(rows) > 0 /\ rows[Len(rows)] = release

(* A pod of the new release is ready only on a completely migrated schema. *)
ReadyMeansMigrated == Ready(Newest) => Applied = Migrations

(* "Build large indexes concurrently when supported, validate them", "safe  *)
(* under multiple replicas": a recorded migration has built its indexes.   *)
RecordedIndexValid == \A i \in Indexes : i[1] \in Applied => index[i] # "invalid"
=============================================================================
