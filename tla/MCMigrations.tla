---------------------------- MODULE MCMigrations ----------------------------
(* Small instances of Migrations: a transactional migration is deployed,    *)
(* another one, one with two indexes and one more transactional follow.    *)
EXTENDS Migrations, TLC

CONSTANTS m1, m2

MCIndexCount == [m \in 1..4 |-> IF m = 3 THEN 2 ELSE 0]
=============================================================================
