---------------------------- MODULE MCMigrations ----------------------------
(* A few processes that open one database at the same time.                   *)
EXTENDS Migrations

CONSTANTS o1, o2, o3, nobody
=============================================================================
