---------------------------- MODULE MCMigrations ----------------------------
(* An instance of Migrations.                                                *)
EXTENDS Migrations

CONSTANTS p1, p2, p3
=============================================================================
