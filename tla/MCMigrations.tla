---------------------------- MODULE MCMigrations ----------------------------
(* An instance of Migrations for TLC. *)
EXTENDS Migrations

Two == 1..2
OneKey == {"k"}
=============================================================================
