---------------------------- MODULE MCMigrations ----------------------------
(***************************************************************************)
(* Migrations for TLC: every migration that does something and one marker  *)
(* above them.                                                             *)
(***************************************************************************)
EXTENDS Migrations
=============================================================================
