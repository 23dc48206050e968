----------------------------- MODULE MCMigrate ------------------------------
(***************************************************************************)
(* A finite instance of Migrate.                                           *)
(***************************************************************************)
EXTENDS Migrate

=============================================================================
