------------------------------ MODULE MCMigrator ------------------------------
(***************************************************************************)
(* Instances of Migrator.                                                   *)
(***************************************************************************)
EXTENDS Migrator
===============================================================================
