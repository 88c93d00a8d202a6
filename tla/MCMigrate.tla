----------------------------- MODULE MCMigrate -----------------------------
(* The processes of the repository, with its five migrations.              *)
EXTENDS Migrate

MCServices == {"ingestion", "backfill", "dbmigrate up"}
=============================================================================
