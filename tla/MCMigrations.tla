---------------------------- MODULE MCMigrations ----------------------------
(* The migrations of store.py:115 for TLC. *)
EXTENDS Migrations

(* Two of the tables of migration 1 stand for all. *)
MCScript == << <<"robots", "releases">>, <<"token_hash", "artifact_sha256", "artifact_sig">> >>

(* An empty file, a database from before schema_migrations, one of either  *)
(* version.                                                                *)
MCDatabase ==
    {[schema |-> {}, versions |-> {}],
     [schema |-> Upto(1), versions |-> {}],
     [schema |-> Upto(1), versions |-> {1}],
     [schema |-> Upto(2), versions |-> {1, 2}]}
=============================================================================
