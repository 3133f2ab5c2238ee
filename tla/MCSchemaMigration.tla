-------------------------- MODULE MCSchemaMigration --------------------------
(* SchemaMigration for TLC.  OldRows = 2 tells "all rows" from "some", and   *)
(* MaxSaves = 4 leaves a user two more, one after each of MaxStops = 3.      *)
EXTENDS SchemaMigration
=============================================================================
