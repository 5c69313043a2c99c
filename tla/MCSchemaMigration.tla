--------------------------- MODULE MCSchemaMigration ---------------------------
(* Small instances of SchemaMigration for TLC. *)
EXTENDS SchemaMigration, TLC

CONSTANTS m1, m2, v1, v2
================================================================================
