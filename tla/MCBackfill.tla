------------------------------ MODULE MCBackfill ------------------------------
(* Small instances of Backfill for TLC. *)
EXTENDS Backfill, TLC

CONSTANTS w1, cli, script

===============================================================================
