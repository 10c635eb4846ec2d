------------------------------- MODULE MCSeriesCache -------------------------------
(***************************************************************************)
(* An instance of SeriesCache for TLC: the worker and the script that      *)
(* publishes, a series the database has and one it has not.                *)
(***************************************************************************)
EXTENDS SeriesCache

CONSTANTS w, s
=============================================================================
