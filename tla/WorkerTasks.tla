------------------------------- MODULE WorkerTasks -------------------------------
(***************************************************************************)
(* The processes that work on the indicators and the series caches.        *)
(***************************************************************************)
CONSTANTS
  Workers,    \* worker processes, one execution each
  Scripts     \* processes of the npm scripts

Tasks == Workers \union Scripts

ASSUME TasksAssumption == Workers \intersect Scripts = {}
=============================================================================
