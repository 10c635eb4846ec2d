SPECIFICATION BackfillSpec
\* The bounds on dates, prices and runs end every behaviour.
CHECK_DEADLOCK FALSE
CONSTANTS
  w1 = w1
  cli = cli
  script = script
  NoJob = NoJob
  Window = 2
  MaxDate = 2
  MaxPrice = 2
  MaxRuns = 2
  LaneJobs = {w1}
  FreeJobs = {cli, script}
  BackfillJobs = {script}
  LaneExpires = TRUE
INVARIANT SucceededIsComplete
PROPERTY BackfillKeepsConfirmed
