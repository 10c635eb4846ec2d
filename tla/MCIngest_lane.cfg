SPECIFICATION Spec
\* The bounds on dates, prices and runs end every behaviour.
CHECK_DEADLOCK FALSE
CONSTANTS
  w1 = w1
  w2 = w2
  cli = cli
  NoJob = NoJob
  Window = 2
  MaxDate = 2
  MaxPrice = 2
  MaxRuns = 3
  LaneJobs = {w1, w2}
  FreeJobs = {}
  LaneExpires = FALSE
SYMMETRY MCSymmetry
INVARIANT TypeOK
INVARIANT RevisionsFormChains
INVARIANT ForecastCoversSnapshot
PROPERTY PricesNeverRegress
PROPERTY ConfirmedNeverRetreats
PROPERTY ImplementsFeed
