SPECIFICATION FscSpec
\* The bounds on runs, results and quarters end every behaviour.
CHECK_DEADLOCK FALSE
CONSTANTS
  c1 = c1
  c2 = c2
  NoClient = NoClient
  MaxDate = 1
  MaxRuns = 2
  Clients = {c1, c2}
  InitialQuarter = 2
  MaxQuarter = 3
  MaxResults = 2
SYMMETRY MCSymmetry
INVARIANT FscTypeOK
INVARIANT NewestIsActive
INVARIANT ResultsFollowForecasts
INVARIANT FreshAnswers
INVARIANT DuplicatesOverlap
