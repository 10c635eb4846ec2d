SPECIFICATION Spec
CONSTANTS
  w = w
  s = s
  ecb = ecb
  usdKrw = usdKrw
  NoTask = NoTask
  Torn = Torn
  Workers = {w}
  Scripts = {s}
  ScriptTasks = {"sync"}
  Providers <- MCProviders
  CodesOf <- MCCodesOf
  MarketDays = {8, 9}
  MaxRevisions = 0
  Kinds = {"weekly"}
  StoredKinds = {}
  Periods = {1, 2}
  Reach = 1
  MaxPrice = 1
  HealthCodes = {usdKrw}
  Lag <- MCLag
  FirstDay = 9
  LastDay = 12
  MaxRuns = 1
CHECK_DEADLOCK FALSE
INVARIANT HealthIsTrue
