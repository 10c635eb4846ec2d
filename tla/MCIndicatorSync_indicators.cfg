SPECIFICATION SyncSpec
CONSTANTS
  w = w
  s = s
  ecb = ecb
  fred = fred
  usdKrw = usdKrw
  brent = brent
  Workers = {w}
  Scripts = {s}
  Providers <- MCProviders
  CodesOf <- MCCodesOf
  MarketDays = {1, 2}
  MaxRevisions = 1
INVARIANT ReportIsTrue
PROPERTY ImplementsBoard
