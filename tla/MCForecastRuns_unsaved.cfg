SPECIFICATION Spec
\* The bounds on weeks and runs end every behaviour.
CHECK_DEADLOCK FALSE
CONSTANTS
  Unit = 100
  MinActuals = 2
  RecentWeeks = 2
  LongWeeks = 3
  RangeWindow = 2
  RangeMinimum = 1
  TailPart = 10
  NearHorizon = 1
  FarHorizon = 2
  TrendWeeks = 2
  TrendChoices <- MCTrends
  DubaiChoices <- MCDubai
  UsdKrwChoices <- MCUsdKrw
  CapChoices <- MCCaps
  BiasChoices <- MCCorrection
  DailyChoices <- MCCorrection
  MinSamples = 1
  BiasWeeks = 2
  TuningLimit = 2
  StoredPoints = 3
  ShownPoints = 2
  Highlights = 1
  RegimeWeeks = 2
  ReferenceWeeks = 2
  ReferenceMinimum = 1
  ReportMinimum = 1
  RecordLimit = 4
  CoverageMinimum = 1
  TargetCoverage = 80
  CoverageSlack = 20
  ForwardMinimum = 2
  DriftWeeks = 1
  AlertWeeks = 2
  WeekShapes <- MCWeekShapes
  Histories <- MCHistories
  DaysPerWeek = 2
  Settings <- MCSettings
  CorrectedSettings <- MCCorrected
  Horizons = 2
  CooldownWeeks = 2
  RequiredLag = 1
  StaleWeeks = 2
  MapeThreshold = 50
  HalfWon = 50
  MaxWeeks = 5
  MaxGaps = 1
  MaxRuns = 3
INVARIANT DiagnosticsAreShown
