SPECIFICATION Spec
CONSTANTS
  p0 = p0
  p1 = p1
  admin1 = admin1
  admin2 = admin2
  w1 = w1
  w2 = w2
  Params = {p0, p1}
  NoParams = NoParams
  Required = 1
  Confirmations = 2
  Cooldown = 2
  KeptSamples = 1
  FallbackParams = p0
  GridParams = {p0, p1}
  LaneRunners = {w1, w2}
  FreeRunners = {}
  Admins = {admin1}
  SessionIds = {1, 2, 3, 4, 5, 6, 7}
  NoRunner = NoRunner
  MaxWeek = 6
  MaxTransitions = 3
  MaxVersion = 1
  LaneExpires = FALSE
  HistoryLimit = 1
  MinObserved = 1
SYMMETRY MCSymmetry
INVARIANTS TypeOK MonitoringFollowsSetting ViewAgreesWithGates
PROPERTIES SettingChangesAreDecided ChangesKeepCooldown RollbackUndoesParent TimelineIsTrue
