SPECIFICATION CacheSpec
CONSTANTS
  w = w
  s = s
  Torn = Torn
  Workers = {w}
  Scripts = {s}
  Kinds = {"weekly", "monthly"}
  StoredKinds = {"monthly"}
  Periods = {1, 2}
  Reach = 1
  MaxPrice = 2
INVARIANT SavesKeepHistory
INVARIANT DatabaseFollowsFiles
PROPERTY UnreadableIsLeftAlone
