SPECIFICATION Spec
CONSTANTS
  p1 = p1  p2 = p2  p3 = p3
  Pids = {p1, p2}
  MaxGid = 2
  Caps = {2}
  FlagSets <- SessionFlags
  CommunityFlagSets <- CommunityFlags
  MaxVacant = 2
  Extras <- OneExtra
  CreationMax = 1
  MaxBroken = 1  MaxLate = 1
  NoOne = NoOne  NoRow = NoRow  Gone = Gone
SYMMETRY Symmetry
PROPERTIES OwnerIsTold
