SPECIFICATION FairSpec
CONSTANTS
  p1 = p1  p2 = p2  r1 = r1  r2 = r2  r3 = r3
  Requests = {r1, r2}
  Pids = {p1, p2}
  DataIds = {1, 2}
  Sizes = {0, 1}
  Slots = {1}
  Methods <- AllMethods
  MaxBatch = 2
  SeqStart = 1  Left <- OneObject
  NoRow = NoRow  NoFile = NoFile  NoCall = NoCall
INVARIANTS TypeOK DeletedByOwnerOrAdmin DownloadHasFile PreparedIsComplete PublishedHasFile OkMeansDone
PROPERTIES Answered ImplementsLifecycle
CHECK_DEADLOCK FALSE
