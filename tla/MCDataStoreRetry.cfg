SPECIFICATION Spec
CONSTANTS
  p1 = p1  p2 = p2  r1 = r1  r2 = r2  r3 = r3
  Requests = {r1, r2, r3}
  Pids = {p1}
  DataIds = {1, 2}
  Sizes = {1}
  Slots = {1}
  Methods <- RetryMethods
  MaxBatch = 0
  SeqStart = 0  Left <- NoObjects
  NoRow = NoRow  NoFile = NoFile  NoCall = NoCall
PROPERTIES UploadedIsLeftAlone
CHECK_DEADLOCK FALSE
