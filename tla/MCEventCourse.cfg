SPECIFICATION BootSpec
CONSTANTS
  r1 = r1  r2 = r2  i1 = i1
  Requests = {r1, r2}
  Pids = {1, 2}
  DataIds = {1, 2, 3}
  Sizes = {0, 1}
  Slots = {1}
  Methods <- PlayerMethods
  MaxBatch = 0
  SeqStart = 0  Left <- NoObjects
  NoRow = NoRow  NoFile = NoFile  NoCall = NoCall
  Imports = {i1}
  AutoId = 0  MayFail = FALSE
  Courses <- SomeCourses
  EventId = 2  System = 2  EventSize = 0  MaxBoots = 2
SYMMETRY Symmetry
INVARIANTS BootTypeOK EventRowHasOneMaker
PROPERTIES ReadyIsServed ImplementsLifecycle
CHECK_DEADLOCK FALSE
