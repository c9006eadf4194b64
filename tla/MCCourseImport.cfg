SPECIFICATION ImportSpec
CONSTANTS
  r1 = r1  r2 = r2  i1 = i1  i2 = i2
  Requests = {r1}
  Pids = {1, 2}
  DataIds = {1, 2, 3}
  Sizes = {1, 2}
  Slots = {1}
  Methods <- PlayerMethods
  MaxBatch = 0
  SeqStart = 0  Left <- NoObjects
  NoRow = NoRow  NoFile = NoFile  NoCall = NoCall
  Imports = {i1, i2}
  AutoId = 0  MayFail = TRUE
  Courses <- TwoCourses
INVARIANTS ImportTypeOK OneCreator ImportedKeepsFile
SYMMETRY Symmetry
PROPERTIES ImplementsLifecycle
CHECK_DEADLOCK FALSE
