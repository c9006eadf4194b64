SPECIFICATION Spec
CONSTANTS
  r1 = r1  r2 = r2  r3 = r3  c1 = c1  c2 = c2  p1 = p1  p2 = p2
  Requests = {r1, r2, r3}
  Pids = {p1, p2}
  Courses = {c1}
  Items <- OneCourse
  MaxItems = 1
  Methods <- RecordMethods
  Makers = {}  Shared = {c1}
  Closed = {}  Reviewable = {}
  NoOne = NoOne  NoRow = NoRow  NoCall = NoCall
SYMMETRY Symmetry
INVARIANTS TypeOK LeaderboardIsHonest
CHECK_DEADLOCK FALSE
