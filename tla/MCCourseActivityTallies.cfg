SPECIFICATION Spec
CONSTANTS
  r1 = r1  r2 = r2  r3 = r3  c1 = c1  c2 = c2  p1 = p1  p2 = p2
  Requests = {r1, r2}
  Pids = {p1, p2}
  Courses = {c1, c2}
  Items <- TwoCourses
  MaxItems = 2
  Methods <- TallyMethods
  Makers = {c1}  Shared = {c2}
  Closed = {}  Reviewable = {}
  NoOne = NoOne  NoRow = NoRow  NoCall = NoCall
SYMMETRY Symmetry
INVARIANTS CountedOnce OnlyOnCourses MakerListIsOwners
CHECK_DEADLOCK FALSE
