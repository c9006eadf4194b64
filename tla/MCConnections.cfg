SPECIFICATION Spec
CONSTANTS
  p1 = p1  p2 = p2  c1 = c1  c2 = c2  c3 = c3  u1 = u1  u2 = u2
  Pids = {p1, p2}
  Conns = {c1, c2, c3}
  Updates = {u1, u2}
  Friends <- EachOthers
  Validates = TRUE  MaxFailures = 1  MaxStations = 4
  NoOne = NoOne  NoRow = NoRow  Blank = Blank
CONSTRAINT Small
SYMMETRY Symmetry
INVARIANTS TypeOK NoticeOfConnected StationsAreOwners
PROPERTIES NoticeIsNotMissed
CHECK_DEADLOCK FALSE
