SPECIFICATION BrowsingFairSpec
CONSTANTS
  r1 = r1  b1 = b1  c1 = c1  c2 = c2  p1 = p1
  Requests = {r1}  Browsers = {b1}
  Pids = {p1}
  Courses = {c1, c2}
  Items <- SomeItems
  MaxItems = 2
  Methods <- SomeMethods
  Makers = {}  Shared = {}  Closed = {c2}  Reviewable = {c1}
  Caller <- SomeCaller
  IdLists <- SomeLists  OwnerLists <- SomeOwners
  Lengths = {0, 1}  MaxResults = 2  MaxRecommended = 2  PoolSizes = {2}  MaxOfOwner = 1
  NoOne = NoOne  NoRow = NoRow  NoCall = NoCall
INVARIANTS BrowsingTypeOK ShownIsCurrent NothingIsMissed ReplyIsAligned
PROPERTIES BrowsingAnswered Answered
CONSTRAINT Small
CHECK_DEADLOCK FALSE
