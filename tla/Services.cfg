SPECIFICATION MCSpec
CONSTANTS
  Account = {a1, a2, a3}
  Root = root
  Seeded = {a1, a2}
  MaxOperations = 2
  MaxCrashes = 1
  None = None
  Browser = {b1, b2}
  Password = {x, y}
  MaxLinks = 2
  MaxRequests = 3
  Caller = {c1, c2}
  Limit = 2
  Window = 1
  MaxTime = 3
  MaxGrants = 3
  Rating = {r1, r2}
  RoundRating = {r1}
  Process = {p1, p2}
  MaxWork = 5
  RoundItem = {i1}
  RecruiterItem = {i2}
  OverallItem = {i3}
  Text = {comment, empty}
  NoText = empty
  MaxEdits = 2
  Entry = {1, 2}
  Submissions = {{1}, {2}}
  Searches = {{1, 2}}
  NoSearch = NoSearch
  MaxCalls = 4
  Tab = {t1}
  Draft = {d1}
  Nothing = Nothing
  MaxChanges = 2
  MaxSubmits = 2
INVARIANTS
  ServicesTyped
  AnAdminRemains
  PasswordSessionsAreCurrent
  GrantsAreBounded
  ErasureIsComplete
  PagesShowOwnChanges
  ADraftBecomesOneProcess
CHECK_DEADLOCK FALSE
