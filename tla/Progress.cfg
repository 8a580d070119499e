SPECIFICATION LiveSpec
CONSTANTS
  RoundRatings = {r1}
  OtherRatings = {}
  Companies = {c1}
  Moderators = {}
  Admins = {admin}
  System = System
  Proc = {p1, p2}
  Ops = {"create", "update", "remove", "review", "list"}
  Tracked = {"indexQueue", "unindexQueue", "indexPublic", "unindexPublic", "refreshView"}
  MaxEntries = 2
  Cap = 1
  Unreliable = FALSE
  Crashes = FALSE
  None = None
INVARIANTS
  TypeOK
  ApprovedIsSearchable
PROPERTIES
  EveryRequestEnds
  OrphansAreHealed
  PendingBecomesFindable
CHECK_DEADLOCK FALSE
