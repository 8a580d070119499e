SPECIFICATION Spec
CONSTANTS
  RoundRatings = {r1}
  OtherRatings = {}
  Companies = {}
  Moderators = {mod}
  Admins = {admin}
  System = System
  Proc = {p1, p2}
  Ops = {"create", "update", "remove", "review"}
  Tracked = {"indexPublic", "unindexPublic"}
  MaxEntries = 3
  Cap = 1
  Unreliable = FALSE
  Crashes = FALSE
  None = None
INVARIANTS
  PublicTextWasApproved
CHECK_DEADLOCK FALSE
