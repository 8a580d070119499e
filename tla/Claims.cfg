SPECIFICATION Spec
CONSTANTS
  RoundRatings = {}
  OtherRatings = {o1}
  Companies = {}
  Moderators = {mod, mod2}
  Admins = {}
  System = System
  Proc = {p1, p2}
  Ops = {"create", "update", "remove", "review", "claim", "release", "search"}
  Tracked = {"publishStatus", "publishCreated", "unindexQueue"}
  MaxEntries = 2
  Cap = 1
  Unreliable = TRUE
  Crashes = TRUE
  None = None
INVARIANTS
  AnnouncedWasDecided
PROPERTIES
  ClaimIsNotStolen
SYMMETRY Symmetry
CHECK_DEADLOCK FALSE
