SPECIFICATION Spec
CONSTANTS
  RoundRatings = {r1}
  OtherRatings = {}
  Companies = {}
  Moderators = {mod}
  Admins = {admin}
  System = System
  Proc = {p1, p2}
  Ops = {"create", "update", "remove", "review"}
  Tracked = {}
  MaxEntries = 4
  Cap = 2
  Unreliable = FALSE
  Crashes = FALSE
  None = None
INVARIANTS
  OneLiveEntry
  VerdictIsOnCurrentText
  EscalatedAtCap
  EscalatedNeedsAdmin
  AuditedIffAutoApproved
PROPERTIES
  DecisionIsFinal
  TrailIsPermanent
  ImplementsGate
SYMMETRY Symmetry
CHECK_DEADLOCK FALSE
