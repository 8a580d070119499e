SPECIFICATION MCSpec
CONSTANTS
  Ratings = {r1}
  Companies = {}
  Cap = 1
  MaxEntries = 2
  Broadcasts = {b1}
  Topics = {{"created"}, {"decided"}, {"broadcast"}}
  MaxRepeats = 2
  MaxReplay = 1
  MaxFaults = 1
  Replicas = {api1, api2}
  None = None
INVARIANTS
  MCTypeOK
  LoggedWasMailed
  MailsAreBounded
  MailTellsADecision
  AlarmsAreBounded
  ResolvedWasAnnounced
PROPERTIES
  DecisionIsMailed
CHECK_DEADLOCK FALSE
