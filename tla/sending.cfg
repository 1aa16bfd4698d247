SPECIFICATION SendingSpec
CONSTANTS
  Worker = {w1, w2}
  Token = {t1, t2}
  NoToken = NoToken
  Limit = 1
  Timeout = 1
  Grace = 2
  Lag = 1
  Threshold = 2
  OpenFor = 2
  ProbeFor = 2
  BodyLimit = 2
  MaxBody = 3
  Rules <- MCRules
  Replies <- MCReplies
  Edits <- MCEdits
  Changes = 1
  Process = {p1, p2}
  Staying = p1
  Row = {1, 2, 3}
  Kind <- MCKind
  Organization = {"o1", "o2"}
  OwnerOf <- MCOwnerOf
  PLANS <- MCPlans
  RETENTION_DAYS <- MCDays
  BATCH = 1
  Deleted = Deleted
  PlanChanges = 1
  Randoms = {0, 50, 100}
  Never = Never
INVARIANTS SendsWithinLimit SlotsCoverRequests NeverInside AnswerIsWhole AnnouncedIsKept DefaultTakesTwoDays
PROPERTIES GuardNeverShutOut ClientSettles KeptItsTime ExpiredGoes
CHECK_DEADLOCK FALSE
