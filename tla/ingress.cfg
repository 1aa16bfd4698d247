SPECIFICATION ReceivingSpec
CONSTANTS
  Call = {r1, r2}
  Webhook = {k1, k2}
  Replay = {p1}
  NoKey = NoKey
  Connection = {l1, l2}
  NoEvent = NoEvent
  Included = 2
  PerMinute = 1
  MaxUsed = 3
  SigningKey = {s1, s2, s3}
  Tolerance = 1
  Missing = Missing
SYMMETRY Symmetric
INVARIANTS StoredWithinPlan StoredIsCounted AnsweredIsStored QueuedOnce RotationLosesNothing
CHECK_DEADLOCK FALSE
