SPECIFICATION Spec
CONSTANTS
  Delivery = {d1}
  Connection = {c1}
  ConnectionOf <- OneConnection
  Worker = {w1, w2}
  MessageId = {m1, m2}
  Scheduler = {s1, s2}
  Sweeper = {}
  Client = {}
  Expirable = {}
  NoTime = NoTime
  NoMessage = NoMessage
  NoDelivery = NoDelivery
  NoConnection = NoConnection
  StaleAge = 1
  MaxWait = 1
  RetryCount = 2
  ReclaimIdle = 1
  MaxDeliveries = 2
  RetryWaits = {1}
  DeferWaits = {}
  MaxAsked = 0
SYMMETRY Symmetric
VIEW ButTriggers
INVARIANTS AttemptsNumbered RetryBudget
PROPERTY TakenOnce
