SPECIFICATION Spec
CONSTANTS
  Delivery = {d1}
  Connection = {c1}
  ConnectionOf <- OneConnection
  Worker = {w1}
  MessageId = {m1}
  Scheduler = {}
  Sweeper = {}
  Client = {a1, a2}
  Expirable = {d1}
  NoTime = NoTime
  NoMessage = NoMessage
  NoDelivery = NoDelivery
  NoConnection = NoConnection
  StaleAge = 1
  MaxWait = 1
  RetryCount = 1
  ReclaimIdle = 1
  MaxDeliveries = 2
  RetryWaits = {1}
  DeferWaits = {1}
  MaxAsked = 1
SYMMETRY Symmetric
VIEW ButTriggers
INVARIANT TypeOK
PROPERTY ClosedStaysClosed ImplementsLifecycle
