SPECIFICATION FairSpec
CONSTANTS
  Delivery = {d1}
  Connection = {c1}
  ConnectionOf <- OneConnection
  Worker = {w1}
  MessageId = {m1}
  Scheduler = {s1}
  Sweeper = {sw1}
  Client = {}
  Expirable = {}
  NoTime = NoTime
  NoMessage = NoMessage
  NoDelivery = NoDelivery
  NoConnection = NoConnection
  StaleAge = 1
  MaxWait = 1
  RetryCount = 1
  ReclaimIdle = 1
  MaxDeliveries = 2
  RetryWaits = {1}
  DeferWaits = {1}
  MaxAsked = 0
PROPERTY OpenOnlyWhileDeferred
