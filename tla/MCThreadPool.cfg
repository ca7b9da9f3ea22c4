SPECIFICATION FairSpec
CONSTANTS
  w1 = w1
  w2 = w2
  c1 = c1
  c2 = c2
  Workers <- MCWorkers
  Clients <- MCClients
  NTasks = 3
  MaxBacklog = 1
INVARIANTS
  RunsAtMostOnce
  Accounting
  WaitedMeansNoneDropped
  NoLostWakeup
PROPERTIES
  WaitReturnsIdle
  QueuedEventuallyTaken
  WaitReturns
  DestructorReturns
