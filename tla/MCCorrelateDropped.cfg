SPECIFICATION MCSpec
CONSTANTS
  Parts = {"driver"}
  Main = Main
  w1 = w1
  w2 = w2
  Workers <- MCWorkers
  Clients <- MCClients
  Lines <- MCLines
  NTasks = 4
  MaxBacklog = 1
  Cases <- MCCases
  Modes = {"none", "now", "events"}
  Now = 5
  Share = 2
  MinusInf <- MCMinusInf
  Inf = 10
INVARIANT AllFeaturesPrinted
