SPECIFICATION FairSpec
CONSTANTS
  Accounts = {a1}
  NoAccount = none
  Callers = {u1}
  Panels = {k1}
  HealWorker = healer
  ProbeWorker = prober
  NoProc = free
  Prio <- MCPrio
  OtherPriorities = {7}
  ProbeResults = {"live", "dead"}
  FailWeights = {1}
  DebtSuccessDecay = 1
  DebtProbeThreshold = 1
  QueueSize = 1
  Disturbances = {"external"}
PROPERTIES EventuallySettled EveryOperationReturns
