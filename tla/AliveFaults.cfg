SPECIFICATION Spec
CONSTANTS
  Accounts = {a1}
  NoAccount = none
  Callers = {u1, u2}
  Panels = {k1}
  HealWorker = healer
  ProbeWorker = prober
  NoProc = free
  Prio <- MCPrio
  OtherPriorities = {7}
  ProbeResults = {"live", "dead"}
  FailWeights = {1, 2}
  DebtSuccessDecay = 1
  DebtProbeThreshold = 2
  QueueSize = 1
  Disturbances = {"host", "restart", "external", "quota", "clear"}
SYMMETRY CallerSymmetry
INVARIANTS TypeOK BindingInv NoStaleWrite SkipIsSafe
PROPERTIES DeadIsFrozen
