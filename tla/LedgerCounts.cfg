SPECIFICATION PromptSpec
CONSTANTS
  Accounts = {a1}
  Outcomes = {"success"}
  Events = {w1, w2}
  ExactEvents = {}
  Panels = {k1, k2}
  HostLifetime = 1
  MaxDedupe = 1
  WeakTTL = 0
  WeakBucket = 1
  DayLength = 1
  ResetTimes = {0}
  NoReset = off
  MaxTime = 2
  MaxDeliveries = 2
SYMMETRY PanelSymmetry
INVARIANTS ShownIsReal BoundToPeriod ShownNeverDrops
