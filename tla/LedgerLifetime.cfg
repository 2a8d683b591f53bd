SPECIFICATION Spec
CONSTANTS
  Accounts = {a1}
  Outcomes = {"success"}
  Events = {e1}
  ExactEvents = {e1}
  Panels = {k1}
  HostLifetime = 5
  MaxDedupe = 3
  WeakTTL = 9
  WeakBucket = 1
  DayLength = 2
  ResetTimes = {1}
  NoReset = off
  MaxTime = 3
  MaxDeliveries = 1
INVARIANTS ShownRestartsAtReset
