SPECIFICATION FairSpec
CONSTANTS
  Accounts = {a1}
  Outcomes = {"success"}
  Events = {e1, e2, w1}
  ExactEvents = {e1, e2}
  Panels = {}
  HostLifetime = 1
  MaxDedupe = 1
  WeakTTL = 1
  WeakBucket = 2
  DayLength = 3
  ResetTimes = {1}
  NoReset = off
  MaxTime = 4
  MaxDeliveries = 1
INVARIANTS RecentKeysKept
PROPERTIES ResetIsDue ResetHappens
