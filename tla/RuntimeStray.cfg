SPECIFICATION Spec
CONSTANTS
  Updates = {u1, u2}
  Calls = {c1, c2}
  Runtimes = {r1, r2, r3, r4}
  Stores = {s1, s2, s3, s4}
  None = none
  d1 = d1
  d2 = d2
  Candidates <- OneDir
  Memory = memory
  HostDrains = FALSE
  DirsFail = FALSE
PROPERTIES ClosedStoresAreQuiet
