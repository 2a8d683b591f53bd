SPECIFICATION DamagedSpec
\* No readable file is left in the end: load fails for good.
CHECK_DEADLOCK FALSE
CONSTANTS
  Updates = {u1, u2}
  NoUpdate = none
  Faults = {}
PROPERTIES BakStaysReadable
