SPECIFICATION Spec
CONSTANTS
  Updates = {u1, u2, u3}
  NoUpdate = none
  Faults = {"io", "crash"}
INVARIANTS ViewIsSaved BakIsPrevious
PROPERTIES RefinesAtomicStore
