SPECIFICATION Spec
CONSTANTS
  Containers = 1
  Procs = {p1, p2}
  NoProc = none
  Layouts <- MCLayouts
  Modes <- MCModes
  ProbeResults <- MCProbeResults
  Prio <- MCPrio
  MaxTokens = 2
SYMMETRY ProcSymmetry
INVARIANTS TypeOK RefreshTokenKept StatusIsCurrent
PROPERTIES OnlyOwnFields ResignIsReadable
