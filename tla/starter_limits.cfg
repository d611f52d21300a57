\* One process, every limit and every way to end.
SPECIFICATION Spec
CONSTANTS
  N = 1
  Limits <- AllCpuLimits
  ExitKinds <- WaitStatus
  Forkers <- NoForkers
  MaxMemory = 2
  MemoryLimit = 1
INVARIANTS
  StatusIsExplained
PROPERTIES
  MemoryHighWater
