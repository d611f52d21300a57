\* Two processes that never end by themselves once they are set up, with a
\* CPU limit, and no deadline.
SPECIFICATION UntimedSpec
CONSTANTS
  N = 2
  Limits <- CpuLimits
  ExitKinds <- NoExits
  Forkers <- NoForkers
  MaxMemory = 0
  MemoryLimit = 0
PROPERTIES
  LimitsAreEnforced
  GroupEndsWithWaited
