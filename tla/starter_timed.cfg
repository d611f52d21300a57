\* Two processes, one of which leaves descendants behind, and the real time
\* limit: the end of every behaviour.
SPECIFICATION TimedSpec
CONSTANTS
  N = 2
  Limits <- NoLimits
  ExitKinds <- CleanExit
  Forkers <- FirstId
  MaxMemory = 0
  MemoryLimit = 0
INVARIANTS
  ReapedIsSilenced
  Inductive
PROPERTIES
  Termination
