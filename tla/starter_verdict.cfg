\* Two processes, verdicts: how ends, limits and the deadline combine.
SPECIFICATION Spec
CONSTANTS
  N = 2
  Limits <- CpuLimits
  ExitKinds <- PlainExits
  Forkers <- NoForkers
  MaxMemory = 0
  MemoryLimit = 0
INVARIANTS
  TypeOK
  MonitorPartition
  WaitHasChild
  LimitKillIsReported
  GroupOkIsEarned
  AbnormalHasCulprit
  EventsMatchResults
  LoaderHasControlGroup
PROPERTIES
  ResultIsFinal
  ImplementsExecution
