\* A task that leaves out descriptor 0.
SPECIFICATION Spec
CONSTANTS
  MaxFd = 6
  Targets = {1, 3}
  Always = {1, 3}
  NPipes = 0
INVARIANTS
  MonitorEndsTidy
