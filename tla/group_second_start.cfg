\* Two groups started one after the other.
SPECIFICATION Spec
CONSTANTS
  Groups = {g1, g2}
  MaxProcesses = 0
  MaxNotifiers = 0
INVARIANTS
  OneGroupAtATime
